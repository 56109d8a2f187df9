------------------------ MODULE MexcFutures_proofs ------------------------
(***************************************************************************)
(* Proofs about the two data types of a MEXC Futures command.  For every   *)
(* time line, venue, set of floors and bound on faults: the type invariant *)
(* of MexcFuturesUpdate, its two safety properties and that it implements  *)
(* RebuiltHistory.  For any number of settlements, page size, cutoff,      *)
(* attempts, rescans and faults: the type invariant of MexcFunding, that   *)
(* no run loses or doubles a stored rate, and that a complete scan skips   *)
(* nothing.                                                                *)
(***************************************************************************)
EXTENDS MexcFuturesUpdate, MexcFunding, NumberSets_proofs

-----------------------------------------------------------------------------
(* First and last rows *)

\* Every non-empty set of slots has a first element: what the first row of a
\* CSV or of a staged batch (mexc_staging.h, CsvTail) is.
LEMMA FirstSlot ==
    ASSUME NEW S \in SUBSET Slot, S # {}
    PROVE  Min(S) \in S /\ \A y \in S : Min(S) <= y
<1>1. S \in SUBSET Nat
    BY HorizonAssumption DEF Slot
<1> QED
    BY <1>1, FirstOf

\* And a last one: the tail of a CSV.
LEMMA LastSlot ==
    ASSUME NEW S \in SUBSET Slot, S # {}
    PROVE  Max(S) \in S /\ \A y \in S : y <= Max(S)
<1>1. Horizon \in Nat /\ S \in SUBSET (0 .. Horizon)
    BY HorizonAssumption DEF Slot
<1> QED
    BY <1>1, LastOf

-----------------------------------------------------------------------------
(* Candles: the inductive invariant, in named parts *)

Fetched == {"stage", "mark", "manifest", "commit"}
Downloading == Fetched \cup {"tidy", "retire"}

\* What the worker holds in memory at each step.
MemoryFits ==
    /\ pc \in Working => run \in Run
    /\ pc \in Downloading => walk \in Walk
    /\ pc \in Deleting => csv = {}
    /\ pc = "rebuild" => Unresolved

\* The directory exists only between its creation and the next discard.
NoStaging ==
    pc \in {"tail", "floor", "prefix", "extend", "rebuild", "stage", "retire"}
      => staging = None

\* A rebuild begins below the file it was asked for and reaches its end; any
\* other walk continues the file, or starts it where the marker says.
WalkExtends ==
    pc \in Fetched =>
      /\ walk.rows # {}
      /\ \A r \in walk.rows : walk.start <= r
      /\ walk.rebuild =>
           /\ csv # {}
           /\ \E r \in walk.rows : \A c \in csv : r < c
           /\ \A c \in csv : \E r \in walk.rows : c <= r
      /\ ~walk.rebuild /\ csv # {} => walk.start = Max(csv) + 1

\* The directory is the walk's own until it is discarded.
StagedIsWalk ==
    /\ pc \in {"mark", "manifest"} =>
         staging = [man |-> None, rows |-> walk.rows, whole |-> TRUE]
    /\ pc = "commit" =>
         /\ openEnded = ~walk.scanned
         /\ staging.man.hasBase = (~walk.rebuild /\ csv # {})
         /\ staging.man.start = walk.start
         /\ staging.man.first = Min(walk.rows) /\ staging.man.last = Max(walk.rows)

\* A download that scanned its whole range owes nothing it started at.
ScannedOwesNothing ==
    pc \in {"tidy", "retire"} /\ walk.scanned /\ owed # None => walk.start # owed

\* While a prefix is owed, the marker names it and no row reaches its floor.
OwedIsMarked ==
    owed # None =>
      /\ csv # {}
      /\ marker # None /\ marker.start = owed
      /\ ~ReachesDown(csv, owed)

\* Everything from the first to the last row was answered.
HullAnswered ==
    \A t \in Slot : (\E a, c \in csv : a <= t /\ t <= c) => t \in answered

IInv ==
    /\ TypeOK
    /\ MemoryFits /\ NoStaging
    /\ WalkExtends /\ StagedIsWalk /\ ScannedOwesNothing
    /\ OwedIsMarked /\ HullAnswered

-----------------------------------------------------------------------------
(* Candles: lemmas about the steps that change the rows *)

\* A staged transaction that may be committed continues the file it is
\* committed to: its rows lie between its start and its end, and the start
\* follows the last stored row.
LEMMA CommittableContinues ==
    ASSUME TypeOK, Committable(staging, csv, marker)
    PROVE  /\ staging \in FuturesStaging /\ staging.man \in FuturesManifest
           /\ staging.rows # {} /\ staging.rows \in SUBSET Slot
           /\ staging.man.start <= staging.man.first
           /\ staging.man.first \in staging.rows
           /\ \A r \in staging.rows : staging.man.first <= r /\ r <= staging.man.last
           /\ staging.man.hasBase <=> csv # {}
           /\ csv # {} => /\ Max(csv) \in csv /\ \A c \in csv : c <= Max(csv)
                          /\ staging.man.start = Max(csv) + 1
           /\ csv = {} /\ staging.man.start < staging.man.first =>
                marker # None /\ marker.start = staging.man.start
<1>1. staging \in FuturesStaging /\ staging.man \in FuturesManifest
    BY DEF TypeOK, Committable, FuturesStaging
<1>2. staging.rows \in SUBSET Slot /\ staging.rows # {}
    BY <1>1 DEF Committable, Validates, FuturesStaging
<1>3. staging.man.first \in staging.rows /\ staging.man.start <= staging.man.first
    BY <1>2, FirstSlot DEF Committable, Validates
<1>4. \A r \in staging.rows : staging.man.first <= r /\ r <= staging.man.last
    BY <1>2, FirstSlot, LastSlot DEF Committable, Validates
<1>5. staging.man.hasBase <=> csv # {}
    BY DEF Committable, OnItsBase
<1>6. csv # {} => Max(csv) \in csv /\ \A c \in csv : c <= Max(csv)
    BY LastSlot DEF TypeOK
<1>7. csv # {} => staging.man.start = Max(csv) + 1
    BY <1>5 DEF Committable, OnItsBase, Validates
<1>8. csv = {} /\ staging.man.start < staging.man.first =>
        marker # None /\ marker.start = staging.man.start
  <2>1. staging.man.start \in Int /\ staging.man.first \in Int
      BY <1>1, HorizonAssumption DEF FuturesManifest, Slot
  <2> QED
      BY <1>5, <2>1 DEF Committable, MarkerAllows
<1> QED
    BY <1>1, <1>2, <1>3, <1>4, <1>5, <1>6, <1>7, <1>8

\* Publishing a transaction keeps what is known about the rows: all of them
\* and what lies between is answered, and an owed prefix is marked.
LEMMA PublishKeepsRows ==
    ASSUME IInv, Committable(staging, csv, marker), Publish
    PROVE  /\ csv' \subseteq Slot /\ answered' \subseteq Slot
           /\ owed' \in Slot \cup {None}
           /\ csv # {} => owed' = owed
           /\ csv = {} /\ ~openEnded => owed' = None
           /\ OwedIsMarked' /\ HullAnswered'
<1> USE HorizonAssumption DEF IInv
<1> DEFINE man == staging.man
           rows == staging.rows
<1>1. /\ man \in FuturesManifest
      /\ rows # {} /\ rows \in SUBSET Slot
      /\ man.start <= man.first /\ man.first \in rows
      /\ \A r \in rows : man.first <= r /\ r <= man.last
      /\ man.hasBase <=> csv # {}
      /\ csv # {} => /\ Max(csv) \in csv /\ \A c \in csv : c <= Max(csv)
                     /\ man.start = Max(csv) + 1
      /\ csv = {} /\ man.start < man.first => marker # None /\ marker.start = man.start
    BY CommittableContinues
<1>2. /\ csv' = csv \cup rows /\ marker' = marker
      /\ answered' = answered \cup Covered(man)
      /\ owed' = IF man.hasBase THEN owed
                 ELSE IF openEnded /\ man.start < man.first THEN man.start ELSE None
    BY DEF Publish
<1>3. csv \in SUBSET Slot /\ answered \in SUBSET Slot /\ owed \in Slot \cup {None}
    BY DEF TypeOK
<1>4. man.start \in Slot /\ man.first \in Slot /\ man.last \in Slot
    BY <1>1 DEF FuturesManifest
<1>5. /\ Covered(man) \subseteq Slot
      /\ man.first .. man.last \subseteq Covered(man)
      /\ man.hasBase => Covered(man) = man.start .. man.last
    BY <1>1, <1>4 DEF Covered, Slot
<1> HIDE DEF man, rows
<1>6. csv' \subseteq Slot /\ answered' \subseteq Slot /\ owed' \in Slot \cup {None}
    BY <1>1, <1>2, <1>3, <1>4, <1>5
<1>7. CASE csv = {}
  <2>1. csv' = rows /\ ~man.hasBase
      BY <1>1, <1>2, <1>7
  <2>2. HullAnswered'
    <3>1. SUFFICES ASSUME NEW t \in Slot, NEW a \in rows, NEW c \in rows, a <= t, t <= c
                   PROVE  t \in man.first .. man.last
        BY <1>2, <1>5, <2>1 DEF HullAnswered
    <3> QED
        BY <1>1, <1>4, <3>1 DEF Slot
  <2>3. OwedIsMarked'
    <3>1. CASE openEnded /\ man.start < man.first
      <4>1. owed' = man.start /\ marker' # None /\ marker'.start = owed'
          BY <1>1, <1>2, <1>7, <2>1, <3>1
      <4>2. \A r \in rows : ~(r <= man.start)
          BY <1>1, <1>4, <3>1 DEF Slot
      <4> QED
          BY <1>1, <2>1, <4>1, <4>2 DEF OwedIsMarked, ReachesDown
    <3>2. CASE ~(openEnded /\ man.start < man.first)
        BY <1>2, <2>1, <3>2 DEF OwedIsMarked
    <3> QED
        BY <3>1, <3>2
  <2> QED
      BY <1>2, <1>6, <1>7, <2>1, <2>2, <2>3
<1>8. CASE csv # {}
  <2>1. man.hasBase /\ owed' = owed /\ answered' = answered \cup (man.start .. man.last)
      BY <1>1, <1>2, <1>5, <1>8
  <2>2. Max(csv) \in Slot
      BY <1>1, <1>3, <1>8
  <2>3. HullAnswered'
    <3>1. SUFFICES ASSUME NEW t \in Slot, NEW a \in csv', NEW c \in csv', a <= t, t <= c
                   PROVE  t \in answered'
        BY DEF HullAnswered
    <3>2. CASE t <= Max(csv)
      <4>1. a \in csv
        <5>1. SUFFICES ASSUME a \in rows PROVE FALSE
            BY <1>2, <3>1
        <5>2. Max(csv) + 1 <= man.first /\ man.first <= a /\ a \in Slot
            BY <1>1, <1>8, <5>1
        <5> QED
            BY <1>4, <2>2, <3>1, <3>2, <5>2 DEF Slot
      <4> QED
          BY <1>1, <1>2, <1>8, <3>1, <3>2, <4>1 DEF HullAnswered
    <3>3. CASE ~(t <= Max(csv))
      <4>1. man.start <= t /\ t <= man.last
          BY <1>1, <1>2, <1>3, <1>4, <1>8, <2>2, <3>1, <3>3 DEF Slot
      <4> QED
          BY <1>4, <2>1, <4>1 DEF Slot
    <3> QED
        BY <3>2, <3>3
  <2>4. OwedIsMarked'
    <3>1. SUFFICES ASSUME owed # None PROVE ~ReachesDown(csv', owed)
        BY <1>2, <1>8, <2>1 DEF OwedIsMarked
    <3>2. owed \in Slot /\ ~ReachesDown(csv, owed)
        BY <1>3, <3>1 DEF OwedIsMarked
    <3>3. \A r \in rows : ~(r <= owed)
        BY <1>1, <1>3, <1>4, <1>8, <2>2, <3>2 DEF ReachesDown, Slot
    <3> QED
        BY <1>2, <3>2, <3>3 DEF ReachesDown
  <2> QED
      BY <1>6, <1>8, <2>1, <2>3, <2>4
<1> QED
    BY <1>7, <1>8

\* Keeping a contiguous part of the rows (truncateAfter, an archive, a
\* restored copy) keeps the same two facts, with the history cut alike.
LEMMA TrimKeepsRows ==
    ASSUME IInv, NEW lo \in Slot, NEW hi \in Slot,
           csv' = {t \in csv : lo <= t /\ t <= hi}, Forget(csv', hi), marker' = marker
    PROVE  /\ csv' \subseteq Slot /\ answered' \subseteq Slot
           /\ owed' \in Slot \cup {None}
           /\ OwedIsMarked' /\ HullAnswered'
<1> USE HorizonAssumption DEF IInv
<1>1. csv \in SUBSET Slot /\ answered \in SUBSET Slot /\ owed \in Slot \cup {None}
    BY DEF TypeOK
<1>2. CASE csv' = {}
    BY <1>2 DEF Forget, OwedIsMarked, HullAnswered
<1>3. CASE csv' # {}
  <2>1. owed' = owed /\ answered' = {t \in answered : t <= hi}
      BY <1>3 DEF Forget
  <2>2. \A t \in Slot : (\E c \in csv' : t <= c) => t <= hi
      BY <1>1 DEF Slot
  <2>3. HullAnswered'
      BY <2>1, <2>2 DEF HullAnswered
  <2>4. OwedIsMarked'
      BY <1>3, <2>1 DEF OwedIsMarked, ReachesDown
  <2> QED
      BY <1>1, <2>1, <2>3, <2>4
<1> QED
    BY <1>2, <1>3

\* A rebuild that replaces the file covers it from below its first row to its
\* last one, so the union has no hole the download did not ask about.
LEMMA ReplaceKeepsRows ==
    ASSUME IInv, Replace
    PROVE  /\ csv' \subseteq Slot /\ answered' \subseteq Slot
           /\ owed' \in Slot \cup {None}
           /\ walk.scanned => owed' = None
           /\ OwedIsMarked' /\ HullAnswered'
<1> USE HorizonAssumption DEF IInv
<1> DEFINE man == staging.man
           rows == walk.rows
<1>1. /\ pc = "commit" /\ walk.rebuild
      /\ csv' = csv \cup rows /\ marker' = marker
      /\ answered' = answered \cup Covered(man)
      /\ owed' = IF walk.scanned \/ ReachesDown(rows, walk.start) THEN None ELSE owed
      /\ marker # None /\ marker.start = walk.start
    BY DEF Replace, ReplacesPrefix
<1>2. walk \in Walk /\ csv \in SUBSET Slot /\ answered \in SUBSET Slot
    BY <1>1 DEF TypeOK, MemoryFits, Downloading, Fetched
<1>3. /\ rows # {} /\ rows \in SUBSET Slot /\ walk.start \in Slot
      /\ \A r \in rows : walk.start <= r
      /\ csv # {}
      /\ \E r \in rows : \A c \in csv : r < c
      /\ \A c \in csv : \E r \in rows : c <= r
    BY <1>1, <1>2 DEF WalkExtends, Fetched, Walk
<1>4. man.first = Min(rows) /\ man.last = Max(rows) /\ ~man.hasBase /\ man.start = walk.start
    BY <1>1 DEF StagedIsWalk
<1>5. /\ man.first \in rows /\ man.last \in rows
      /\ \A r \in rows : man.first <= r /\ r <= man.last
    BY <1>3, <1>4, FirstSlot, LastSlot
<1>6. man.first \in Slot /\ man.last \in Slot /\ man.start <= man.first /\ man.start \in Slot
    BY <1>3, <1>4, <1>5
<1>7. Covered(man) \subseteq Slot /\ man.first .. man.last \subseteq Covered(man)
    BY <1>6 DEF Covered, Slot
<1> HIDE DEF man
<1>8. csv' \subseteq Slot /\ answered' \subseteq Slot /\ owed' \in Slot \cup {None}
    BY <1>1, <1>2, <1>3, <1>7 DEF TypeOK
<1>9. \A c \in csv' : man.first <= c /\ c <= man.last
  <2>1. SUFFICES ASSUME NEW c \in csv PROVE man.first <= c /\ c <= man.last
      BY <1>1, <1>5
  <2>2. PICK lo, hi \in rows : lo < c /\ c <= hi
      BY <1>3
  <2>3. man.first <= lo /\ hi <= man.last
      BY <1>5
  <2> QED
      BY <1>2, <1>3, <1>6, <2>2, <2>3 DEF Slot
<1>10. HullAnswered'
  <2>1. SUFFICES ASSUME NEW t \in Slot, NEW a \in csv', NEW c \in csv', a <= t, t <= c
                 PROVE  t \in man.first .. man.last
      BY <1>1, <1>7 DEF HullAnswered
  <2> QED
      BY <1>6, <1>8, <1>9, <2>1 DEF Slot
<1>11. OwedIsMarked'
  <2>1. SUFFICES ASSUME owed' # None PROVE ~ReachesDown(csv', owed)
      BY <1>1, <1>3 DEF OwedIsMarked
  <2>2. owed = walk.start /\ ~ReachesDown(csv, owed) /\ ~ReachesDown(rows, walk.start)
      BY <1>1, <2>1 DEF OwedIsMarked
  <2> QED
      BY <1>1, <2>2 DEF ReachesDown
<1> QED
    BY <1>1, <1>8, <1>10, <1>11

\* A download starts right above the tail, or at the start of an empty file; a
\* rebuild starts at the marked floor and covers the file.
LEMMA FetchFits ==
    ASSUME IInv, Fetch
    PROVE  walk' \in Walk /\ WalkExtends'
<1> USE HorizonAssumption DEF IInv
<1>1. PICK bound \in Bounds : \E rows \in Answers(Start, bound), scanned \in BOOLEAN :
             /\ Extends(rows)
             /\ walk' = [start |-> Start, rows |-> rows, scanned |-> scanned,
                         rebuild |-> pc = "rebuild"]
    BY DEF Fetch
<1>2. PICK rows \in Answers(Start, bound), scanned \in BOOLEAN :
             /\ Extends(rows)
             /\ walk' = [start |-> Start, rows |-> rows, scanned |-> scanned,
                         rebuild |-> pc = "rebuild"]
    BY <1>1
<1>3. rows \in SUBSET Slot /\ \A r \in rows : Start <= r
  <2>1. rows \subseteq {t \in Traded : Start <= t /\ t <= bound /\ t <= clock}
      BY DEF Answers
  <2> QED
      BY <2>1, TradedAssumption
<1>4. /\ run \in Run /\ csv \in SUBSET Slot /\ csv' = csv
      /\ marker \in Marker \cup {None}
      /\ pc = "rebuild" \/ (pc = "extend" /\ From <= run.last)
    BY DEF Fetch, Fetching, TypeOK, MemoryFits, Working, disk
<1>5. csv # {} => /\ Min(csv) \in csv /\ Max(csv) \in csv
                  /\ \A c \in csv : Min(csv) <= c /\ c <= Max(csv)
    BY <1>4, FirstSlot, LastSlot
<1>6. rows # {} /\ Min(rows) \in rows /\ Max(rows) \in rows
    BY <1>2, <1>3, FirstSlot, LastSlot DEF Extends
<1>7. CASE pc = "rebuild"
  <2>1. marker \in Marker /\ csv # {} /\ Start = marker.start /\ marker.start \in Slot
      BY <1>4, <1>7 DEF MemoryFits, Unresolved, Start, Marker
  <2>2. Min(rows) < Min(csv) /\ Max(rows) >= Max(csv)
      BY <1>2, <1>7 DEF Extends
  <2>3. walk' \in Walk
      BY <1>2, <1>3, <2>1 DEF Walk
  <2>4. \A c \in csv : Min(rows) < c /\ c <= Max(rows)
    <3>1. \A c \in csv : Min(csv) <= c /\ c <= Max(csv)
        BY <1>5, <2>1
    <3>2. csv \subseteq Int /\ rows \subseteq Int
        BY <1>3, <1>4 DEF Slot
    <3>3. Min(csv) \in Int /\ Max(csv) \in Int /\ Min(rows) \in Int /\ Max(rows) \in Int
        BY <1>5, <1>6, <2>1, <3>2
    <3> QED
        BY <2>2, <3>1, <3>2, <3>3
  <2> QED
      BY <1>2, <1>3, <1>4, <1>6, <1>7, <2>1, <2>3, <2>4 DEF WalkExtends
<1>8. CASE pc = "extend"
  <2>1. From <= run.last /\ run.last \in Slot /\ run.floor \in Slot /\ Start = From
      BY <1>4, <1>8 DEF Run, Start
  <2>2. From \in Slot /\ (csv # {} => From = Max(csv) + 1)
    <3>1. CASE csv = {}
        BY <1>4, <2>1, <3>1 DEF From, Marker
    <3>2. CASE csv # {}
      <4>1. From = Max(csv) + 1 /\ Max(csv) \in Slot
          BY <1>4, <1>5, <3>2 DEF From
      <4> QED
          BY <2>1, <4>1 DEF Slot
    <3> QED
        BY <3>1, <3>2
  <2>3. walk' \in Walk
      BY <1>2, <1>3, <2>1, <2>2 DEF Walk
  <2> QED
      BY <1>2, <1>3, <1>4, <1>6, <1>8, <2>1, <2>2, <2>3 DEF WalkExtends
<1> QED
    BY <1>4, <1>7, <1>8

-----------------------------------------------------------------------------
(* Candles: the invariant is inductive *)

\* The initial states satisfy the invariant.
LEMMA InitInvariant == Init => IInv
<1> SUFFICES ASSUME Init PROVE IInv
    OBVIOUS
<1> USE HorizonAssumption DEF Init
<1>1. csv \in SUBSET Slot
    BY TradedAssumption
<1>2. csv # {} => /\ Min(csv) \in csv /\ Max(csv) \in csv
                  /\ \A c \in csv : Min(csv) <= c /\ c <= Max(csv)
    BY <1>1, FirstSlot, LastSlot
<1>3. /\ marker = None /\ staging = None /\ pc = "idle" /\ run = None /\ walk = None
      /\ clock = FirstClock /\ healed = FALSE /\ revised = {} /\ faults = 0 /\ edits = 0
      /\ owed = None /\ openEnded = FALSE
      /\ answered = IF csv = {} THEN {} ELSE Min(csv) .. Max(csv)
    OBVIOUS
<1> HIDE DEF Init
<1>4. answered \subseteq Slot /\ HullAnswered
  <2>1. CASE csv = {}
      BY <1>3, <2>1 DEF HullAnswered
  <2>2. CASE csv # {}
    <3>1. Min(csv) \in Slot /\ Max(csv) \in Slot /\ answered = Min(csv) .. Max(csv)
        BY <1>1, <1>2, <1>3, <2>2
    <3>2. answered \subseteq Slot
        BY <3>1 DEF Slot
    <3>3. HullAnswered
        BY <1>1, <1>2, <2>2, <3>1 DEF HullAnswered, Slot
    <3> QED
        BY <3>2, <3>3
  <2> QED
      BY <2>1, <2>2
<1>5. faults \in 0 .. MaxFaults /\ edits \in 0 .. MaxEdits
    BY <1>3, BoundAssumption
<1>6. TypeOK
    BY <1>1, <1>3, <1>4, <1>5, ClockAssumption DEF TypeOK
<1> QED
    BY <1>3, <1>4, <1>6 DEF IInv, MemoryFits, NoStaging, WalkExtends, StagedIsWalk,
        ScannedOwesNothing, OwedIsMarked, Fetched, Downloading, Working, Deleting

\* All but the type of the world outside depends on what the worker sees and did.
LEMMA WorldIsFree ==
    ASSUME IInv, UNCHANGED <<disk, memory, history>>, TypeOK'
    PROVE  IInv'
<1> USE DEF disk, memory, history
<1>1. MemoryFits'
    BY DEF IInv, MemoryFits, Unresolved
<1>2. NoStaging'
    BY DEF IInv, NoStaging
<1>3. WalkExtends'
    BY DEF IInv, WalkExtends
<1>4. StagedIsWalk' /\ ScannedOwesNothing'
    BY DEF IInv, StagedIsWalk, ScannedOwesNothing
<1>5. OwedIsMarked' /\ HullAnswered'
    BY DEF IInv, OwedIsMarked, HullAnswered
<1> QED
    BY <1>1, <1>2, <1>3, <1>4, <1>5 DEF IInv

\* Every step preserves the invariant: one step per action.
LEMMA NextInvariant == IInv /\ [Next]_vars => IInv'
<1> SUFFICES ASSUME IInv, [Next]_vars PROVE IInv'
    OBVIOUS
<1> USE HorizonAssumption
    DEF IInv, TypeOK, MemoryFits, NoStaging, WalkExtends, StagedIsWalk, ScannedOwesNothing,
        OwedIsMarked, HullAnswered, Fetched, Downloading, Working, Deleting,
        disk, memory, world, history, Goto, Finish, Discard
<1>1. CASE StartRun
  <2>1. run' \in Run
      BY <1>1 DEF StartRun, Run, Slot
  <2> QED
      BY <1>1, <2>1 DEF StartRun
<1>2. CASE RecoverNothing
    BY <1>2 DEF RecoverNothing
<1>3. CASE RecoverDiscard
    BY <1>3 DEF RecoverDiscard
<1>4. CASE RecoverCommit
  <2>1. /\ csv' \subseteq Slot /\ answered' \subseteq Slot
        /\ owed' \in Slot \cup {None}
        /\ OwedIsMarked' /\ HullAnswered'
    <3> HIDE DEF IInv, OwedIsMarked, HullAnswered
    <3> QED
        BY <1>4, PublishKeepsRows DEF RecoverCommit
  <2> HIDE DEF OwedIsMarked, HullAnswered
  <2> QED
      BY <1>4, <2>1 DEF RecoverCommit, Publish
<1>5. CASE RecoverRefused
    BY <1>5 DEF RecoverRefused
<1>6. CASE TidyRecovered
    BY <1>6 DEF TidyRecovered
<1>7. CASE RepairTail
  <2>1. run.last \in Slot /\ csv' = {t \in csv : 0 <= t /\ t <= run.last} /\ 0 \in Slot
      BY <1>7 DEF RepairTail, Run, Slot
  <2>2. /\ csv' \subseteq Slot /\ answered' \subseteq Slot
        /\ owed' \in Slot \cup {None}
        /\ OwedIsMarked' /\ HullAnswered'
    <3> HIDE DEF IInv, OwedIsMarked, HullAnswered
    <3> QED
        BY <1>7, <2>1, TrimKeepsRows DEF RepairTail
  <2> HIDE DEF OwedIsMarked, HullAnswered
  <2> QED
      BY <1>7, <2>2 DEF RepairTail
<1>8. CASE ReconcileFloor
  <2>1. CASE ~(run.explicit /\ marker # None)
      BY <1>8, <2>1 DEF ReconcileFloor
  <2>2. CASE run.explicit /\ marker # None
    <3>1. marker' = IF csv = {} \/ ReachesDown(csv, run.floor) THEN None
                    ELSE IF marker.start = run.floor THEN marker
                         ELSE [start |-> run.floor, cursor |-> 0]
        BY <1>8, <2>2 DEF ReconcileFloor, ReconciledMarker
    <3>2. owed' = IF owed = None \/ marker' = None THEN None ELSE marker'.start
        BY <1>8, <2>2 DEF ReconcileFloor
    <3>3. marker' \in Marker \cup {None}
        BY <1>8, <3>1 DEF ReconcileFloor, Run, Marker, Slot
    <3>4. marker' # None => /\ marker'.start = run.floor /\ csv # {}
                            /\ ~ReachesDown(csv, run.floor)
        BY <3>1
    <3>5. OwedIsMarked' /\ owed' \in Slot \cup {None}
        BY <1>8, <3>2, <3>3, <3>4 DEF ReconcileFloor, Marker
    <3> QED
        BY <1>8, <3>3, <3>5 DEF ReconcileFloor
  <2> QED
      BY <2>1, <2>2
<1>9. CASE NoPrefix
    BY <1>9 DEF NoPrefix
<1>10. CASE PrefixReached
    BY <1>10 DEF PrefixReached
<1>11. CASE ProbeEmpty
    BY <1>11 DEF ProbeEmpty
<1>12. CASE ProbeFound
    BY <1>12 DEF ProbeFound, Unresolved
<1>13. CASE NothingToFetch
    BY <1>13 DEF NothingToFetch
<1>14. CASE Fetch
  <2>1. walk' \in Walk /\ WalkExtends'
    <3> HIDE DEF IInv, WalkExtends
    <3> QED
        BY <1>14, FetchFits
  <2> HIDE DEF WalkExtends
  <2> QED
      BY <1>14, <2>1 DEF Fetch, Fetching
<1>15. CASE FetchRefused
    BY <1>15 DEF FetchRefused
<1>16. CASE StageWalk
    BY <1>16 DEF StageWalk, FuturesStaging, Walk
<1>17. CASE MarkProvisional
  <2>1. marker' \in Marker \cup {None} /\ (marker' # marker => csv = {})
    <3>1. [start |-> walk.start, cursor |-> 0] \in Marker
        BY <1>17 DEF MarkProvisional, Walk, Marker, Slot
    <3> QED
        BY <1>17, <3>1 DEF MarkProvisional
  <2> QED
      BY <1>17, <2>1 DEF MarkProvisional
<1>18. CASE WriteManifest
  <2> DEFINE man == [hasBase |-> ~walk.rebuild /\ csv # {},
                     base |-> IF walk.rebuild THEN Epoch ELSE TailStamp(csv, run.floor),
                     start |-> walk.start,
                     first |-> Min(walk.rows), last |-> Max(walk.rows)]
  <2>1. /\ pc = "manifest" /\ walk \in Walk /\ run \in Run /\ walk.rows # {}
        /\ staging = [man |-> None, rows |-> walk.rows, whole |-> TRUE]
      BY <1>18 DEF WriteManifest
  <2>2. /\ staging' = [man |-> man, rows |-> walk.rows, whole |-> TRUE]
        /\ openEnded' = ~walk.scanned
        /\ pc' = "commit" /\ UNCHANGED <<run, csv, marker, walk, world, owed, answered>>
      BY <1>18, <2>1 DEF WriteManifest
  <2>3. Min(walk.rows) \in Slot /\ Max(walk.rows) \in Slot
      BY <2>1, FirstSlot, LastSlot DEF Walk
  <2>4. TailStamp(csv, run.floor) \in Slot
      BY <2>1, LastSlot DEF TailStamp, Run
  <2>5. man \in FuturesManifest
      BY <2>1, <2>3, <2>4 DEF FuturesManifest, Walk
  <2>6. /\ man.hasBase = (~walk.rebuild /\ csv # {}) /\ man.start = walk.start
        /\ man.first = Min(walk.rows) /\ man.last = Max(walk.rows)
      OBVIOUS
  <2> HIDE DEF man
  <2>7. staging' \in FuturesStaging /\ staging'.man = man
      BY <2>1, <2>2, <2>5 DEF FuturesStaging, Walk
  <2>8. WalkExtends' /\ StagedIsWalk'
      BY <2>1, <2>2, <2>6, <2>7 DEF Walk
  <2> HIDE DEF WalkExtends, StagedIsWalk
  <2> QED
      BY <2>1, <2>2, <2>7, <2>8
<1>19. CASE Commit
  <2>1. /\ csv' \subseteq Slot /\ answered' \subseteq Slot
        /\ owed' \in Slot \cup {None}
        /\ csv # {} => owed' = owed
        /\ csv = {} /\ ~openEnded => owed' = None
        /\ OwedIsMarked' /\ HullAnswered'
    <3> HIDE DEF IInv, OwedIsMarked, HullAnswered
    <3> QED
        BY <1>19, PublishKeepsRows DEF Commit
  <2>2. ScannedOwesNothing'
    <3>1. pc' = "tidy" /\ walk' = walk /\ walk \in Walk /\ openEnded = ~walk.scanned
        BY <1>19 DEF Commit
    <3>2. SUFFICES ASSUME walk.scanned, owed' # None PROVE walk.start # owed'
        BY <3>1
    <3>3. csv # {} /\ owed' = owed
        BY <2>1, <3>1, <3>2
    <3>4. walk.start = Max(csv) + 1 /\ Max(csv) \in csv /\ ~ReachesDown(csv, owed) /\ owed \in Slot
        BY <1>19, <3>2, <3>3, LastSlot DEF Commit
    <3>5. Max(csv) \in Slot /\ ~(Max(csv) <= owed)
        BY <3>4 DEF ReachesDown
    <3> QED
        BY <3>3, <3>4, <3>5 DEF Slot
  <2> HIDE DEF OwedIsMarked, HullAnswered, ScannedOwesNothing
  <2> QED
      BY <1>19, <2>1, <2>2 DEF Commit, Publish
<1>20. CASE CommitRefused
    BY <1>20 DEF CommitRefused
<1>21. CASE Replace
  <2>1. /\ csv' \subseteq Slot /\ answered' \subseteq Slot
        /\ owed' \in Slot \cup {None}
        /\ walk.scanned => owed' = None
        /\ OwedIsMarked' /\ HullAnswered'
    <3> HIDE DEF IInv, OwedIsMarked, HullAnswered
    <3> QED
        BY <1>21, ReplaceKeepsRows
  <2> HIDE DEF OwedIsMarked, HullAnswered
  <2> QED
      BY <1>21, <2>1 DEF Replace
<1>22. CASE ReplaceRefused
    BY <1>22 DEF ReplaceRefused
<1>23. CASE Tidy
    BY <1>23 DEF Tidy
<1>24. CASE RetireMarker
    BY <1>24 DEF RetireMarker
<1>25. CASE DeleteCsv
    BY <1>25, BoundAssumption DEF DeleteCsv
<1>26. CASE DeleteMarker
    BY <1>26 DEF DeleteMarker
<1>27. CASE DeleteStaging
    BY <1>27 DEF DeleteStaging
<1>28. CASE Crash
    BY <1>28, BoundAssumption DEF Crash
<1>29. CASE CrashInStaging
  <2>1. PICK man \in {None} \cup (IF staging = None THEN {} ELSE {staging.man}) :
               staging' = [man |-> man, rows |-> {}, whole |-> FALSE]
      BY <1>29 DEF CrashInStaging
  <2>2. staging' \in FuturesStaging
      BY <2>1 DEF FuturesStaging
  <2>3. faults' \in 0 .. MaxFaults
      BY <1>29, BoundAssumption DEF CrashInStaging
  <2> QED
      BY <1>29, <2>2, <2>3 DEF CrashInStaging
<1>30. CASE OperatorEdit
  <2>1. PICK lo, hi \in Slot : csv' = {t \in csv : lo <= t /\ t <= hi} /\ Forget(csv', hi)
      BY <1>30 DEF OperatorEdit
  <2>2. /\ csv' \subseteq Slot /\ answered' \subseteq Slot
        /\ owed' \in Slot \cup {None}
        /\ OwedIsMarked' /\ HullAnswered'
    <3> HIDE DEF IInv, OwedIsMarked, HullAnswered
    <3> QED
        BY <1>30, <2>1, TrimKeepsRows DEF OperatorEdit
  <2>3. edits' \in 0 .. MaxEdits /\ revised' \subseteq Slot
      BY <1>30, BoundAssumption DEF OperatorEdit
  <2>4. /\ pc = "idle"
        /\ UNCHANGED <<marker, staging, pc, run, walk, clock, healed, faults, openEnded>>
      BY <1>30 DEF OperatorEdit
  <2> HIDE DEF OwedIsMarked, HullAnswered
  <2> QED
      BY <2>2, <2>3, <2>4
<1>31. CASE Revise
  <2>1. revised' \subseteq Slot /\ edits' \in 0 .. MaxEdits
      BY <1>31, BoundAssumption DEF Revise
  <2>2. UNCHANGED <<disk, memory, history>> /\ TypeOK'
      BY <1>31, <2>1 DEF Revise
  <2> QED
      BY <2>2, WorldIsFree
<1>32. CASE Tick
  <2>1. clock' \in Slot \ {0}
      BY <1>32 DEF Tick, Slot
  <2>2. UNCHANGED <<disk, memory, history>> /\ TypeOK'
      BY <1>32, <2>1 DEF Tick
  <2> QED
      BY <2>2, WorldIsFree
<1>33. CASE Heal
  <2>1. UNCHANGED <<disk, memory, history>> /\ TypeOK'
      BY <1>33 DEF Heal
  <2> QED
      BY <2>1, WorldIsFree
<1>34. CASE UNCHANGED vars
  <2>1. UNCHANGED <<disk, memory, history>> /\ TypeOK'
      BY <1>34 DEF vars
  <2> QED
      BY <2>1, WorldIsFree
<1> QED
    BY <1>1, <1>2, <1>3, <1>4, <1>5, <1>6, <1>7, <1>8, <1>9, <1>10, <1>11, <1>12,
       <1>13, <1>14, <1>15, <1>16, <1>17, <1>18, <1>19, <1>20, <1>21, <1>22, <1>23, <1>24,
       <1>25, <1>26, <1>27, <1>28, <1>29, <1>30, <1>31, <1>32, <1>33, <1>34
    DEF Next, Worker

\* The invariant holds in every reachable state.
THEOREM Invariance == Spec => []IInv
<1> QED
    BY InitInvariant, NextInvariant, PTL DEF Spec

-----------------------------------------------------------------------------
(* Candles: safety *)

\* Type correctness: every variable keeps its type through every step, crash
\* and restart of the worker.
THEOREM TypeCorrectness == Spec => []TypeOK
<1>1. IInv => TypeOK
    BY DEF IInv
<1> QED
    BY <1>1, Invariance, PTL

\* The marker of a published suffix with an owed prefix is on disk and names its
\* floor, wherever the worker was killed and however often the venue answered
\* with nothing (mexc_futures_downloader.cpp:608).
THEOREM SuffixMarked == Spec => []SuffixKeepsMarker
<1>1. IInv => SuffixKeepsMarker
    BY DEF IInv, OwedIsMarked, SuffixKeepsMarker
<1> QED
    BY <1>1, Invariance, PTL

\* No step leaves a hole in the stored rows that no venue answer covered: not an
\* interrupted rebuild, not a stale manifest, not a union.
THEOREM HolesAnswered == Spec => []NoUnansweredHole
<1>1. IInv => NoUnansweredHole
  <2>1. SUFFICES ASSUME IInv, NEW t \in Slot, NEW a \in csv, NEW c \in csv, a < t, t < c
                 PROVE  t \in answered
      BY DEF NoUnansweredHole
  <2>2. a <= t /\ t <= c
      BY <2>1, HorizonAssumption DEF IInv, TypeOK, Slot
  <2> QED
      BY <2>1, <2>2 DEF IInv, HullAnswered
<1> QED
    BY <1>1, Invariance, PTL

-----------------------------------------------------------------------------
(* Candles: the file and its marker implement RebuiltHistory *)

\* The steps that change the CSV or its marker; the others are invisible to a
\* reader of the data directory.
LEMMA VisibleSteps ==
    [Next]_vars =>
      \/ UNCHANGED <<csv, marker>>
      \/ RecoverCommit \/ RepairTail \/ ReconcileFloor \/ PrefixReached
      \/ MarkProvisional \/ Commit \/ Replace \/ RetireMarker
      \/ DeleteCsv \/ DeleteMarker \/ OperatorEdit
<1> USE DEF disk, memory, world, history, Discard
<1> QED
    BY DEF Next, Worker, vars,
        StartRun, RecoverNothing, RecoverDiscard, RecoverRefused, TidyRecovered,
        NoPrefix, ProbeEmpty, ProbeFound, NothingToFetch, Fetch, FetchRefused,
        StageWalk, WriteManifest, CommitRefused, ReplaceRefused, Tidy, DeleteStaging,
        Crash, CrashInStaging, Revise, Tick, Heal

\* A published transaction is the first content of a file or an append to it.
LEMMA PublishIsHistory ==
    ASSUME IInv, Committable(staging, csv, marker), Publish
    PROVE  History!Publish \/ History!Append
<1>1. /\ staging.rows # {} /\ staging.rows \in SUBSET Slot
      /\ staging.man.start \in Slot
      /\ \A r \in staging.rows : staging.man.first <= r
      /\ staging.man.start <= staging.man.first /\ staging.man.first \in Slot
      /\ csv # {} => /\ Max(csv) \in csv /\ \A c \in csv : c <= Max(csv)
                     /\ staging.man.start = Max(csv) + 1
    BY CommittableContinues DEF IInv, FuturesManifest
<1>2. csv' = csv \cup staging.rows /\ marker' = marker /\ csv \in SUBSET Slot
    BY DEF Publish, IInv, TypeOK
<1>3. CASE csv = {}
    BY <1>1, <1>2, <1>3 DEF History!Publish
<1>4. CASE csv # {}
  <2>1. \A new \in csv' \ csv, old \in csv : old < new
    <3>1. SUFFICES ASSUME NEW new \in staging.rows, NEW old \in csv
                   PROVE  old < new
        BY <1>2
    <3>2. old <= Max(csv) /\ Max(csv) + 1 <= staging.man.first /\ staging.man.first <= new
        BY <1>1, <1>4
    <3>3. new \in Slot /\ old \in Slot /\ Max(csv) \in Slot
        BY <1>1, <1>2, <1>4
    <3> QED
        BY <1>1, <3>2, <3>3, HorizonAssumption DEF Slot
  <2>2. (csv' # {} /\ marker' # None) = (csv # {} /\ marker # None)
      BY <1>2, <1>4
  <2> QED
      BY <1>2, <1>4, <2>1, <2>2 DEF History!Append
<1> QED
    BY <1>3, <1>4

\* Keeping a contiguous part of the rows is a trim of the history.
LEMMA TrimIsHistory ==
    ASSUME IInv, NEW lo \in Slot, NEW hi \in Slot,
           csv' = {t \in csv : lo <= t /\ t <= hi}, marker' = marker
    PROVE  History!Trim
<1>1. csv \in SUBSET Slot
    BY DEF IInv, TypeOK
<1>2. \A a, c \in csv', b \in csv : a <= b /\ b <= c => b \in csv'
    BY <1>1, HorizonAssumption DEF Slot
<1>3. (csv' # {} /\ marker' # None) = ((csv # {} /\ marker # None) /\ csv' # {})
    OBVIOUS
<1> QED
    BY <1>2, <1>3 DEF History!Trim

\* Replacing the file with its union with a rebuild is a step of the abstract
\* rebuild: the flag is up, older rows appear and no stored row is lost.
LEMMA ReplaceIsRebuild ==
    ASSUME IInv, Replace
    PROVE  History!Rebuild
<1>1. /\ pc = "commit" /\ walk.rebuild /\ csv' = csv \cup walk.rows /\ marker' = marker
      /\ marker # None
    BY DEF Replace, ReplacesPrefix
<1>2. csv # {} /\ \E r \in walk.rows : \A c \in csv : r < c
    BY <1>1 DEF IInv, WalkExtends, Fetched
<1>3. (csv' # {} /\ marker' # None) = (csv # {} /\ marker # None)
    BY <1>1, <1>2
<1> QED
    BY <1>1, <1>2, <1>3 DEF History!Rebuild

\* Every step of the worker, of -d, of a crash, of the venue and of an operator
\* is a step of the abstract history or invisible to it.
THEOREM HistoryImplemented == Spec => ImplementsHistory
<1>1. Init => History!Init
    BY TradedAssumption DEF Init, History!Init
<1>2. IInv /\ [Next]_vars => [History!Next \/ History!Rebuild]_(History!hvars)
  <2> SUFFICES ASSUME IInv, [Next]_vars
               PROVE  History!Next \/ History!Rebuild \/ UNCHANGED History!hvars
      OBVIOUS
  <2> USE DEF History!Next, History!hvars
  <2>1. CASE UNCHANGED <<csv, marker>>
      BY <2>1
  <2>2. CASE RecoverCommit \/ Commit
      BY <2>2, PublishIsHistory DEF RecoverCommit, Commit
  <2>3. CASE RepairTail
    <3>1. run.last \in Slot /\ 0 \in Slot /\ csv' = {t \in csv : 0 <= t /\ t <= run.last}
      <4>1. run \in Run /\ csv \in SUBSET Slot /\ csv' = {t \in csv : t <= run.last}
          BY <2>3 DEF RepairTail, IInv, TypeOK, MemoryFits, Working
      <4>2. run.last \in Slot /\ 0 \in Slot /\ \A t \in csv : 0 <= t
          BY <4>1, HorizonAssumption DEF Run, Slot
      <4> QED
          BY <4>1, <4>2
    <3> QED
        BY <2>3, <3>1, TrimIsHistory DEF RepairTail
  <2>4. CASE OperatorEdit
      BY <2>4, TrimIsHistory DEF OperatorEdit
  <2>5. CASE DeleteCsv
      BY <2>5 DEF DeleteCsv, History!Trim
  <2>6. CASE DeleteMarker
      BY <2>6 DEF DeleteMarker, IInv, MemoryFits, Deleting, disk
  <2>7. CASE Replace
      BY <2>7, ReplaceIsRebuild
  <2>8. CASE ReconcileFloor \/ PrefixReached \/ RetireMarker
    <3>1. csv' = csv /\ (marker = None => marker' = None)
        BY <2>8 DEF ReconcileFloor, PrefixReached, RetireMarker
    <3>2. CASE (csv' # {} /\ marker' # None) = (csv # {} /\ marker # None)
        BY <3>1, <3>2
    <3>3. CASE (csv' # {} /\ marker' # None) # (csv # {} /\ marker # None)
      <4>1. csv # {} /\ marker # None /\ (csv' # {} /\ marker' # None) = FALSE
          BY <3>1, <3>3
      <4> QED
          BY <3>1, <4>1 DEF History!Resolve
    <3> QED
        BY <3>2, <3>3
  <2>9. CASE MarkProvisional
    <3>1. csv' = csv /\ (marker' # marker => csv = {})
        BY <2>9 DEF MarkProvisional
    <3>2. (csv' # {} /\ marker' # None) = (csv # {} /\ marker # None)
        BY <3>1
    <3> QED
        BY <3>1, <3>2
  <2> QED
      BY <2>1, <2>2, <2>3, <2>4, <2>5, <2>6, <2>7, <2>8, <2>9, VisibleSteps
<1> QED
    BY <1>1, <1>2, Invariance, PTL DEF Spec, ImplementsHistory, History!RebuiltSpec

-----------------------------------------------------------------------------
(* Funding rates: the inductive invariant, in named parts *)

\* No settlement has two records.
OneEach(records) == \A a, b \in records : a[1] = b[1] => a = b

\* How far the pages before the current one reach into an answer.
Before == (scan.page - 1) * RatesPerPage

\* What was read lies at or above the oldest row of the last page.
ReadFits ==
    step # "idle" =>
      /\ \A r \in scan.got : scan.prev <= r[1]
      /\ OneEach(scan.got)
      /\ scan.total = 0 => scan.page = 1

\* While all answers were complete, the pages read are exactly the newest
\* settlements, and every one of them from the cutoff on is there.
PagesCovered ==
    step = "page" /\ scan.honest /\ scan.total # 0 =>
      \A t \in 1 .. scan.total :
        /\ scan.prev <= t <=> scan.total - t < Before
        /\ scan.prev <= t /\ scan.cutoff <= t => \E r \in scan.got : r[1] = t

FundingIInv ==
    /\ FundingTypeOK
    /\ step = "idle" <=> scan = NoScan
    /\ OneEach(rates)
    /\ ReadFits
    /\ PagesCovered
    /\ NothingSkippedMidScan

-----------------------------------------------------------------------------
(* Funding rates: first and last settlements *)

\* A non-empty set of settlements has a last one.
LEMMA LastSettled ==
    ASSUME NEW S \in SUBSET Settlement, S # {}
    PROVE  Max(S) \in S /\ \A y \in S : y <= Max(S)
<1>1. LastSettlement \in Nat /\ S \in SUBSET (0 .. LastSettlement)
    BY SettlementAssumption DEF Settlement
<1> QED
    BY <1>1, LastOf

\* The larger and the smaller of two settlements is a settlement.
LEMMA OfTwo ==
    ASSUME NEW a \in Settlement, NEW b \in Settlement
    PROVE  Max({a, b}) \in Settlement /\ Min({a, b}) \in Settlement
<1>1. {a, b} \in SUBSET Settlement /\ {a, b} \in SUBSET Nat /\ {a, b} # {}
    BY DEF Settlement
<1>2. Max({a, b}) \in {a, b}
    BY <1>1, LastSettled
<1>3. Min({a, b}) \in {a, b}
    BY <1>1, FirstOf
<1> QED
    BY <1>2, <1>3

-----------------------------------------------------------------------------
(* Funding rates: answers and pages *)

\* An answer is made of settlements that have landed.
LEMMA ShownIs ==
    ASSUME FundingTypeOK, NEW shown \in Shown
    PROVE  shown \subseteq 1 .. settled /\ shown \in SUBSET Settlement
<1>1. shown \subseteq 1 .. settled
    BY DEF Shown
<1>2. 1 .. settled \subseteq Settlement
    BY SettlementAssumption DEF FundingTypeOK, Settlement
<1> QED
    BY <1>1, <1>2

\* The answer that hides nothing counts as many rows as have landed, and a page
\* of it (mexc-cpp-api, page_num and page_size) is a stretch of settlements.
LEMMA CompletePage ==
    ASSUME NEW n \in Nat, NEW page \in Nat \ {0}
    PROVE  /\ Cardinality(1 .. n) = n
           /\ OnPage(page, 1 .. n) =
                {t \in 1 .. n : /\ (page - 1) * RatesPerPage <= n - t
                                /\ n - t < page * RatesPerPage}
<1>1. Cardinality(1 .. n) = n
    BY FS_Interval
<1>2. ASSUME NEW t \in 1 .. n
      PROVE  Newer(t, 1 .. n) = n - t
  <2>1. {u \in 1 .. n : u > t} = t + 1 .. n
      OBVIOUS
  <2>2. Cardinality(t + 1 .. n) = n - t
      BY FS_Interval
  <2> QED
      BY <2>1, <2>2 DEF Newer
<1> QED
    BY <1>1, <1>2 DEF OnPage

\* The downloadCutoff of a run is a settlement.
LEMMA CutoffIs ==
    ASSUME FundingTypeOK, NEW floor \in RateFloors \cup {OldestRate}
    PROVE  DownloadCutoff(floor) \in Settlement
<1>1. floor \in Settlement /\ OldestRate \in Settlement
    BY SettlementAssumption
<1>2. CASE rates = {}
    BY <1>1, <1>2, OfTwo DEF DownloadCutoff
<1>3. CASE rates # {}
  <2>1. StoredTimes \in SUBSET Settlement /\ StoredTimes # {}
      BY <1>3 DEF FundingTypeOK, StoredTimes, Rates
  <2>2. Max(StoredTimes) \in Settlement
      BY <2>1, LastSettled
  <2> QED
      BY <1>1, <1>3, <2>2, OfTwo DEF DownloadCutoff
<1> QED
    BY <1>2, <1>3

\* What a scan starts and starts over with.
LEMMA FreshIs ==
    ASSUME NEW cutoff \in Settlement, NEW n \in Nat
    PROVE  FreshScan(cutoff, n, TRUE) \in Scan
    BY SettlementAssumption DEF FreshScan, Scan

-----------------------------------------------------------------------------
(* Funding rates: the invariant is inductive *)

LEMMA FundingInitInvariant == FundingInit => FundingIInv
<1> SUFFICES ASSUME FundingInit PROVE FundingIInv
    OBVIOUS
<1>1. FundingTypeOK
  <2>1. settled \in 0 .. LastSettlement
      BY SettlementAssumption DEF FundingInit
  <2>2. fundingFaults \in 0 .. MaxFundingFaults /\ fundingEdits \in 0 .. MaxFundingEdits
      BY FundingBoundAssumption DEF FundingInit
  <2>3. whole \in BOOLEAN
      BY DEF FundingInit
  <2> QED
      BY <2>1, <2>2, <2>3 DEF FundingInit, FundingTypeOK
<1> QED
    BY <1>1 DEF FundingInit, FundingIInv, OneEach, ReadFits, PagesCovered, NothingSkippedMidScan

\* A scan that is given up or begun leaves nothing to show.
LEMMA GiveUpKeeps ==
    ASSUME GiveUpScan
    PROVE  /\ step' = "idle" <=> scan' = NoScan
           /\ ReadFits' /\ PagesCovered' /\ NothingSkippedMidScan'
    BY DEF GiveUpScan, ReadFits, PagesCovered, NothingSkippedMidScan

LEMMA FreshKeeps ==
    ASSUME NEW cutoff \in Settlement, NEW n \in Nat, NEW honest \in BOOLEAN,
           scan' = FreshScan(cutoff, n, TRUE), step' = "page"
    PROVE  /\ step' = "idle" <=> scan' = NoScan
           /\ scan' \in Scan
           /\ ReadFits' /\ PagesCovered' /\ NothingSkippedMidScan'
<1>1. scan' \in Scan /\ scan' # NoScan
    BY FreshIs, NoScanAssumption
<1>2. scan'.got = {} /\ scan'.total = 0 /\ scan'.page = 1
    BY DEF FreshScan
<1> QED
    BY <1>1, <1>2 DEF ReadFits, OneEach, PagesCovered, NothingSkippedMidScan

\* The step that takes a page.
LEMMA TakeKeeps ==
    ASSUME FundingIInv, TakePage
    PROVE  FundingIInv'
<1> DEFINE R == RatesPerPage
<1>1. scan \in Scan /\ step = "page" /\ scan # NoScan
    BY DEF FundingIInv, FundingTypeOK, TakePage
<1>2. PICK shown \in Shown :
         LET rows == OnPage(scan.page, shown)
             done == \/ Min(rows) < scan.cutoff
                     \/ scan.page * RatesPerPage >= Cardinality(shown)
         IN  /\ rows # {} /\ ~Changed(shown)
             /\ Max(rows) < scan.prev
             /\ scan' = [scan EXCEPT
                           !.got = @ \cup {Record(t) : t \in {u \in rows : u >= scan.cutoff}},
                           !.prev = Min(rows),
                           !.total = Cardinality(shown),
                           !.honest = @ /\ shown = 1 .. settled,
                           !.page = IF done THEN @ ELSE @ + 1]
             /\ step' = IF done THEN "merge" ELSE "page"
    BY DEF TakePage
<1> DEFINE rows == OnPage(scan.page, shown)
           new == {Record(t) : t \in {u \in rows : u >= scan.cutoff}}
           done == \/ Min(rows) < scan.cutoff
                   \/ scan.page * RatesPerPage >= Cardinality(shown)
<1>3. rows \in SUBSET Settlement /\ rows # {} /\ rows \subseteq shown
    BY <1>2, ShownIs DEF OnPage, FundingIInv
<1>4. /\ Min(rows) \in rows /\ \A t \in rows : Min(rows) <= t
      /\ \A t \in rows : t < scan.prev
  <2>1. rows \in SUBSET Nat
      BY <1>3 DEF Settlement
  <2>2. Min(rows) \in rows /\ \A t \in rows : Min(rows) <= t
      BY <1>3, <2>1, FirstOf
  <2>3. Max(rows) \in rows /\ \A t \in rows : t <= Max(rows)
      BY <1>3, LastSettled
  <2>4. Max(rows) < scan.prev /\ scan.prev \in Nat
      BY <1>1, <1>2 DEF Scan
  <2> QED
      BY <2>1, <2>2, <2>3, <2>4
<1>5. IsFiniteSet(shown) /\ Cardinality(shown) \in Nat /\ Cardinality(shown) # 0
  <2>1. IsFiniteSet(1 .. settled)
      BY FS_Interval DEF FundingIInv, FundingTypeOK
  <2>2. IsFiniteSet(shown)
      BY <2>1, ShownIs, FS_Subset DEF FundingIInv
  <2>3. shown # {}
      BY <1>3
  <2> QED
      BY <2>2, <2>3, FS_CardinalityType, FS_EmptySet
<1>6. /\ scan'.got = scan.got \cup new /\ scan'.prev = Min(rows)
      /\ scan'.total = Cardinality(shown) /\ scan'.cutoff = scan.cutoff
      /\ scan'.honest = (scan.honest /\ shown = 1 .. settled)
      /\ scan'.page = (IF done THEN scan.page ELSE scan.page + 1)
      /\ scan'.attempt = scan.attempt /\ scan'.rescans = scan.rescans
      /\ step' = IF done THEN "merge" ELSE "page"
    BY <1>1, <1>2 DEF Scan
<1>7. \A r \in new : r \in Rates /\ r[1] \in rows
    BY <1>3 DEF Record, Rates
<1>8. scan' \in Scan /\ scan' # NoScan /\ step' \in {"page", "merge"}
  <2>1. scan.got \cup new \in SUBSET Rates
      BY <1>1, <1>7 DEF Scan
  <2>2. Min(rows) \in Nat
      BY <1>3, <1>4 DEF Settlement
  <2>3. (IF done THEN scan.page ELSE scan.page + 1) \in Nat \ {0}
      BY <1>1 DEF Scan
  <2>4. (scan.honest /\ shown = 1 .. settled) \in BOOLEAN
      BY <1>1 DEF Scan
  <2>5. scan' \in Scan
      BY <1>1, <1>2, <1>5, <2>1, <2>2, <2>3, <2>4 DEF Scan
  <2> QED
      BY <1>6, <2>5, NoScanAssumption
<1>9. UNCHANGED <<rates, settled, corrected, whole, fundingFaults, fundingEdits>>
    BY DEF TakePage, venueVars
<1>10. FundingTypeOK'
    BY <1>8, <1>9 DEF FundingIInv, FundingTypeOK
<1>11. ReadFits'
  <2>1. \A r \in scan.got : scan.prev <= r[1] /\ r[1] \in Settlement
      BY <1>1 DEF FundingIInv, ReadFits, Scan, Rates
  <2>2. \A r \in scan.got \cup new : Min(rows) <= r[1]
    <3>1. ASSUME NEW r \in scan.got PROVE Min(rows) <= r[1]
        BY <1>1, <1>3, <1>4, <2>1 DEF Settlement, Scan
    <3> QED
        BY <1>4, <1>7, <3>1
  <2>3. OneEach(scan.got \cup new)
    <3>1. \A a \in scan.got, b \in new : a[1] # b[1]
        BY <1>1, <1>3, <1>4, <1>7, <2>1 DEF Settlement, Scan
    <3>2. \A a, b \in new : a[1] = b[1] => a = b
        BY DEF Record
    <3>3. OneEach(scan.got)
        BY <1>1 DEF FundingIInv, ReadFits
    <3> QED
        BY <3>1, <3>2, <3>3 DEF OneEach
  <2> QED
      BY <1>5, <1>6, <2>2, <2>3 DEF ReadFits
<1>12. ASSUME scan'.honest, NEW t \in 1 .. scan'.total
       PROVE  /\ Min(rows) <= t <=> scan'.total - t < scan.page * R
              /\ Min(rows) <= t /\ scan.cutoff <= t => \E r \in scan'.got : r[1] = t
  <2> DEFINE n == settled
             b == (scan.page - 1) * R
             c == scan.page * R
  <2>1. n \in Nat /\ scan.page \in Nat \ {0} /\ R \in Nat
      BY <1>1, SettlementAssumption DEF FundingIInv, FundingTypeOK, Scan
  <2>2. shown = 1 .. n /\ scan.honest
      BY <1>6, <1>12
  <2>3. /\ scan'.total = n /\ t \in 1 .. n
        /\ rows = {u \in 1 .. n : b <= n - u /\ n - u < c}
      BY <1>6, <1>12, <2>1, <2>2, CompletePage
  <2>4. b \in Int /\ c \in Int /\ b <= c
      BY <2>1
  <2>5. n - t < b => scan.prev <= t /\ scan.total = n /\ scan.total # 0
    <3> SUFFICES ASSUME n - t < b PROVE scan.prev <= t /\ scan.total = n /\ scan.total # 0
        OBVIOUS
    <3>1. scan.page # 1
        BY <2>1, <2>3
    <3>2. scan.total # 0
        BY <1>1, <3>1 DEF FundingIInv, ReadFits
    <3>3. scan.total = n
      <4>1. ~Changed(shown)
          BY <1>2
      <4>2. Cardinality(shown) = n
          BY <2>1, <2>2, CompletePage
      <4> QED
          BY <3>2, <4>1, <4>2 DEF Changed
    <3> QED
        BY <1>1, <2>2, <2>3, <3>2, <3>3 DEF FundingIInv, PagesCovered, Before
  <2>6. Min(rows) \in 1 .. n /\ b <= n - Min(rows) /\ n - Min(rows) < c
    <3> HIDE DEF b, c, rows
    <3> QED
      BY <1>4, <2>3
  <2>7. ASSUME b <= n - t, n - t < c PROVE t \in rows
    <3> HIDE DEF b, c, rows
    <3> QED
      BY <2>3, <2>7
  <2> HIDE DEF b, c, rows
  <2>8. Min(rows) <= t <=> n - t < c
    <3>1. Min(rows) <= t => n - t < c
        BY <2>1, <2>3, <2>4, <2>6
    <3>2. n - t < c /\ b <= n - t => Min(rows) <= t
        BY <1>4, <2>7
    <3>3. n - t < b => Min(rows) <= t
        BY <2>1, <2>3, <2>4, <2>6
    <3> QED
        BY <2>1, <2>3, <2>4, <3>1, <3>2, <3>3
  <2>9. n - t < c /\ scan.cutoff <= t => \E r \in scan'.got : r[1] = t
    <3>1. CASE n - t < b
      <4>1. scan.cutoff <= t => \E r \in scan.got : r[1] = t
          BY <1>1, <2>2, <2>3, <2>5, <3>1 DEF FundingIInv, PagesCovered
      <4> QED
          BY <1>6, <4>1
    <3>2. CASE ~(n - t < b)
      <4> SUFFICES ASSUME n - t < c, scan.cutoff <= t PROVE \E r \in scan'.got : r[1] = t
          OBVIOUS
      <4>1. t \in rows
          BY <2>1, <2>3, <2>4, <2>7, <3>2
      <4>2. t >= scan.cutoff
          BY <1>1, <2>1, <2>3 DEF Scan, Settlement
      <4>3. Record(t) \in new /\ Record(t)[1] = t
          BY <4>1, <4>2 DEF Record
      <4> QED
          BY <1>6, <4>3
    <3> QED
        BY <3>1, <3>2
  <2> QED
      BY <2>3, <2>8, <2>9 DEF c
<1>13. PagesCovered'
  <2> SUFFICES ASSUME step' = "page", scan'.honest, NEW t \in 1 .. scan'.total
               PROVE  /\ scan'.prev <= t <=> scan'.total - t < Before'
                      /\ scan'.prev <= t /\ scan'.cutoff <= t
                           => \E r \in scan'.got : r[1] = t
      BY DEF PagesCovered
  <2>1. ~done
      BY <1>6
  <2>2. Before' = scan.page * R
      BY <1>1, <1>6, <2>1 DEF Before, Scan
  <2> QED
      BY <1>6, <1>12, <2>2
<1>14. NothingSkippedMidScan'
  <2> SUFFICES ASSUME step' = "merge", scan'.honest, NEW t \in scan'.cutoff .. scan'.total
               PROVE  \E r \in scan'.got : r[1] = t
      BY DEF NothingSkippedMidScan
  <2>1. done
      BY <1>6
  <2>2. scan.cutoff \in Nat \ {0} /\ scan.cutoff <= t /\ t \in 1 .. scan'.total
      BY <1>1, <1>5, <1>6 DEF Scan, Settlement
  <2>3. Min(rows) <= t
    <3>1. CASE Min(rows) < scan.cutoff
        BY <1>3, <1>4, <2>2, <3>1 DEF Settlement
    <3>2. CASE scan.page * R >= Cardinality(shown)
      <4>1. scan'.total - t < scan.page * R
        <5> DEFINE c == scan.page * R
        <5>1. c \in Int
            BY <1>1, SettlementAssumption DEF Scan
        <5>2. c >= Cardinality(shown)
            BY <3>2
        <5> HIDE DEF c
        <5>3. scan'.total - t < c
            BY <1>5, <1>6, <2>2, <5>1, <5>2
        <5> QED
            BY <5>3 DEF c
      <4> QED
          BY <1>12, <2>2, <4>1
    <3> QED
        BY <2>1, <3>1, <3>2
  <2> QED
      BY <1>12, <2>2, <2>3
<1> QED
    BY <1>8, <1>9, <1>10, <1>11, <1>13, <1>14 DEF FundingIInv

\* The merge of two files that agree where they overlap has one record for each
\* settlement (mexc_funding_csv.h, mergeRecords).
LEMMA MergeKeepsOne ==
    ASSUME FundingIInv, step = "merge", ~Conflicting(scan.got)
    PROVE  rates \cup scan.got \in SUBSET Rates /\ OneEach(rates \cup scan.got)
<1>1. scan \in Scan
    BY DEF FundingIInv, FundingTypeOK
<1>2. rates \in SUBSET Rates /\ scan.got \in SUBSET Rates
    BY <1>1 DEF FundingIInv, FundingTypeOK, Scan
<1>3. OneEach(rates) /\ OneEach(scan.got)
    BY DEF FundingIInv, ReadFits
<1>4. \A a \in rates, b \in scan.got : a[1] = b[1] => a = b
  <2> SUFFICES ASSUME NEW a \in rates, NEW b \in scan.got, a[1] = b[1]
               PROVE  a = b
      OBVIOUS
  <2>1. a[2] = b[2]
      BY DEF Conflicting
  <2>2. a = <<a[1], a[2]>> /\ b = <<b[1], b[2]>>
      BY <1>2 DEF Rates
  <2> QED
      BY <2>1, <2>2
<1> QED
    BY <1>2, <1>3, <1>4 DEF OneEach

LEMMA FundingNextInvariant == FundingIInv /\ [FundingNext]_fundingVars => FundingIInv'
<1> SUFFICES ASSUME FundingIInv, [FundingNext]_fundingVars PROVE FundingIInv'
    OBVIOUS
<1>1. CASE StartFunding
  <2>1. PICK floor \in RateFloors \cup {OldestRate} :
           scan' = FreshScan(DownloadCutoff(floor), 0, TRUE)
      BY <1>1 DEF StartFunding
  <2>2. DownloadCutoff(floor) \in Settlement
      BY CutoffIs DEF FundingIInv
  <2>3. UNCHANGED <<rates, settled, corrected, whole, fundingFaults, fundingEdits>>
      BY <1>1 DEF StartFunding, venueVars
  <2>4. step' = "page"
      BY <1>1 DEF StartFunding
  <2>5. /\ step' = "idle" <=> scan' = NoScan
        /\ scan' \in Scan
        /\ ReadFits' /\ PagesCovered' /\ NothingSkippedMidScan'
      BY <2>1, <2>2, <2>4, FreshKeeps
  <2> QED
      BY <2>3, <2>4, <2>5 DEF FundingIInv, FundingTypeOK
<1>2. CASE EmptyFirstPage
  <2>1. UNCHANGED <<rates, settled, corrected, whole, fundingFaults, fundingEdits>>
      BY <1>2 DEF EmptyFirstPage, venueVars
  <2>2. scan \in Scan /\ step = "page" /\ scan.attempt \in Nat
      BY <1>2 DEF FundingIInv, FundingTypeOK, EmptyFirstPage, Scan
  <2>3. CASE GiveUpScan
    <3>1. step' = "idle" /\ scan' = NoScan
        BY <2>3 DEF GiveUpScan
    <3> QED
        BY <2>1, <2>3, <3>1, GiveUpKeeps DEF FundingIInv, FundingTypeOK
  <2>4. CASE scan' = [scan EXCEPT !.attempt = @ + 1] /\ UNCHANGED step
    <3>1. scan' \in Scan /\ scan' # NoScan
        BY <2>2, <2>4, NoScanAssumption DEF Scan
    <3>2. /\ scan'.got = scan.got /\ scan'.prev = scan.prev /\ scan'.total = scan.total
          /\ scan'.page = scan.page /\ scan'.honest = scan.honest
          /\ scan'.cutoff = scan.cutoff
        BY <2>2, <2>4 DEF Scan
    <3>3. ReadFits' /\ PagesCovered' /\ NothingSkippedMidScan'
        BY <2>2, <2>4, <3>2
        DEF FundingIInv, ReadFits, PagesCovered, NothingSkippedMidScan, Before
    <3> QED
        BY <2>1, <2>2, <2>4, <3>1, <3>3 DEF FundingIInv, FundingTypeOK
  <2> QED
      BY <1>2, <2>3, <2>4 DEF EmptyFirstPage
<1>3. CASE PageRejected \/ PagesOverlap \/ MergeRefused \/ FundingCrash
  <2>1. /\ GiveUpScan
        /\ UNCHANGED <<rates, settled, corrected, whole, fundingEdits>>
        /\ fundingFaults' \in 0 .. MaxFundingFaults
      BY <1>3, FundingBoundAssumption
      DEF PageRejected, PagesOverlap, MergeRefused, FundingCrash, venueVars, FundingIInv,
          FundingTypeOK
  <2>2. step' = "idle" /\ scan' = NoScan
      BY <2>1 DEF GiveUpScan
  <2> QED
      BY <2>1, <2>2, GiveUpKeeps DEF FundingIInv, FundingTypeOK
<1>4. CASE PagesShifted
  <2>1. UNCHANGED <<rates, settled, corrected, whole, fundingFaults, fundingEdits>>
      BY <1>4 DEF PagesShifted, venueVars
  <2>2. scan \in Scan /\ step = "page"
      BY <1>4 DEF FundingIInv, FundingTypeOK, PagesShifted
  <2>3. scan.cutoff \in Settlement /\ scan.rescans + 1 \in Nat
      BY <2>2 DEF Scan
  <2>4. CASE GiveUpScan
    <3>1. step' = "idle" /\ scan' = NoScan
        BY <2>4 DEF GiveUpScan
    <3> QED
        BY <2>1, <2>4, <3>1, GiveUpKeeps DEF FundingIInv, FundingTypeOK
  <2>5. CASE scan' = FreshScan(scan.cutoff, scan.rescans + 1, TRUE) /\ UNCHANGED step
    <3>1. step' = "page"
        BY <2>2, <2>5
    <3>2. /\ step' = "idle" <=> scan' = NoScan
          /\ scan' \in Scan
          /\ ReadFits' /\ PagesCovered' /\ NothingSkippedMidScan'
        BY <2>3, <2>5, <3>1, FreshKeeps
    <3> QED
        BY <2>1, <3>1, <3>2 DEF FundingIInv, FundingTypeOK
  <2> QED
      BY <1>4, <2>4, <2>5 DEF PagesShifted
<1>5. CASE TakePage
    BY <1>5, TakeKeeps
<1>6. CASE MergeRates
  <2>1. /\ rates' = rates \cup scan.got /\ GiveUpScan
        /\ UNCHANGED <<settled, corrected, whole, fundingFaults, fundingEdits>>
      BY <1>6 DEF MergeRates, venueVars
  <2>2. rates' \in SUBSET Rates /\ OneEach(rates')
      BY <1>6, <2>1, MergeKeepsOne DEF MergeRates
  <2>3. step' = "idle" /\ scan' = NoScan
      BY <2>1 DEF GiveUpScan
  <2> QED
      BY <2>1, <2>2, <2>3, GiveUpKeeps DEF FundingIInv, FundingTypeOK
<1>7. CASE DeleteRates
  <2>1. rates' = {} /\ fundingEdits' \in 0 .. MaxFundingEdits
      BY <1>7, FundingBoundAssumption DEF DeleteRates, FundingIInv, FundingTypeOK
  <2>2. UNCHANGED <<step, scan, settled, corrected, whole, fundingFaults>>
      BY <1>7 DEF DeleteRates
  <2> QED
      BY <2>1, <2>2
      DEF FundingIInv, FundingTypeOK, OneEach, ReadFits, PagesCovered, NothingSkippedMidScan, Before
<1>8. CASE Settle \/ Correct \/ ShowAll
  <2>1. /\ UNCHANGED <<rates, step, scan, fundingFaults>>
        /\ settled' \in 0 .. LastSettlement /\ corrected' \subseteq Settlement
        /\ whole' \in BOOLEAN /\ fundingEdits' \in 0 .. MaxFundingEdits
    <3>1. CASE Settle
        BY <3>1, SettlementAssumption DEF Settle, FundingIInv, FundingTypeOK
    <3>2. CASE Correct
      <4>1. corrected' \subseteq Settlement
          BY <3>2, SettlementAssumption DEF Correct, FundingIInv, FundingTypeOK, Settlement
      <4> QED
          BY <3>2, <4>1, FundingBoundAssumption DEF Correct, FundingIInv, FundingTypeOK
    <3>3. CASE ShowAll
      <4>1. whole' \in BOOLEAN
          BY <3>3 DEF ShowAll
      <4> QED
          BY <3>3, <4>1 DEF ShowAll, FundingIInv, FundingTypeOK
    <3> QED
        BY <1>8, <3>1, <3>2, <3>3
  <2> QED
      BY <2>1
      DEF FundingIInv, FundingTypeOK, OneEach, ReadFits, PagesCovered, NothingSkippedMidScan, Before
<1>9. CASE UNCHANGED fundingVars
    BY <1>9
    DEF FundingIInv, fundingVars, FundingTypeOK, OneEach, ReadFits, PagesCovered,
        NothingSkippedMidScan, Before
<1> QED
    BY <1>1, <1>2, <1>3, <1>4, <1>5, <1>6, <1>7, <1>8, <1>9 DEF FundingNext, FundingWorker

\* The invariant holds in every state of every sequence of runs.
THEOREM FundingInvariance == FundingSpec => []FundingIInv
<1> QED
    BY FundingInitInvariant, FundingNextInvariant, PTL DEF FundingSpec

-----------------------------------------------------------------------------

\* Every variable of the funding worker keeps its type.
THEOREM FundingTypes == FundingSpec => []FundingTypeOK
<1>1. FundingIInv => FundingTypeOK
    BY DEF FundingIInv
<1> QED
    BY <1>1, FundingInvariance, PTL

\* A scan that saw complete answers only has every settlement from the cutoff
\* on, although settlements shifted its pages: the metadata check and the
\* overlap check of the page scan suffice for any page size and any number of
\* settlements (mexc_futures_downloader.cpp:1087).
THEOREM NothingSkipped == FundingSpec => []NothingSkippedMidScan
<1>1. FundingIInv => NothingSkippedMidScan
    BY DEF FundingIInv
<1> QED
    BY <1>1, FundingInvariance, PTL

\* No step of a run, a crash or the venue costs a stored rate, changes it or
\* gives a settlement a second one (mexc_funding_csv.h:298, replaceAtomically).
THEOREM RatesStay == FundingSpec => RatesKept
<1> DEFINE Kept == rates' # {} =>
                     /\ rates \subseteq rates'
                     /\ \A a, b \in rates' : a[1] = b[1] => a = b
<1>1. FundingIInv /\ FundingIInv' /\ [FundingNext]_fundingVars => [Kept]_fundingVars
  <2> SUFFICES ASSUME FundingIInv, FundingIInv', FundingNext, rates' # {}
               PROVE  rates \subseteq rates'
      BY DEF FundingIInv, OneEach
  <2>1. CASE MergeRates
      BY <2>1 DEF MergeRates
  <2>2. CASE DeleteRates
      BY <2>2 DEF DeleteRates
  <2>3. CASE ~MergeRates /\ ~DeleteRates
      BY <2>3
      DEF FundingNext, FundingWorker, StartFunding, EmptyFirstPage, PageRejected,
          PagesShifted, PagesOverlap, TakePage, MergeRefused, FundingCrash, Settle,
          Correct, ShowAll
  <2> QED
      BY <2>1, <2>2, <2>3
<1> QED
    BY <1>1, FundingInvariance, PTL DEF FundingSpec, RatesKept

=============================================================================
