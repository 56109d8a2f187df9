-------------------------- MODULE OkxUpdate_proofs --------------------------
(***************************************************************************)
(* Proofs about OkxUpdate.  A run lists the archive once, at its start,    *)
(* and everything is about what it knows from then on: a row is settled    *)
(* when the file of its period was there at that time.  What is settled    *)
(* and not yet passed by the tail is in the plan (PlanHolds); a batch is   *)
(* sound when it passes no row of the archive that it does not have; a     *)
(* stretch is sound because it is handed over at the first row of a file   *)
(* of the plan, and REST because it reaches back further than the archive  *)
(* lags behind.                                                            *)
(*                                                                         *)
(* A second invariant follows the minutes of the stretches (SInv): each is *)
(* stored, in progress or in a trade file of the plan, and the tail never  *)
(* stops inside the last day of a stretch, which would be too short to be  *)
(* planned again.                                                          *)
(***************************************************************************)
EXTENDS OkxUpdate, NumberSets_proofs

\* What the assumptions say of the calendar.
LEMMA ConstantsFit ==
    /\ Horizon \in Nat /\ Slot \subseteq Nat
    /\ Day \in Nat \ {0} /\ Month \in Nat \ {0} /\ Day <= Month
    /\ MonthlySpan \in Nat /\ MonthlySpan > Month /\ Day < MonthlySpan
    /\ Lag \in Nat
<1>1. PICK n \in 1 .. Month : Month = n * Day
    BY CalendarAssumption
<1>2. n \in Nat \ {0}
    BY <1>1
<1>3. Day \in Nat \ {0}
    BY CalendarAssumption
<1>4. Month \in Nat \ {0} /\ Day <= Month
    BY <1>1, <1>2, <1>3
<1> QED
    BY <1>3, <1>4, CalendarAssumption DEF Slot

\* The start of the period of length P that t lies in.
LEMMA FloorFits ==
    ASSUME NEW P \in Nat \ {0}, NEW t \in Nat
    PROVE  /\ t - (t % P) \in Nat
           /\ t - (t % P) <= t /\ t < t - (t % P) + P
           /\ (t - (t % P)) % P = 0
<1>1. t % P \in 0 .. P - 1 /\ t = P * (t \div P) + (t % P)
    OBVIOUS
<1>2. t \div P \in Nat
    OBVIOUS
<1> DEFINE q == t \div P
<1>3. t - (t % P) = P * q
    BY <1>1
<1>4. q \in Nat
    BY <1>2
<1> HIDE DEF q
<1>5. (P * q) % P = 0 /\ P * q \in Nat
    BY <1>4
<1> QED
    BY <1>1, <1>3, <1>5

\* It is the last start of a period up to t.
LEMMA FloorIsLast ==
    ASSUME NEW P \in Nat \ {0}, NEW t \in Nat, NEW d \in Nat, d % P = 0, d <= t
    PROVE  d <= t - (t % P)
<1>1. t = P * (t \div P) + (t % P) /\ d = P * (d \div P) + (d % P)
    OBVIOUS
<1>2. t \div P \in Nat /\ d \div P \in Nat /\ t % P \in 0 .. P - 1
    OBVIOUS
<1> DEFINE q == t \div P
           k == d \div P
           r == t % P
<1>3. q \in Nat /\ k \in Nat /\ r \in 0 .. P - 1 /\ t = P * q + r /\ d = P * k
    BY <1>1, <1>2
<1> HIDE DEF q, k, r
<1>4. k <= q
  <2>1. SUFFICES ASSUME q + 1 <= k PROVE FALSE
      BY <1>3
  <2>2. P * (q + 1) <= P * k
      BY <2>1, <1>3
  <2>3. P * (q + 1) = P * q + P
      BY <1>3
  <2> QED
      BY <2>2, <2>3, <1>3
<1>5. P * k <= P * q
    BY <1>3, <1>4
<1>6. d <= t - r
    BY <1>3, <1>5
<1> QED
    BY <1>6 DEF r

\* A start of a period less than a period before t is that of the period of t.
LEMMA FloorIs ==
    ASSUME NEW P \in Nat \ {0}, NEW t \in Nat, NEW d \in Nat, d % P = 0, d <= t, t < d + P
    PROVE  t - (t % P) = d
<1>1. d <= t - (t % P)
    BY FloorIsLast
<1> DEFINE e == t - (t % P)
<1>2. e \in Nat /\ e <= t /\ e % P = 0
    BY FloorFits
<1> HIDE DEF e
<1>3. SUFFICES ASSUME d < e PROVE FALSE
    BY <1>1, <1>2 DEF e
<1>4. e - d \in Nat /\ 0 < e - d /\ e - d < P
    BY <1>2, <1>3
<1>5. d = P * (d \div P) /\ e = P * (e \div P) /\ d \div P \in Nat /\ e \div P \in Nat
    BY <1>2
<1> DEFINE k == d \div P
           q == e \div P
<1>6. k \in Nat /\ q \in Nat /\ d = P * k /\ e = P * q
    BY <1>5
<1> HIDE DEF k, q
<1>7. k < q
    BY <1>3, <1>6
<1>8. P * (k + 1) <= P * q
    BY <1>6, <1>7
<1>9. P * (k + 1) = P * k + P
    BY <1>6
<1> QED
    BY <1>4, <1>6, <1>8, <1>9

\* Starts of periods are a period apart.
LEMMA StartsApart ==
    ASSUME NEW P \in Nat \ {0}, NEW d \in Nat, NEW e \in Nat, d % P = 0, e % P = 0, d < e
    PROVE  d + P <= e
<1>1. SUFFICES ASSUME e < d + P PROVE FALSE
    OBVIOUS
<1>2. d <= e
    OBVIOUS
<1>3. e - (e % P) = d
    BY <1>1, <1>2, FloorIs
<1> QED
    BY <1>3

\* A month begins with a day.
LEMMA MonthsAreDays ==
    ASSUME NEW d \in Nat, d % Month = 0
    PROVE  d % Day = 0
<1>1. PICK n \in 1 .. Month : Month = n * Day
    BY CalendarAssumption
<1>2. n \in Nat /\ Day \in Nat \ {0} /\ Month \in Nat \ {0}
    BY <1>1, ConstantsFit
<1> DEFINE q == d \div Month
<1>3. q \in Nat /\ d = Month * q
    BY <1>2
<1> HIDE DEF q
<1> DEFINE m == n * q
<1>4. m \in Nat /\ d = Day * m
    BY <1>1, <1>2, <1>3
<1> HIDE DEF m
<1> QED
    BY <1>2, <1>4

-----------------------------------------------------------------------------
(* What a run knows of the archive *)

DayStart(t) == t - (t % Day)

\* The file of the period that t lies in was there when a run listed the
\* archive: of its month, or of its day in the running month.
Settled(t, at) ==
    \/ MonthStart(t) < MonthStart(at) /\ MonthStart(t) + Month + Lag <= at
    \/ /\ MonthStart(at) <= MonthStart(t)
       /\ ~venue.funding /\ DayStart(t) + Day + Lag <= at

\* A file that was listed, with the span it is taken to cover.
FileFits(date, span, at) ==
    \/ /\ date % Month = 0 /\ date < MonthStart(at)
       /\ date + Month + Lag <= at /\ span = MonthlySpan
    \/ /\ ~venue.funding
       /\ date % Day = 0 /\ MonthStart(at) <= date
       /\ date + Day + Lag <= at /\ span = Day

\* What the assumptions say of a venue.
LEMMA VenueFits ==
    ASSUME venue \in Venues
    PROVE  /\ venue.funding \in BOOLEAN /\ venue.archived \subseteq Slot
           /\ venue.traded \subseteq Slot /\ venue.rest \subseteq Slot
           /\ venue.depth \in Nat
    BY VenuesAssumption

\* The month and the day of t begin up to t and end behind it.
LEMMA StartsFit ==
    ASSUME NEW t \in Nat
    PROVE  /\ MonthStart(t) \in Nat /\ MonthStart(t) <= t /\ t < MonthStart(t) + Month
           /\ MonthStart(t) % Month = 0
           /\ DayStart(t) \in Nat /\ DayStart(t) <= t /\ t < DayStart(t) + Day
           /\ DayStart(t) % Day = 0
    BY FloorFits, ConstantsFit DEF MonthStart, DayStart

\* Later slots do not lie in earlier periods.
LEMMA StartsGrow ==
    ASSUME NEW t \in Nat, NEW u \in Nat, t <= u
    PROVE  MonthStart(t) <= MonthStart(u) /\ DayStart(t) <= DayStart(u)
<1>1. MonthStart(t) <= u /\ DayStart(t) <= u
    BY StartsFit
<1> QED
    BY <1>1, StartsFit, FloorIsLast, ConstantsFit DEF MonthStart, DayStart

\* The month of at begins with a day: what lies before it ends before it.
LEMMA MonthEnds ==
    ASSUME NEW t \in Nat, NEW at \in Nat, MonthStart(t) < MonthStart(at)
    PROVE  MonthStart(t) + Month <= MonthStart(at)
    BY StartsApart, StartsFit, ConstantsFit

\* The rows of a listed file are settled.
LEMMA RowsSettled ==
    ASSUME NEW at \in Nat, NEW date \in Nat, NEW span, FileFits(date, span, at),
           NEW set \in SUBSET Slot, NEW t \in Rows(set, date, at)
    PROVE  /\ t \in set /\ t \in Nat /\ date <= t /\ t < date + span
           /\ Settled(t, at)
<1> USE ConstantsFit
<1>1. t \in set /\ t \in Nat /\ date <= t
    BY DEF Rows
<1>4. MonthStart(at) \in Nat /\ MonthStart(at) % Month = 0
    BY StartsFit
<1>2. CASE date < MonthStart(at)
  <2>1. t < date + Month
      BY <1>2 DEF Rows
  <2>2. date % Month = 0 /\ span = MonthlySpan /\ date + Month + Lag <= at
      BY <1>2, <1>4 DEF FileFits
  <2>3. MonthStart(t) = date
      BY <1>1, <2>1, <2>2, FloorIs DEF MonthStart
  <2> QED
      BY <1>1, <1>2, <2>1, <2>2, <2>3 DEF Settled
<1>3. CASE ~(date < MonthStart(at))
  <2>1. t < date + Day
      BY <1>3 DEF Rows
  <2>2. /\ ~venue.funding /\ date % Day = 0 /\ MonthStart(at) <= date
        /\ date + Day + Lag <= at /\ span = Day
      BY <1>3, <1>4 DEF FileFits
  <2>3. DayStart(t) = date
      BY <1>1, <2>1, <2>2, FloorIs DEF DayStart
  <2>4. MonthStart(at) <= MonthStart(t)
    <3>1. MonthStart(at) <= t
        BY <1>1, <1>4, <2>2
    <3> QED
        BY <1>1, <1>4, <3>1, FloorIsLast DEF MonthStart
  <2> QED
      BY <1>1, <2>1, <2>2, <2>3, <2>4 DEF Settled
<1> QED
    BY <1>2, <1>3

\* What lies before the end of a settled period is settled.
LEMMA SettledBefore ==
    ASSUME NEW at \in Nat, NEW t \in Nat, NEW u \in Nat, t <= u, Settled(u, at)
    PROVE  Settled(t, at)
<1> USE ConstantsFit
<1>1. MonthStart(t) <= MonthStart(u) /\ DayStart(t) <= DayStart(u)
    BY StartsGrow
<1>2. /\ MonthStart(t) \in Nat /\ MonthStart(u) \in Nat /\ MonthStart(at) \in Nat
      /\ DayStart(t) \in Nat /\ DayStart(u) \in Nat
    BY StartsFit
<1>3. CASE MonthStart(at) <= MonthStart(t)
    BY <1>1, <1>2, <1>3 DEF Settled
<1>4. CASE MonthStart(t) < MonthStart(at) /\ MonthStart(u) < MonthStart(at)
    BY <1>1, <1>2, <1>4 DEF Settled
<1>5. CASE MonthStart(t) < MonthStart(at) /\ MonthStart(at) <= MonthStart(u)
  <2>1. MonthStart(t) + Month <= MonthStart(at)
      BY <1>5, MonthEnds
  <2>2. MonthStart(at) <= DayStart(u)
    <3>1. MonthStart(u) <= u /\ MonthStart(u) % Day = 0
        BY StartsFit, MonthsAreDays
    <3>2. MonthStart(u) <= DayStart(u)
        BY <1>2, <3>1, FloorIsLast DEF DayStart
    <3> QED
        BY <1>2, <1>5, <3>2
  <2>3. DayStart(u) + Day + Lag <= at
      BY <1>2, <1>5 DEF Settled
  <2> QED
      BY <1>2, <1>5, <2>1, <2>2, <2>3 DEF Settled
<1> QED
    BY <1>2, <1>3, <1>4, <1>5

\* What lies before a listed file is settled.
LEMMA SettledInFront ==
    ASSUME NEW at \in Nat, NEW date \in Nat, NEW span, FileFits(date, span, at),
           NEW t \in Nat, t <= date
    PROVE  Settled(t, at)
<1> USE ConstantsFit
<1>1. Settled(date, at)
  <2>1. CASE /\ date % Month = 0 /\ date < MonthStart(at)
             /\ date + Month + Lag <= at
    <3>1. MonthStart(date) = date
        BY <2>1 DEF MonthStart
    <3> QED
        BY <2>1, <3>1 DEF Settled
  <2>2. CASE /\ ~venue.funding /\ date % Day = 0 /\ MonthStart(at) <= date
             /\ date + Day + Lag <= at
    <3>1. DayStart(date) = date
        BY <2>2 DEF DayStart
    <3>2. MonthStart(at) <= MonthStart(date)
        BY <2>2, StartsFit, FloorIsLast DEF MonthStart
    <3> QED
        BY <2>2, <3>1, <3>2 DEF Settled
  <2> QED
      BY <2>1, <2>2 DEF FileFits
<1> QED
    BY <1>1, SettledBefore

-----------------------------------------------------------------------------
(* The plan of a run *)

\* A stretch ends where a candle file takes over whose first row is until, and
\* no candle file of entries lies between front and that file; or it is open,
\* and there are no candle files.
HandOver(until, front, entries, at) ==
    \/ until = Never /\ \A c \in entries : c.trades
    \/ \E d \in Slot, span \in {MonthlySpan, Day} :
         /\ FileFits(d, span, at) /\ Rows(venue.archived, d, at) # {}
         /\ until = Min(Rows(venue.archived, d, at))
         /\ \A c \in entries : ~c.trades => c.date < front \/ d <= c.date

\* Where a window ends that is cut off at the running month.
LEMMA MinOfTwo ==
    ASSUME NEW a \in Nat, NEW b \in Nat
    PROVE  /\ Min({a, b}) \in {a, b}
           /\ Min({a, b}) <= a /\ Min({a, b}) <= b
<1> {a, b} \in SUBSET Nat /\ {a, b} # {}
    OBVIOUS
<1> QED
    BY FirstOf

\* What the archive lists fits, is not older than the window, and has rows.
LEMMA ListedFits ==
    ASSUME TypeOK, NEW set \in SUBSET Slot, NEW begin \in Nat, NEW end \in Nat,
           NEW f \in {<<d, MonthlySpan>> : d \in Listed(set, Month, begin, end)},
           end <= MonthStart(clock)
    PROVE  /\ f = <<f[1], f[2]>> /\ f[1] \in Slot /\ f[2] \in {MonthlySpan, Day}
           /\ FileFits(f[1], f[2], clock) /\ Rows(set, f[1], clock) # {}
           /\ f[1] < end /\ MonthStart(begin) <= f[1]
<1> USE ConstantsFit
<1>1. PICK d \in Listed(set, Month, begin, end) : f = <<d, MonthlySpan>>
    OBVIOUS
<1>2. clock \in Nat
    BY DEF TypeOK
<1>3. /\ d \in Slot /\ MonthStart(begin) <= d /\ d < end
      /\ d % Month = 0 /\ d + Month + Lag <= clock
      /\ set \cap (d .. d + Month - 1) # {}
    BY DEF Listed, Published, MonthStart
<1>4. d < MonthStart(clock)
    BY <1>2, <1>3, StartsFit
<1>5. Rows(set, d, clock) # {}
    BY <1>3, <1>4 DEF Rows
<1> QED
    BY <1>1, <1>3, <1>4, <1>5 DEF FileFits

\* So do the monthly and the daily files that are listed together.
LEMMA FilesFit ==
    ASSUME TypeOK, ~venue.funding, NEW set \in SUBSET Slot, NEW begin \in Nat, NEW end \in Nat,
           NEW f \in Files(set, begin, end, MonthStart(clock))
    PROVE  /\ f = <<f[1], f[2]>> /\ f[1] \in Slot /\ f[2] \in {MonthlySpan, Day}
           /\ FileFits(f[1], f[2], clock) /\ Rows(set, f[1], clock) # {}
           /\ f[1] < MonthStart(clock) => MonthStart(begin) <= f[1]
<1> USE ConstantsFit
<1> DEFINE cutoff == MonthStart(clock)
<1>1. clock \in Nat /\ cutoff \in Nat /\ cutoff % Month = 0
    BY StartsFit DEF TypeOK
<1> HIDE DEF cutoff
<1>2. CASE f \in {<<d, MonthlySpan>> : d \in Listed(set, Month, begin, Min({end, cutoff}))}
  <2>1. Min({end, cutoff}) \in Nat /\ Min({end, cutoff}) <= cutoff
      BY <1>1, MinOfTwo
  <2> QED
      BY <1>1, <1>2, <2>1, ListedFits DEF cutoff
<1>3. CASE f \in {<<d, Day>> : d \in Listed(set, Day, Max({begin, cutoff}), end)}
  <2> DEFINE first == Max({begin, cutoff})
  <2>1. first \in Nat /\ cutoff <= first
    <3>1. begin \in Int /\ cutoff \in Int
        BY <1>1
    <3>2. first \in {begin, cutoff} /\ cutoff <= first
        BY <3>1, MaxOfTwo
    <3> QED
        BY <1>1, <3>2
  <2> HIDE DEF first
  <2>2. PICK d \in Listed(set, Day, first, end) : f = <<d, Day>>
      BY <1>3 DEF first
  <2>3. /\ d \in Slot /\ DayStart(first) <= d
        /\ d % Day = 0 /\ d + Day + Lag <= clock
        /\ set \cap (d .. d + Day - 1) # {}
      BY DEF Listed, Published, DayStart
  <2>4. cutoff <= DayStart(first)
      BY <1>1, <2>1, MonthsAreDays, FloorIsLast DEF DayStart
  <2>5. DayStart(first) \in Nat
      BY <2>1, StartsFit
  <2>6. cutoff <= d
      BY <1>1, <2>3, <2>4, <2>5
  <2>7. Rows(set, d, clock) # {}
      BY <1>1, <2>3, <2>6 DEF Rows, cutoff
  <2>8. FileFits(d, Day, clock)
      BY <1>1, <2>3, <2>6 DEF FileFits, cutoff
  <2>9. ~(d < cutoff)
      BY <1>1, <2>3, <2>6
  <2> QED
      BY <2>2, <2>3, <2>7, <2>8, <2>9 DEF cutoff
<1> QED
    BY <1>2, <1>3 DEF Files, cutoff

\* So do the candle and funding files of a run.
LEMMA CandleFilesFit ==
    ASSUME TypeOK, NEW from \in Nat, NEW f \in CandleFiles(from, clock)
    PROVE  /\ f = <<f[1], f[2]>> /\ f[1] \in Slot /\ f[2] \in {MonthlySpan, Day}
           /\ FileFits(f[1], f[2], clock) /\ Rows(venue.archived, f[1], clock) # {}
<1>1. clock \in Nat /\ venue.archived \in SUBSET Slot
    BY VenueFits, ConstantsFit DEF TypeOK
<1>2. CASE venue.funding
  <2>1. f \in {<<d, MonthlySpan>> : d \in Listed(venue.archived, Month, from, MonthStart(clock))}
      BY <1>2 DEF CandleFiles
  <2>2. MonthStart(clock) \in Nat /\ MonthStart(clock) <= MonthStart(clock)
      BY <1>1, StartsFit
  <2> QED
      BY <1>1, <2>1, <2>2, ListedFits
<1>3. CASE ~venue.funding
  <2>1. f \in Files(venue.archived, from, clock, MonthStart(clock))
      BY <1>3 DEF CandleFiles
  <2> QED
      BY <1>1, <1>3, <2>1, FilesFit
<1> QED
    BY <1>2, <1>3

\* Every settled row of a window is in a file that is listed for it: no file is
\* left out because its period begins before the window.
LEMMA FilesComplete ==
    ASSUME TypeOK, ~venue.funding, NEW set \in SUBSET Slot, NEW begin \in Nat, NEW end \in Nat,
           NEW t \in set, begin <= t, t < end, Settled(t, clock)
    PROVE  \E f \in Files(set, begin, end, MonthStart(clock)) :
             /\ t \in Rows(set, f[1], clock)
             /\ f[1] \in Nat /\ f[1] <= t /\ t < f[1] + f[2]
<1> USE ConstantsFit
<1> DEFINE cutoff == MonthStart(clock)
<1>1. clock \in Nat /\ t \in Nat /\ t \in Slot
    BY DEF TypeOK
<1>2. cutoff \in Nat /\ cutoff <= clock /\ cutoff % Month = 0
    BY <1>1, StartsFit
<1>3. /\ MonthStart(t) \in Nat /\ MonthStart(t) <= t /\ t < MonthStart(t) + Month
      /\ MonthStart(t) % Month = 0 /\ MonthStart(begin) <= MonthStart(t)
      /\ DayStart(t) \in Nat /\ DayStart(t) <= t /\ t < DayStart(t) + Day
      /\ DayStart(t) % Day = 0
    BY <1>1, StartsFit, StartsGrow
<1> HIDE DEF cutoff
<1>4. CASE MonthStart(t) < cutoff /\ MonthStart(t) + Month + Lag <= clock
  <2> DEFINE d == MonthStart(t)
  <2>1. d \in Slot
      BY <1>1, <1>3 DEF Slot
  <2>2. Published(set, d, Month)
      BY <1>1, <1>3, <1>4 DEF Published
  <2>3. t \in Rows(set, d, clock)
      BY <1>1, <1>3, <1>4 DEF Rows, cutoff
  <2>4. d < Min({end, cutoff}) /\ Min({end, cutoff}) \in Nat
    <3>1. d < end
        BY <1>1, <1>3
    <3> QED
        BY <1>2, <1>4, <3>1, MinOfTwo
  <2>5. d \in Listed(set, Month, begin, Min({end, cutoff}))
      BY <1>3, <2>1, <2>2, <2>4 DEF Listed, MonthStart
  <2>6. <<d, MonthlySpan>> \in Files(set, begin, end, cutoff)
      BY <2>5 DEF Files
  <2>7. t < d + MonthlySpan
      BY <1>1, <1>3
  <2> QED
      BY <1>3, <2>3, <2>6, <2>7 DEF cutoff
<1>5. CASE cutoff <= MonthStart(t) /\ DayStart(t) + Day + Lag <= clock
  <2> DEFINE d == DayStart(t)
             first == Max({begin, cutoff})
  <2>1. d \in Slot
      BY <1>1, <1>3 DEF Slot
  <2>2. Published(set, d, Day)
      BY <1>1, <1>3, <1>5 DEF Published
  <2>3. cutoff <= d
    <3>1. cutoff <= t /\ cutoff % Day = 0
        BY <1>1, <1>2, <1>3, <1>5, MonthsAreDays
    <3> QED
        BY <1>1, <1>2, <3>1, FloorIsLast DEF DayStart
  <2>4. t \in Rows(set, d, clock)
      BY <1>1, <1>2, <1>3, <2>3 DEF Rows, cutoff
  <2>5. first \in Nat /\ first \in {begin, cutoff}
    <3>1. begin \in Int /\ cutoff \in Int
        BY <1>2
    <3>2. first \in {begin, cutoff}
        BY <3>1, MaxOfTwo
    <3> QED
        BY <1>2, <3>2
  <2>6. DayStart(first) <= d
    <3>1. first <= t
        BY <1>1, <1>2, <1>3, <1>5, <2>5
    <3> QED
        BY <1>1, <2>5, <3>1, StartsGrow
  <2>7. d < end
      BY <1>1, <1>3
  <2> HIDE DEF first
  <2>8. d \in Listed(set, Day, first, end)
      BY <2>1, <2>2, <2>6, <2>7 DEF Listed, DayStart
  <2>9. <<d, Day>> \in Files(set, begin, end, cutoff)
      BY <2>8 DEF Files, first
  <2> QED
      BY <1>3, <2>4, <2>9 DEF cutoff
<1> QED
    BY <1>4, <1>5 DEF Settled, cutoff

\* Every settled row of the archive from the resume point on is in a file of
\* the plan.
LEMMA ListingComplete ==
    ASSUME TypeOK, NEW from \in Nat, NEW t \in venue.archived, from <= t, Settled(t, clock)
    PROVE  \E f \in CandleFiles(from, clock) : t \in Rows(venue.archived, f[1], clock)
<1> USE ConstantsFit
<1>1. clock \in Nat /\ venue.archived \in SUBSET Slot /\ t \in Nat /\ t \in Slot
    BY VenueFits DEF TypeOK
<1>2. /\ MonthStart(t) \in Nat /\ MonthStart(t) <= t /\ t < MonthStart(t) + Month
      /\ MonthStart(t) % Month = 0 /\ MonthStart(from) <= MonthStart(t)
      /\ DayStart(t) \in Nat /\ t < DayStart(t) + Day
    BY <1>1, StartsFit, StartsGrow
<1>3. CASE venue.funding
  <2> DEFINE d == MonthStart(t)
  <2>1. d < MonthStart(clock) /\ d + Month + Lag <= clock /\ d \in Slot
      BY <1>1, <1>2, <1>3 DEF Settled, Slot
  <2>2. Published(venue.archived, d, Month)
      BY <1>1, <1>2, <2>1 DEF Published
  <2>3. t \in Rows(venue.archived, d, clock)
      BY <1>1, <1>2, <2>1 DEF Rows
  <2>4. d \in Listed(venue.archived, Month, from, MonthStart(clock))
      BY <1>2, <2>1, <2>2 DEF Listed, MonthStart
  <2>5. <<d, MonthlySpan>> \in CandleFiles(from, clock)
      BY <1>3, <2>4 DEF CandleFiles
  <2> QED
      BY <2>3, <2>5
<1>4. CASE ~venue.funding
  <2>1. t < clock
      BY <1>1, <1>2 DEF Settled
  <2>2. PICK f \in Files(venue.archived, from, clock, MonthStart(clock)) :
               t \in Rows(venue.archived, f[1], clock)
      BY <1>1, <1>4, <2>1, FilesComplete
  <2> QED
      BY <1>4, <2>2 DEF CandleFiles
<1> QED
    BY <1>3, <1>4

\* The cursor lies behind every file in front of date, and no further.
LEMMA CursorFits ==
    ASSUME NEW candles \in SUBSET (Slot \X {MonthlySpan, Day}), NEW date \in Slot, NEW from \in Slot
    PROVE  /\ Cursor(candles, date, from) \in Nat
           /\ from <= Cursor(candles, date, from)
           /\ \A g \in candles : g[1] < date => g[1] + g[2] <= Cursor(candles, date, from)
           /\ \/ Cursor(candles, date, from) = from
              \/ \E g \in candles : g[1] < date /\ Cursor(candles, date, from) = g[1] + g[2]
<1> USE ConstantsFit
<1> DEFINE ends == {f[1] + f[2] : f \in {g \in candles : g[1] < date}}
           all == {from} \cup ends
<1>1. \A g \in candles : g[1] \in Slot /\ g[2] \in {MonthlySpan, Day}
    OBVIOUS
<1>2. \A g \in candles : g[1] + g[2] \in 0 .. Horizon + MonthlySpan
    BY <1>1 DEF Slot
<1>3. all \in SUBSET (0 .. Horizon + MonthlySpan) /\ all # {} /\ from \in all
  <2>1. from \in 0 .. Horizon + MonthlySpan
      BY DEF Slot
  <2> QED
      BY <1>2, <2>1
<1>4. Horizon + MonthlySpan \in Nat
    OBVIOUS
<1>5. \A g \in candles : g[1] < date => g[1] + g[2] \in all
    OBVIOUS
<1> HIDE DEF ends, all
<1>6. Max(all) \in all /\ \A y \in all : y <= Max(all)
    BY <1>3, <1>4, LastOf
<1>7. Cursor(candles, date, from) = Max(all)
    BY DEF Cursor, all, ends
<1>8. Max(all) \in Nat /\ from <= Max(all)
  <2>1. Max(all) \in 0 .. Horizon + MonthlySpan
      BY <1>3, <1>6
  <2>2. from <= Max(all)
      BY <1>3, <1>6
  <2> QED
      BY <2>1, <2>2
<1>9. \A g \in candles : g[1] < date => g[1] + g[2] <= Max(all)
    BY <1>5, <1>6
<1>10. \/ Max(all) = from
       \/ \E g \in candles : g[1] < date /\ Max(all) = g[1] + g[2]
    BY <1>6 DEF all, ends
<1> QED
    BY <1>7, <1>8, <1>9, <1>10

\* A trade entry has the fields of an entry.
LEMMA EntryFits ==
    ASSUME NEW e, NEW lo \in Nat, NEW until \in Nat,
           e = [date |-> e.date, span |-> e.span, trades |-> TRUE, from |-> lo, until |-> until],
           e.date \in Slot, e.span \in {MonthlySpan, Day}
    PROVE  e \in Entry /\ e.trades /\ e.until = until
<1>1. e.span \in Nat
    BY ConstantsFit
<1>2. e.trades = TRUE /\ e.until = until /\ e.from = lo
    OBVIOUS
<1>3. [date |-> e.date, span |-> e.span, trades |-> TRUE, from |-> lo, until |-> until] \in Entry
    BY <1>1 DEF Entry
<1> QED
    BY <1>2, <1>3

\* The trade files of a stretch lie behind the candle files in front of it.
LEMMA TradesBehind ==
    ASSUME TypeOK, ~venue.funding, NEW lo \in Nat, NEW hi \in Nat, NEW until,
           NEW e \in TradeEntries(lo, hi, until, clock)
    PROVE  /\ e = [date |-> e.date, span |-> e.span, trades |-> TRUE, from |-> lo, until |-> until]
           /\ e.date \in Slot /\ e.span \in {MonthlySpan, Day}
           /\ FileFits(e.date, e.span, clock)
           /\ \A date \in Slot, span \in {MonthlySpan, Day} :
                FileFits(date, span, clock) /\ date + span <= lo => date < e.date
<1> USE ConstantsFit
<1>1. venue.traded \in SUBSET Slot /\ clock \in Nat
    BY VenueFits DEF TypeOK
<1>2. PICK f \in Files(venue.traded, lo, hi, MonthStart(clock)) :
         /\ f[1] + f[2] > lo
         /\ e = [date |-> f[1], span |-> f[2], trades |-> TRUE, from |-> lo, until |-> until]
    BY DEF TradeEntries
<1>3. /\ f[1] \in Slot /\ f[2] \in {MonthlySpan, Day} /\ FileFits(f[1], f[2], clock)
      /\ f[1] < MonthStart(clock) => MonthStart(lo) <= f[1]
    BY <1>1, FilesFit
<1>4. ASSUME NEW date \in Slot, NEW span \in {MonthlySpan, Day},
             FileFits(date, span, clock), date + span <= lo
      PROVE  date < f[1]
  <2>1. /\ MonthStart(clock) \in Nat /\ MonthStart(clock) % Month = 0
        /\ date \in Nat /\ f[1] \in Nat /\ MonthStart(lo) \in Nat
      BY <1>1, <1>3, StartsFit
  <2>2. CASE f[1] < MonthStart(clock)
    <3>1. f[2] = MonthlySpan /\ MonthStart(lo) <= f[1]
        BY <1>3, <2>1, <2>2 DEF FileFits
    <3>2. CASE date < MonthStart(clock)
      <4>1. span = MonthlySpan
          BY <1>4, <2>1, <3>2 DEF FileFits
      <4> QED
          BY <1>2, <1>4, <2>1, <3>1, <4>1
    <3>3. CASE MonthStart(clock) <= date
      <4>1. MonthStart(clock) <= lo
          BY <1>4, <2>1, <3>3
      <4>2. MonthStart(clock) <= MonthStart(lo)
          BY <2>1, <4>1, FloorIsLast DEF MonthStart
      <4> QED
          BY <2>1, <2>2, <3>1, <4>2
    <3> QED
        BY <2>1, <3>2, <3>3
  <2>3. CASE MonthStart(clock) <= f[1]
    <3>1. f[2] = Day
        BY <1>3, <2>1, <2>3 DEF FileFits
    <3>2. CASE date < MonthStart(clock)
        BY <2>1, <2>3, <3>2
    <3>3. CASE MonthStart(clock) <= date
      <4>1. span = Day
          BY <1>4, <2>1, <3>3 DEF FileFits
      <4> QED
          BY <1>2, <1>4, <2>1, <3>1, <4>1
    <3> QED
        BY <2>1, <3>2, <3>3
  <2> QED
      BY <2>1, <2>2, <2>3
<1> QED
    BY <1>2, <1>3, <1>4

\* The first row of a listed candle file.
LEMMA FirstRow ==
    ASSUME venue \in Venues, NEW at, NEW date, Rows(venue.archived, date, at) # {}
    PROVE  /\ Min(Rows(venue.archived, date, at)) \in Rows(venue.archived, date, at)
           /\ Min(Rows(venue.archived, date, at)) \in venue.archived
           /\ Min(Rows(venue.archived, date, at)) \in Slot
           /\ \A t \in Rows(venue.archived, date, at) : Min(Rows(venue.archived, date, at)) <= t
<1> DEFINE set == Rows(venue.archived, date, at)
<1>1. set \in SUBSET venue.archived
    BY DEF Rows
<1>2. set \in SUBSET Nat /\ set # {} /\ venue.archived \subseteq Slot
    BY <1>1, VenueFits, ConstantsFit
<1> HIDE DEF set
<1>3. Min(set) \in set /\ \A t \in set : Min(set) <= t
    BY <1>2, FirstOf
<1> QED
    BY <1>1, <1>2, <1>3 DEF set

\* Each stretch ends where the candle files behind it begin.
LEMMA StretchesFit ==
    ASSUME TypeOK, NEW from \in Slot, NEW e \in Stretches(from, clock)
    PROVE  /\ ~venue.funding /\ e \in Entry /\ e.trades
           /\ FileFits(e.date, e.span, clock)
           /\ \/ e.until = Never /\ CandleFiles(from, clock) = {}
              \/ \E d \in Slot, span \in {MonthlySpan, Day} :
                   /\ FileFits(d, span, clock) /\ Rows(venue.archived, d, clock) # {}
                   /\ e.until = Min(Rows(venue.archived, d, clock))
                   /\ \A g \in CandleFiles(from, clock) : g[1] < e.date \/ d <= g[1]
<1> USE ConstantsFit
<1> DEFINE candles == CandleFiles(from, clock)
<1>1. ~venue.funding /\ clock \in Nat /\ clock \in Slot /\ from \in Nat /\ venue \in Venues
    BY DEF Stretches, TypeOK
<1>2. \A g \in candles : /\ g = <<g[1], g[2]>> /\ g[1] \in Slot /\ g[2] \in {MonthlySpan, Day}
                         /\ FileFits(g[1], g[2], clock)
                         /\ Rows(venue.archived, g[1], clock) # {}
    BY <1>1, CandleFilesFit
<1> HIDE DEF candles
<1>3. candles \in SUBSET (Slot \X {MonthlySpan, Day})
    BY <1>2
<1>4. CASE candles = {}
  <2>1. e \in TradeEntries(from, clock, Never, clock)
      BY <1>1, <1>4 DEF Stretches, candles
  <2>2. Never \in Nat
      BY DEF Never
  <2>3. /\ e = [date |-> e.date, span |-> e.span, trades |-> TRUE, from |-> from, until |-> Never]
        /\ e.date \in Slot /\ e.span \in {MonthlySpan, Day}
        /\ FileFits(e.date, e.span, clock)
      BY <1>1, <2>1, TradesBehind
  <2>4. e \in Entry /\ e.trades /\ e.until = Never
      BY <1>1, <2>2, <2>3, EntryFits
  <2> QED
      BY <1>1, <1>4, <2>3, <2>4 DEF candles
<1>5. CASE candles # {}
  <2>1. PICK g \in candles : e \in StretchBefore(g[1], candles, from, clock)
      BY <1>1, <1>5 DEF Stretches, candles
  <2> DEFINE d == g[1]
             cursor == Cursor(candles, d, from)
             handOver == Min(Rows(venue.archived, d, clock))
  <2>2. d \in Slot /\ FileFits(d, g[2], clock) /\ Rows(venue.archived, d, clock) # {}
      BY <1>2
  <2>3. handOver \in Slot /\ handOver \in Nat
      BY <1>1, <2>2, FirstRow
  <2>4. cursor \in Nat /\ \A c \in candles : c[1] < d => c[1] + c[2] <= cursor
      BY <1>3, <2>2, CursorFits
  <2>5. e \in TradeEntries(cursor, handOver, handOver, clock)
      BY <2>1 DEF StretchBefore
  <2> HIDE DEF d, cursor, handOver
  <2>6. /\ e = [date |-> e.date, span |-> e.span, trades |-> TRUE, from |-> cursor,
                until |-> handOver]
        /\ e.date \in Slot /\ e.span \in {MonthlySpan, Day}
        /\ FileFits(e.date, e.span, clock)
        /\ \A date \in Slot, span \in {MonthlySpan, Day} :
             FileFits(date, span, clock) /\ date + span <= cursor => date < e.date
      BY <1>1, <2>3, <2>4, <2>5, TradesBehind
  <2>7. e \in Entry /\ e.trades /\ e.until = handOver
      BY <2>3, <2>4, <2>6, EntryFits
  <2>8. \A c \in candles : c[1] < e.date \/ d <= c[1]
    <3>1. TAKE c \in candles
    <3>2. c[1] \in Nat /\ d \in Nat /\ c[1] \in Slot
        BY <1>2, <2>2
    <3>3. CASE c[1] < d
        BY <1>2, <2>4, <2>6, <3>2, <3>3
    <3> QED
        BY <3>2, <3>3
  <2>9. g[2] \in {MonthlySpan, Day}
      BY <1>2
  <2> QED
      BY <1>1, <2>2, <2>6, <2>7, <2>8, <2>9 DEF candles, handOver
<1> QED
    BY <1>4, <1>5

\* What StartRun plans.
LEMMA PlanFitsAtStart ==
    ASSUME TypeOK, NEW from \in Slot, NEW e \in Plan(from, clock)
    PROVE  /\ e \in Entry /\ FileFits(e.date, e.span, clock)
           /\ e.trades => ~venue.funding /\ HandOver(e.until, e.date, Plan(from, clock), clock)
           /\ ~e.trades => <<e.date, e.span>> \in CandleFiles(from, clock)
<1> USE ConstantsFit
<1>1. \A c \in Stretches(from, clock) : c.trades
    BY StretchesFit
<1>2. \A c \in Plan(from, clock) : ~c.trades => \E f \in CandleFiles(from, clock) :
         f = <<f[1], f[2]>> /\ c.date = f[1] /\ c.span = f[2]
  <2>1. \A f \in CandleFiles(from, clock) : f = <<f[1], f[2]>>
      BY CandleFilesFit
  <2> QED
      BY <1>1, <2>1 DEF Plan
<1>3. CASE e \in Stretches(from, clock)
  <2>1. HandOver(e.until, e.date, Plan(from, clock), clock)
    <3>1. CASE e.until = Never /\ CandleFiles(from, clock) = {}
        BY <1>2, <3>1 DEF HandOver
    <3>2. CASE \E d \in Slot, span \in {MonthlySpan, Day} :
                   /\ FileFits(d, span, clock) /\ Rows(venue.archived, d, clock) # {}
                   /\ e.until = Min(Rows(venue.archived, d, clock))
                   /\ \A g \in CandleFiles(from, clock) : g[1] < e.date \/ d <= g[1]
        BY <1>2, <3>2 DEF HandOver
    <3> QED
        BY <1>3, <3>1, <3>2, StretchesFit
  <2> QED
      BY <1>1, <1>3, <2>1, StretchesFit
<1>4. CASE e \notin Stretches(from, clock)
  <2>1. PICK f \in CandleFiles(from, clock) :
          e = [date |-> f[1], span |-> f[2], trades |-> FALSE, from |-> 0, until |-> 0]
      BY <1>4 DEF Plan
  <2>2. /\ f = <<f[1], f[2]>> /\ f[1] \in Slot /\ f[2] \in {MonthlySpan, Day}
        /\ FileFits(f[1], f[2], clock)
      BY CandleFilesFit
  <2> QED
      BY <2>1, <2>2 DEF Entry
<1> QED
    BY <1>3, <1>4

-----------------------------------------------------------------------------
(* The inductive invariant, in named parts *)

\* What New takes: a slot the file has not passed yet.
Behind(t) == t > LastSaved \/ (rows = {} /\ t = LastSaved)

MemoryFits ==
    /\ pc # "idle" => run # None
    /\ pc # "files" => plan = {} /\ fold = None

SinceFits == rows = {} <=> since = None

PlanFits ==
    \A e \in plan :
      /\ FileFits(e.date, e.span, run.now)
      /\ e.trades => ~venue.funding /\ HandOver(e.until, e.date, plan, run.now)

\* The candle files still to do lie behind the stretch that is being folded.
FoldFits ==
    fold # None =>
      /\ ~venue.funding /\ HandOver(fold.until, 0, plan, run.now)
      /\ fold.pending # None =>
           fold.pending \in venue.traded /\ Settled(fold.pending, run.now)

\* The plan still has every settled row of the archive that is not passed yet.
PlanHolds ==
    pc # "idle" =>
      \A t \in venue.archived :
        Behind(t) /\ Settled(t, run.now) =>
          \E c \in plan : ~c.trades /\ t \in Rows(venue.archived, c.date, run.now)

IInv ==
    /\ TypeOK /\ MemoryFits /\ SinceFits
    /\ PlanFits /\ FoldFits /\ PlanHolds
    /\ NoArchivedRowSkipped /\ FlatBarsBounded

-----------------------------------------------------------------------------
(* What the worker appends *)

\* A batch passes no row of the archive over.
Sound(new) ==
    \A u \in New(new.bars \cup new.filled), t \in venue.archived :
        Behind(t) /\ t < u => t \in new.bars \cup new.filled

Bounded(new) ==
    /\ new.bars \subseteq Int /\ new.filled \subseteq Int
    /\ \A t \in new.filled : \E u \in venue.traded \cup venue.archived : u > t

\* A run that is not over knows where it began, and the tail is the last row.
LEMMA MemoryIs ==
    ASSUME IInv, pc # "idle"
    PROVE  /\ run.from \in Slot /\ run.now \in Slot /\ run.now \in Nat
           /\ LastSaved \in Slot /\ \A r \in rows : r <= LastSaved
           /\ rows = {} => LastSaved = run.from
<1> USE ConstantsFit
<1>1. run.from \in Slot /\ run.now \in Slot
  <2>1. run \in [from : Slot, now : Slot]
      BY DEF IInv, TypeOK, MemoryFits
  <2> QED
      BY <2>1
<1>4. run.now \in Nat
    BY <1>1
<1>2. CASE rows = {}
  <2>1. LastSaved = run.from
      BY <1>2 DEF LastSaved
  <2> QED
      BY <1>1, <1>4, <1>2, <2>1
<1>3. CASE rows # {}
  <2>1. rows \in SUBSET (0 .. Horizon)
      BY DEF IInv, TypeOK, Slot
  <2>2. Max(rows) \in rows /\ \A r \in rows : r <= Max(rows)
      BY <1>3, <2>1, LastOf
  <2>3. LastSaved = Max(rows)
      BY <1>3 DEF LastSaved
  <2>4. Max(rows) \in Slot
      BY <2>1, <2>2 DEF Slot
  <2> QED
      BY <1>1, <1>4, <1>3, <2>2, <2>3, <2>4
<1> QED
    BY <1>2, <1>3

\* In front of where a stretch is handed over, no row of the archive is left.
LEMMA NothingBetween ==
    ASSUME IInv, pc = "files", NEW until, HandOver(until, 0, plan, run.now),
           NEW t \in venue.archived, Behind(t),
           until # Never => t < until,
           until = Never => Settled(t, run.now)
    PROVE  FALSE
<1> USE ConstantsFit
<1>1. run.now \in Nat /\ venue \in Venues /\ plan \subseteq Entry
    BY MemoryIs DEF IInv, TypeOK
<1>2. t \in Nat /\ t \in Slot
    BY <1>1, VenueFits
<1>3. Settled(t, run.now) =>
         \E c \in plan : ~c.trades /\ t \in Rows(venue.archived, c.date, run.now)
    BY DEF IInv, PlanHolds
<1>4. CASE until = Never /\ \A c \in plan : c.trades
    BY <1>3, <1>4
<1>5. CASE \E d \in Slot, span \in {MonthlySpan, Day} :
             /\ FileFits(d, span, run.now) /\ Rows(venue.archived, d, run.now) # {}
             /\ until = Min(Rows(venue.archived, d, run.now))
             /\ \A c \in plan : ~c.trades => c.date < 0 \/ d <= c.date
  <2>1. PICK d \in Slot, span \in {MonthlySpan, Day} :
             /\ FileFits(d, span, run.now) /\ Rows(venue.archived, d, run.now) # {}
             /\ until = Min(Rows(venue.archived, d, run.now))
             /\ \A c \in plan : ~c.trades => c.date < 0 \/ d <= c.date
      BY <1>5
  <2>2. /\ until \in Rows(venue.archived, d, run.now) /\ until \in Slot
        /\ \A r \in Rows(venue.archived, d, run.now) : until <= r
      BY <1>1, <2>1, FirstRow
  <2>3. until # Never /\ d \in Nat /\ until \in Nat
      BY <2>2 DEF Never, Slot
  <2>4. t < until
      BY <2>3
  <2>5. venue.archived \in SUBSET Slot
      BY <1>1, VenueFits
  <2>6. Settled(until, run.now)
      BY <1>1, <2>1, <2>2, <2>3, <2>5, RowsSettled
  <2>7. Settled(t, run.now)
      BY <1>1, <1>2, <2>3, <2>4, <2>6, SettledBefore
  <2>8. PICK c \in plan : ~c.trades /\ t \in Rows(venue.archived, c.date, run.now)
      BY <1>3, <2>7
  <2>9. c.date \in Nat /\ c.date <= t
    <3>1. c.date \in Slot
        BY <1>1, <2>8 DEF Entry
    <3>2. c.date \in Nat
        BY <3>1
    <3> QED
        BY <1>2, <2>8, <3>2 DEF Rows
  <2>10. d <= t
      BY <1>2, <2>1, <2>3, <2>8, <2>9
  <2>11. t \in Rows(venue.archived, d, run.now)
      BY <1>2, <2>2, <2>3, <2>4, <2>10 DEF Rows
  <2> QED
      BY <1>2, <2>2, <2>3, <2>4, <2>11
<1> QED
    BY <1>4, <1>5 DEF HandOver

\* A part of a stretch that stays in front of where it is handed over, and of
\* settled slots when it is open, is sound.
LEMMA StretchSound ==
    ASSUME IInv, pc = "files", NEW f, HandOver(f.until, 0, plan, run.now),
           NEW closed, closed.bars \subseteq Int, closed.filled \subseteq Int,
           f.until = Never =>
             \A u \in closed.bars \cup closed.filled :
               \E v \in Slot : u <= v /\ Settled(v, run.now)
    PROVE  Sound(Clipped(f, closed))
<1> USE ConstantsFit
<1> DEFINE new == Clipped(f, closed)
<1>1. \A u \in new.bars \cup new.filled :
         u < f.until /\ u \in closed.bars \cup closed.filled /\ u \in Int
    BY DEF Clipped
<1>2. SUFFICES ASSUME NEW u \in new.bars \cup new.filled, NEW t \in venue.archived,
                      Behind(t), t < u
               PROVE  FALSE
    BY DEF Sound, New
<1>3. venue \in Venues /\ run.now \in Nat
    BY MemoryIs DEF IInv, TypeOK
<1>4. t \in Nat
    BY <1>3, VenueFits
<1>5. CASE f.until = Never
  <2>1. PICK v \in Slot : u <= v /\ Settled(v, run.now)
      BY <1>1, <1>5
  <2>2. Settled(t, run.now)
    <3>1. u \in Int /\ v \in Nat
        BY <1>1
    <3>2. t <= v
        BY <1>2, <1>4, <2>1, <3>1
    <3> QED
        BY <1>3, <1>4, <2>1, <3>1, <3>2, SettledBefore
  <2> QED
      BY <1>2, <1>5, <2>2, NothingBetween
<1>6. CASE f.until # Never
  <2>1. f.until \in Slot
    <3>1. PICK d \in Slot : /\ Rows(venue.archived, d, run.now) # {}
                            /\ f.until = Min(Rows(venue.archived, d, run.now))
        BY <1>6 DEF HandOver
    <3> QED
        BY <1>3, <3>1, FirstRow
  <2>2. u < f.until /\ u \in Int
      BY <1>1
  <2>3. t < f.until
    <3>1. f.until \in Nat
        BY <2>1
    <3> QED
        BY <1>2, <1>4, <2>2, <3>1
  <2> QED
      BY <1>2, <1>6, <2>3, NothingBetween
<1> QED
    BY <1>5, <1>6

\* The stretch that is folded next: the one in progress, or one that resumes
\* from the tail.
LEMMA ActiveFits ==
    ASSUME IInv, NEW e \in plan, Folds(e)
    PROVE  /\ pc = "files" /\ ~venue.funding /\ Active(e) \in Fold
           /\ HandOver(Active(e).until, 0, plan, run.now)
           /\ Active(e).pending # None =>
                Active(e).pending \in venue.traded /\ Settled(Active(e).pending, run.now)
<1>1. pc = "files" /\ e.trades /\ \A d \in plan \ {e} : Precedes(e, d)
    BY DEF Folds, Current
<1>2. /\ e \in Entry /\ ~venue.funding /\ HandOver(e.until, e.date, plan, run.now)
      /\ plan \subseteq Entry
    BY <1>1 DEF IInv, TypeOK, PlanFits
<1>3. CASE fold = None
  <2>1. Active(e) = Resumed(e, LastSaved)
      BY <1>3 DEF Active
  <2>2. LastSaved \in Int
    <3>1. LastSaved \in Slot
        BY <1>1, MemoryIs
    <3> QED
        BY <3>1, ConstantsFit
  <2>3. Active(e) \in Fold /\ Active(e).until = e.until /\ Active(e).pending = None
      BY <1>2, <2>1, <2>2 DEF Resumed, Fold, Entry
  <2>4. \A c \in plan : ~c.trades => ~(c.date < e.date)
    <3>1. SUFFICES ASSUME NEW c \in plan, ~c.trades, c.date < e.date PROVE FALSE
        OBVIOUS
    <3>2. c.date \in Nat /\ e.date \in Nat
      <4>1. c.date \in Slot /\ e.date \in Slot
          BY <1>2 DEF Entry
      <4> QED
          BY <4>1, ConstantsFit
    <3> QED
        BY <1>1, <3>1, <3>2 DEF Precedes
  <2>5. HandOver(e.until, 0, plan, run.now)
      BY <1>2, <2>4 DEF HandOver
  <2> QED
      BY <1>1, <1>2, <2>3, <2>5
<1>4. CASE fold # None
  <2>1. Active(e) = fold
      BY <1>4 DEF Active
  <2> QED
      BY <1>1, <1>2, <1>4, <2>1 DEF IInv, TypeOK, FoldFits
<1> QED
    BY <1>3, <1>4

\* The minutes with trades that a file brings, and the one that was in progress.
LEMMA HandFits ==
    ASSUME IInv, NEW e \in plan, Folds(e), NEW t \in HandAt(e)
    PROVE  t \in Slot /\ t \in venue.traded /\ Settled(t, run.now)
<1>1. pc = "files" /\ run.now \in Nat /\ venue \in Venues
    BY ActiveFits, MemoryIs DEF IInv, TypeOK
<1>2. venue.traded \in SUBSET Slot
    BY <1>1, VenueFits
<1>3. CASE t \in Rows(venue.traded, e.date, run.now)
  <2>1. FileFits(e.date, e.span, run.now) /\ e.date \in Nat
      BY ConstantsFit DEF IInv, TypeOK, PlanFits, Entry
  <2> QED
      BY <1>1, <1>2, <1>3, <2>1, RowsSettled
<1>4. CASE t \notin Rows(venue.traded, e.date, run.now)
  <2>1. Active(e).pending # None /\ t = Active(e).pending
      BY <1>4 DEF HandAt, InHand
  <2> QED
      BY <1>2, <2>1, ActiveFits
<1> QED
    BY <1>3, <1>4

\* The last of the minutes in hand, when there is one.
LEMMA LastInHand ==
    ASSUME NEW hand \in SUBSET Slot, hand # {}
    PROVE  Max(hand) \in hand /\ Max(hand) \in Slot /\ \A t \in hand : t <= Max(hand)
<1>1. hand \in SUBSET (0 .. Horizon)
    BY DEF Slot
<1> QED
    BY <1>1, ConstantsFit, LastOf

\* Minutes are filled in below the end that is given only.
LEMMA FlatFits ==
    ASSUME NEW f \in Fold, NEW hand \in SUBSET Slot, NEW hi \in Nat,
           NEW t \in FlatBelow(f, hand, hi)
    PROVE  t \in Int /\ t < hi
<1>1. CASE f.close
    BY <1>1 DEF FlatBelow, Fold
<1>2. CASE ~f.close
  <2>1. hand # {} /\ t \in Min(hand) .. hi - 1
      BY <1>2 DEF FlatBelow
  <2>2. Min(hand) \in Nat
      BY <2>1, ConstantsFit, FirstOf
  <2> QED
      BY <2>1, <2>2
<1> QED
    BY <1>1, <1>2

\* A batch of folded minutes passes no row over, and has a trade behind it.
LEMMA FoldedSound ==
    ASSUME IInv, NEW e \in plan, Folds(e)
    PROVE  /\ Sound(Clipped(Active(e), FeedBars(Active(e), HandAt(e))))
           /\ Bounded(Clipped(Active(e), FeedBars(Active(e), HandAt(e))))
<1> DEFINE f == Active(e)
           hand == HandAt(e)
           closed == FeedBars(f, hand)
<1>1. /\ pc = "files" /\ f \in Fold /\ HandOver(f.until, 0, plan, run.now)
    BY ActiveFits
<1>2. hand \in SUBSET Slot /\ \A t \in hand : t \in venue.traded /\ Settled(t, run.now)
    BY HandFits
<1> HIDE DEF f, hand
<1>3. /\ closed.bars \subseteq hand /\ closed.filled \subseteq Int
      /\ \A t \in closed.filled : \E v \in hand : t < v
  <2>1. CASE hand = {}
      BY <2>1 DEF FeedBars
  <2>2. CASE hand # {}
    <3>1. Max(hand) \in hand /\ Max(hand) \in Nat
        BY <1>2, <2>2, LastInHand, ConstantsFit
    <3>2. closed.bars = hand \ {Max(hand)} /\ closed.filled = FlatBelow(f, hand, Max(hand))
        BY <2>2 DEF FeedBars
    <3>3. \A t \in closed.filled : t \in Int /\ t < Max(hand)
        BY <1>1, <1>2, <3>1, <3>2, FlatFits
    <3> QED
        BY <3>1, <3>2, <3>3
  <2> QED
      BY <2>1, <2>2
<1> HIDE DEF closed
<1>4. closed.bars \subseteq Int /\ Slot \subseteq Int
  <2>1. Slot \subseteq Int
      BY ConstantsFit
  <2> QED
      BY <1>2, <1>3, <2>1
<1>5. \A u \in closed.bars \cup closed.filled : \E v \in Slot : u <= v /\ Settled(v, run.now)
  <2>1. TAKE u \in closed.bars \cup closed.filled
  <2>2. CASE u \in closed.bars
    <3>1. u \in Slot /\ u \in Int
        BY <1>2, <1>3, <1>4, <2>2
    <3>2. u <= u
        BY <3>1
    <3> QED
        BY <1>2, <1>3, <2>2, <3>1, <3>2
  <2>3. CASE u \in closed.filled
    <3>1. PICK v \in hand : u < v
        BY <1>3, <2>3
    <3>2. v \in Slot /\ u <= v
        BY <1>2, <1>3, <2>3, <3>1 DEF Slot
    <3> QED
        BY <1>2, <3>1, <3>2
  <2> QED
      BY <2>2, <2>3
<1>6. Sound(Clipped(f, closed))
    BY <1>1, <1>3, <1>4, <1>5, StretchSound
<1>7. Bounded(Clipped(f, closed))
  <2>1. \A t \in closed.filled : \E u \in venue.traded \cup venue.archived : u > t
    <3>1. TAKE t \in closed.filled
    <3>2. PICK v \in hand : t < v
        BY <1>3
    <3>3. v \in venue.traded /\ v > t
        BY <1>2, <1>3, <3>2 DEF Slot
    <3> QED
        BY <3>3
  <2> QED
      BY <1>3, <1>4, <2>1 DEF Bounded, Clipped
<1> QED
    BY <1>6, <1>7 DEF closed, f, hand

\* So does the end of a stretch: its flat bars stop in front of a candle.
LEMMA EndSound ==
    ASSUME IInv, Ends
    PROVE  /\ Sound(Clipped(fold, FinishBars(fold)))
           /\ Bounded(Clipped(fold, FinishBars(fold)))
<1> DEFINE closed == FinishBars(fold)
           hand == InHand(fold, {})
<1>1. /\ pc = "files" /\ fold \in Fold /\ HandOver(fold.until, 0, plan, run.now)
      /\ fold.pending # None =>
           fold.pending \in venue.traded /\ Settled(fold.pending, run.now)
      /\ venue \in Venues
    BY DEF Ends, IInv, TypeOK, FoldFits
<1>2. hand \in SUBSET Slot /\ \A t \in hand : Settled(t, run.now)
    BY <1>1, VenueFits DEF InHand
<1>3. closed.bars = hand
    BY DEF FinishBars
<1>4. fold.until = Never => closed.filled = {}
    BY DEF FinishBars
<1>5. fold.until # Never =>
         /\ fold.until \in venue.archived /\ fold.until \in Nat
         /\ \A t \in closed.filled : t \in Int /\ t < fold.until
  <2>1. HAVE fold.until # Never
  <2>2. PICK d \in Slot : /\ Rows(venue.archived, d, run.now) # {}
                          /\ fold.until = Min(Rows(venue.archived, d, run.now))
      BY <1>1, <2>1 DEF HandOver
  <2>3. fold.until \in venue.archived /\ fold.until \in Nat
      BY <1>1, <2>2, FirstRow, ConstantsFit
  <2>4. closed.filled = FlatBelow(fold, hand, fold.until)
      BY <2>1 DEF FinishBars
  <2> HIDE DEF hand, closed
  <2>5. \A t \in closed.filled : t \in Int /\ t < fold.until
      BY <1>1, <1>2, <2>3, <2>4, FlatFits
  <2> QED
      BY <2>3, <2>5
<1> HIDE DEF hand, closed
<1>6. closed.bars \subseteq Int /\ closed.filled \subseteq Int
    BY <1>2, <1>3, <1>4, <1>5 DEF Slot
<1>7. fold.until = Never =>
         \A u \in closed.bars \cup closed.filled :
           \E v \in Slot : u <= v /\ Settled(v, run.now)
  <2>1. \A u \in hand : u \in Slot /\ u <= u
      BY <1>2 DEF Slot
  <2> QED
      BY <1>2, <1>3, <1>4, <2>1
<1>8. Sound(Clipped(fold, closed))
    BY <1>1, <1>6, <1>7, StretchSound
<1>9. \A t \in closed.filled : \E u \in venue.traded \cup venue.archived : u > t
  <2>1. TAKE t \in closed.filled
  <2>2. fold.until > t /\ fold.until \in venue.archived
      BY <1>4, <1>5
  <2> QED
      BY <2>2
<1>10. Bounded(Clipped(fold, closed))
    BY <1>6, <1>9 DEF Bounded, Clipped
<1> QED
    BY <1>8, <1>10 DEF closed

\* A candle file has every row of its period, and those before it are stored.
LEMMA CandlesSound ==
    ASSUME IInv, NEW e \in plan, Takes(e)
    PROVE  Sound(CandlesAt(e)) /\ Bounded(CandlesAt(e))
<1> USE ConstantsFit
<1> DEFINE set == Rows(venue.archived, e.date, run.now)
<1>1. pc = "files" /\ ~e.trades /\ \A d \in plan \ {e} : Precedes(e, d)
    BY DEF Takes, Current
<1>2. /\ run.now \in Nat /\ venue.archived \in SUBSET Slot /\ plan \subseteq Entry
      /\ FileFits(e.date, e.span, run.now)
    BY <1>1, MemoryIs, VenueFits DEF IInv, TypeOK, PlanFits
<1>3. e.date \in Nat
    BY <1>2 DEF Entry
<1>4. \A t \in set : t \in Nat
    BY <1>2 DEF Rows
<1>5. ASSUME NEW u \in set, NEW t \in venue.archived, Behind(t), t < u
      PROVE  t \in set
  <2>1. t \in Nat /\ u \in Nat
      BY <1>2, <1>4
  <2>2. Settled(t, run.now)
    <3>1. Settled(u, run.now)
        BY <1>2, <1>3, RowsSettled
    <3>2. t <= u
        BY <1>5, <2>1
    <3> QED
        BY <1>2, <2>1, <3>1, <3>2, SettledBefore
  <2>3. PICK c \in plan : ~c.trades /\ t \in Rows(venue.archived, c.date, run.now)
      BY <1>1, <1>5, <2>2 DEF IInv, PlanHolds
  <2>4. c.date \in Nat
      BY <1>2 DEF Entry
  <2>5. c.date <= t
      BY <2>1, <2>3, <2>4 DEF Rows
  <2>6. e.date <= c.date
      BY <1>1, <1>3, <2>3, <2>4 DEF Precedes
  <2>7. e.date <= t
      BY <1>3, <2>1, <2>4, <2>5, <2>6
  <2> QED
      BY <1>3, <1>5, <2>1, <2>7 DEF Rows
<1> HIDE DEF set
<1>6. CandlesAt(e) = [bars |-> set, filled |-> {}]
    BY DEF CandlesAt, set
<1> QED
    BY <1>4, <1>5, <1>6 DEF Sound, Bounded, New

\* What the archive does not have yet REST serves from the tail on.
LEMMA RecentSound ==
    ASSUME IInv, pc = "rest"
    PROVE  Sound(Recent) /\ Bounded(Recent)
<1> USE ConstantsFit
<1> DEFINE now == run.now
<1>1. /\ now \in Nat /\ LastSaved \in Nat /\ plan = {} /\ venue \in Venues
    BY MemoryIs DEF IInv, TypeOK, MemoryFits
<1>2. /\ venue.archived \subseteq Slot /\ venue.rest \subseteq Slot /\ venue.depth \in Nat
    BY <1>1, VenueFits
<1>3. Recent.filled = {} /\ Recent.bars = {t \in RestRows(now) : t >= LastSaved}
    BY DEF Recent
<1> HIDE DEF now
<1>4. \A u \in Recent.bars : u \in Nat /\ u \in venue.rest /\ u < now
    BY <1>2, <1>3 DEF RestRows
<1>5. ASSUME NEW u \in Recent.bars, NEW t \in venue.archived, Behind(t), t < u
      PROVE  t \in Recent.bars
  <2>1. t \in Nat /\ u \in Nat /\ u \in venue.rest /\ u < now /\ t < now
    <3>1. t \in Nat
        BY <1>2
    <3>2. u \in Nat /\ u \in venue.rest /\ u < now
        BY <1>4
    <3> QED
        BY <1>1, <1>5, <3>1, <3>2
  <2>2. ~Settled(t, now)
      BY <1>1, <1>5 DEF IInv, PlanHolds, now
  <2>3. /\ MonthStart(t) \in Nat /\ MonthStart(t) <= t
        /\ MonthStart(now) \in Nat /\ now < MonthStart(now) + Month
        /\ DayStart(t) \in Nat /\ DayStart(t) <= t
      BY <1>1, <2>1, StartsFit
  <2>4. MonthStart(t) <= MonthStart(now)
    <3>1. t <= now
        BY <1>1, <2>1
    <3> QED
        BY <1>1, <2>1, <3>1, StartsGrow
  <2>5. now < t + Month + Lag
    <3>1. CASE MonthStart(t) < MonthStart(now)
      <4>1. ~(MonthStart(t) + Month + Lag <= now)
          BY <2>2, <3>1 DEF Settled
      <4> QED
          BY <1>1, <2>1, <2>3, <4>1
    <3>2. CASE MonthStart(t) = MonthStart(now)
        BY <1>1, <2>1, <2>3, <3>2
    <3> QED
        BY <2>3, <2>4, <3>1, <3>2
  <2>6. /\ venue.depth >= Month + Lag
        /\ t < u /\ u < t + Month + Lag => t \in venue.rest
      BY <1>1, <1>5, <2>1, RestAssumption
  <2>7. t \in venue.rest
      BY <1>1, <1>5, <2>1, <2>5, <2>6
  <2>8. t >= now - venue.depth
      BY <1>1, <1>2, <2>1, <2>5, <2>6
  <2>9. t >= LastSaved
      BY <1>1, <1>5, <2>1 DEF Behind
  <2> QED
      BY <1>3, <2>1, <2>7, <2>8, <2>9 DEF RestRows
<1>6. Sound(Recent)
    BY <1>3, <1>5 DEF Sound, New
<1>7. Bounded(Recent)
    BY <1>3, <1>4 DEF Bounded
<1> QED
    BY <1>6, <1>7

\* Whatever an append is cut short in is sound.
LEMMA InFlightSound ==
    ASSUME IInv, NEW new \in InFlight
    PROVE  Sound(new) /\ Bounded(new) /\ pc # "idle"
<1>1. CASE Ends /\ new = Clipped(fold, FinishBars(fold))
    BY <1>1, EndSound DEF Ends
<1>2. CASE \E e \in plan : Folds(e) /\ new = Clipped(Active(e), FeedBars(Active(e), HandAt(e)))
    BY <1>2, FoldedSound, ActiveFits
<1>3. CASE \E e \in plan : Takes(e) /\ new = CandlesAt(e)
    BY <1>3, CandlesSound DEF Takes, Current
<1>4. CASE pc = "rest" /\ new = Recent
    BY <1>4, RecentSound
<1> QED
    BY <1>1, <1>2, <1>3, <1>4 DEF InFlight

-----------------------------------------------------------------------------
(* What an append leaves *)

\* An append adds what was not passed, up to where it is cut short.
LEMMA AppendFits ==
    ASSUME IInv, pc # "idle", NEW new, Bounded(new), NEW hi \in Slot, AppendUpTo(new, hi)
    PROVE  /\ rows' \subseteq Slot /\ flat' \subseteq rows' /\ rows \subseteq rows'
           /\ since' \in Slot \cup {None} /\ (rows' = {} <=> since' = None)
           /\ \A t \in rows' \ rows :
                t \in New(new.bars \cup new.filled) /\ t \in Nat /\ t <= hi
           /\ \A t \in New(new.bars \cup new.filled) : t <= hi => t \in rows'
<1> USE ConstantsFit
<1>1. /\ rows' = rows \cup {t \in New(new.bars \cup new.filled) : t <= hi}
      /\ flat' = flat \cup {t \in New(new.filled) : t <= hi}
      /\ since' = IF since = None /\ rows' # {} THEN run.from ELSE since
    BY DEF AppendUpTo
<1>2. /\ rows \subseteq Slot /\ flat \subseteq rows /\ run.from \in Slot /\ LastSaved \in Nat
      /\ since \in Slot \cup {None} /\ (rows = {} <=> since = None)
    BY MemoryIs DEF IInv, TypeOK, SinceFits
<1>3. run.from # None
    BY <1>2, NoneAssumption
<1>4. \A t \in New(new.bars \cup new.filled) : t \in Int /\ LastSaved <= t
    BY <1>2 DEF New, Bounded
<1>5. \A t \in New(new.bars \cup new.filled) : t <= hi => t \in Slot
    BY <1>2, <1>4 DEF Slot
<1>6. New(new.filled) \subseteq New(new.bars \cup new.filled)
    BY DEF New
<1>7. rows' \subseteq Slot /\ flat' \subseteq rows' /\ rows \subseteq rows'
    BY <1>1, <1>2, <1>5, <1>6
<1>8. since' \in Slot \cup {None} /\ (rows' = {} <=> since' = None)
    BY <1>1, <1>2, <1>3, <1>7
<1> QED
    BY <1>1, <1>5, <1>7, <1>8

\* A sound append leaves no row of the archive behind, wherever it is cut short.
LEMMA AppendKeeps ==
    ASSUME IInv, pc # "idle", NEW new, Sound(new), Bounded(new),
           NEW hi \in Slot, AppendUpTo(new, hi), venue' = venue
    PROVE  /\ rows' \subseteq Slot /\ flat' \subseteq rows' /\ since' \in Slot \cup {None}
           /\ SinceFits' /\ NoArchivedRowSkipped' /\ FlatBarsBounded'
<1> USE ConstantsFit
<1>1. /\ rows' \subseteq Slot /\ flat' \subseteq rows' /\ rows \subseteq rows'
      /\ since' \in Slot \cup {None} /\ (rows' = {} <=> since' = None)
      /\ \A t \in rows' \ rows :
           t \in New(new.bars \cup new.filled) /\ t \in Nat /\ t <= hi
      /\ \A t \in New(new.bars \cup new.filled) : t <= hi => t \in rows'
    BY AppendFits
<1>2. /\ LastSaved \in Nat /\ run.from \in Nat /\ venue.archived \subseteq Slot
      /\ rows = {} => LastSaved = run.from
      /\ (rows = {} <=> since = None)
      /\ rows \subseteq Slot
    BY MemoryIs, VenueFits DEF IInv, TypeOK, SinceFits
<1>3. ASSUME rows' # {}, NEW t \in venue.archived, since' <= t, t <= Max(rows')
      PROVE  t \in rows'
  <2> DEFINE m == Max(rows')
  <2>1. m \in rows' /\ m \in Nat /\ \A r \in rows' : r <= m
    <3>1. Max(rows') \in rows' /\ Max(rows') \in Slot /\ \A r \in rows' : r <= Max(rows')
        BY <1>1, <1>3, LastInHand
    <3> QED
        BY <3>1
  <2> HIDE DEF m
  <2>2. t \in Nat /\ t <= m
      BY <1>2, <1>3 DEF m
  <2>3. ASSUME Behind(t), m \notin rows
        PROVE  t \in rows'
    <3>1. m \in New(new.bars \cup new.filled) /\ m <= hi
        BY <1>1, <2>1, <2>3
    <3>2. CASE t = m
        BY <2>1, <3>2
    <3>3. CASE t < m
      <4>1. t \in new.bars \cup new.filled
          BY <2>3, <3>1, <3>3 DEF Sound
      <4>2. t \in New(new.bars \cup new.filled)
          BY <2>3, <4>1 DEF New, Behind
      <4>3. t <= hi
          BY <2>1, <2>2, <3>1
      <4> QED
          BY <1>1, <4>2, <4>3
    <3> QED
        BY <2>1, <2>2, <3>2, <3>3
  <2>4. CASE rows = {}
    <3>1. since' = run.from
        BY <1>2, <1>3, <2>4 DEF AppendUpTo
    <3>2. Behind(t)
        BY <1>2, <1>3, <2>2, <2>4, <3>1 DEF Behind
    <3> QED
        BY <2>3, <2>4, <3>2
  <2>5. CASE rows # {}
    <3>1. since' = since /\ LastSaved = Max(rows)
        BY <1>2, <2>5 DEF AppendUpTo, LastSaved
    <3>2. CASE t <= LastSaved
      <4>1. t \in rows
          BY <1>3, <2>5, <3>1, <3>2 DEF IInv, NoArchivedRowSkipped
      <4> QED
          BY <1>1, <4>1
    <3>3. CASE t > LastSaved
      <4>1. Behind(t)
          BY <3>3 DEF Behind
      <4>2. m \notin rows
        <5>1. \A r \in rows : r <= LastSaved
            BY MemoryIs
        <5>2. ~(m <= LastSaved)
            BY <1>2, <2>1, <2>2, <3>3
        <5> QED
            BY <5>1, <5>2
      <4> QED
          BY <2>3, <4>1, <4>2
    <3> QED
        BY <1>2, <2>2, <3>2, <3>3
  <2> QED
      BY <2>4, <2>5
<1>4. ASSUME NEW t \in flat'
      PROVE  \E u \in venue.traded \cup venue.archived : u > t
    BY DEF AppendUpTo, IInv, FlatBarsBounded, Bounded, New
<1> QED
    BY <1>1, <1>3, <1>4 DEF SinceFits, NoArchivedRowSkipped, FlatBarsBounded

\* What is behind the tail after an append was behind it before, and was not in it.
LEMMA BehindAfter ==
    ASSUME IInv, pc # "idle", NEW new, Bounded(new), Persist(new), run' = run,
           NEW t \in Slot, Behind(t)'
    PROVE  Behind(t) /\ t \notin new.bars \cup new.filled
<1> USE ConstantsFit
<1>1. AppendUpTo(new, Horizon) /\ Horizon \in Slot /\ t <= Horizon /\ t \in Nat
    BY DEF Persist, Slot
<1>2. /\ rows' \subseteq Slot /\ rows \subseteq rows'
      /\ \A r \in rows' \ rows :
           r \in New(new.bars \cup new.filled) /\ r \in Nat /\ r <= Horizon
      /\ \A r \in New(new.bars \cup new.filled) : r <= Horizon => r \in rows'
    BY <1>1, AppendFits
<1>3. /\ LastSaved \in Nat /\ run.from \in Nat /\ rows \subseteq Slot
      /\ rows = {} => LastSaved = run.from
    BY MemoryIs DEF IInv, TypeOK
<1>4. t \notin rows'
  <2>1. SUFFICES ASSUME t \in rows' PROVE FALSE
      OBVIOUS
  <2>2. rows' # {} /\ rows' \in SUBSET Slot
      BY <1>2, <2>1
  <2>3. t <= Max(rows') /\ Max(rows') \in Slot
      BY <2>1, <2>2, LastInHand
  <2>4. t > Max(rows')
      BY <2>2 DEF Behind, LastSaved
  <2> DEFINE m == Max(rows')
  <2>5. m \in Nat /\ t <= m /\ t > m
      BY <2>3, <2>4
  <2> HIDE DEF m
  <2> QED
      BY <1>1, <2>5
<1>5. Behind(t)
  <2>1. CASE rows' = {}
    <3>1. rows = {}
        BY <1>2, <2>1
    <3>2. LastSaved' = LastSaved
        BY <2>1, <3>1 DEF LastSaved
    <3> QED
        BY <3>1, <3>2 DEF Behind
  <2>2. CASE rows' # {}
    <3>2. \A r \in rows' : r < t
      <4>1. t > Max(rows')
          BY <2>2 DEF Behind, LastSaved
      <4>2. Max(rows') \in Slot /\ \A r \in rows' : r <= Max(rows') /\ r \in Slot
          BY <1>2, <2>2, LastInHand
      <4> DEFINE m == Max(rows')
      <4>3. m \in Nat /\ t > m /\ \A r \in rows' : r <= m /\ r \in Nat
          BY <4>1, <4>2
      <4> HIDE DEF m
      <4> QED
          BY <1>1, <4>3
    <3>3. CASE rows = {}
      <4>1. PICK r \in rows' : r \notin rows
          BY <2>2, <3>3
      <4>2. r \in Nat /\ LastSaved <= r /\ r < t
          BY <1>2, <1>3, <3>2, <4>1 DEF New
      <4>3. t > LastSaved
          BY <1>1, <1>3, <4>2
      <4> QED
          BY <4>3 DEF Behind
    <3>4. CASE rows # {}
      <4>2. LastSaved \in rows
          BY <1>3, <3>4, LastInHand DEF LastSaved
      <4> QED
          BY <1>2, <3>2, <4>2 DEF Behind
    <3> QED
        BY <3>3, <3>4
  <2> QED
      BY <2>1, <2>2
<1> QED
    BY <1>1, <1>2, <1>4, <1>5 DEF New, Behind

\* What a run knows of the archive stays as long as the venue does.
LEMMA SameVenue ==
    ASSUME venue' = venue
    PROVE  /\ \A t, at : Settled(t, at)' <=> Settled(t, at)
           /\ \A date, span, at : FileFits(date, span, at)' <=> FileFits(date, span, at)
           /\ \A until, front, entries, at :
                HandOver(until, front, entries, at)' <=> HandOver(until, front, entries, at)
<1>1. \A t, at : Settled(t, at)' <=> Settled(t, at)
    BY DEF Settled
<1>2. \A date, span, at : FileFits(date, span, at)' <=> FileFits(date, span, at)
    BY DEF FileFits
<1>3. ASSUME NEW until, NEW front, NEW entries, NEW at
      PROVE  HandOver(until, front, entries, at)' <=> HandOver(until, front, entries, at)
  <2>1. \A d : Rows(venue.archived, d, at)' = Rows(venue.archived, d, at)
      BY DEF Rows
  <2>2. \A d, span : /\ FileFits(d, span, at)' <=> FileFits(d, span, at)
                     /\ Min(Rows(venue.archived, d, at))' = Min(Rows(venue.archived, d, at))
      BY <1>2, <2>1
  <2> QED
      BY <2>1, <2>2, Zenon DEF HandOver
<1> QED
    BY <1>1, <1>2, <1>3

\* A stretch is handed over as well when fewer entries are left.
LEMMA HandOverShrinks ==
    ASSUME NEW until, NEW front, NEW entries, NEW at, NEW fewer \in SUBSET entries,
           HandOver(until, front, entries, at)
    PROVE  HandOver(until, front, fewer, at)
<1>1. CASE until = Never /\ \A c \in entries : c.trades
    BY <1>1 DEF HandOver
<1>2. CASE ~(until = Never /\ \A c \in entries : c.trades)
  <2>1. PICK d \in Slot, span \in {MonthlySpan, Day} :
         /\ FileFits(d, span, at) /\ Rows(venue.archived, d, at) # {}
         /\ until = Min(Rows(venue.archived, d, at))
         /\ \A c \in entries : ~c.trades => c.date < front \/ d <= c.date
      BY <1>2 DEF HandOver
  <2>2. \A c \in fewer : ~c.trades => c.date < front \/ d <= c.date
      BY <2>1
  <2> QED
      BY <2>1, <2>2 DEF HandOver
<1> QED
    BY <1>1, <1>2

\* A shorter plan fits when the longer one did.
LEMMA PlanShrinks ==
    ASSUME IInv, plan' \subseteq plan, run' = run, venue' = venue
    PROVE  PlanFits'
<1>1. SUFFICES ASSUME NEW e \in plan'
               PROVE  /\ FileFits(e.date, e.span, run.now)
                      /\ e.trades => ~venue.funding /\ HandOver(e.until, e.date, plan', run.now)
    BY SameVenue DEF PlanFits
<1>2. e \in plan
    OBVIOUS
<1>3. /\ FileFits(e.date, e.span, run.now)
      /\ e.trades => ~venue.funding /\ HandOver(e.until, e.date, plan, run.now)
    BY <1>2 DEF IInv, PlanFits
<1> QED
    BY <1>3, HandOverShrinks

\* A stretch fits a shorter plan, too.
LEMMA FoldShrinks ==
    ASSUME IInv, plan' \subseteq plan, run' = run, venue' = venue,
           fold' = fold \/ fold' = None
    PROVE  FoldFits'
<1>1. SUFFICES ASSUME fold' # None
               PROVE  /\ ~venue.funding /\ HandOver(fold.until, 0, plan', run.now)
                      /\ fold.pending # None =>
                           fold.pending \in venue.traded /\ Settled(fold.pending, run.now)
    BY SameVenue DEF FoldFits
<1>2. fold # None
    BY <1>1
<1> QED
    BY <1>2, HandOverShrinks DEF IInv, FoldFits

\* A fold that read some more has the same end, and a minute in hand in progress.
LEMMA FedFits ==
    ASSUME NEW f \in Fold, NEW hand \in SUBSET Slot
    PROVE  /\ Fed(f, hand) \in Fold /\ Fed(f, hand).until = f.until
           /\ Fed(f, hand).pending = f.pending \/ Fed(f, hand).pending \in hand
<1>1. CASE hand = {}
    BY <1>1 DEF Fed
<1>2. CASE hand # {}
  <2> DEFINE m == Max(hand)
             many == Cardinality(hand) > 1
  <2>1. m \in hand /\ m \in Slot /\ m - 1 \in Int
    <3>1. m \in hand /\ m \in Slot
        BY <1>2, LastInHand
    <3>2. m \in Nat
        BY <3>1, ConstantsFit
    <3> QED
        BY <3>1, <3>2
  <2>2. many \in BOOLEAN
      OBVIOUS
  <2>3. Fed(f, hand) = [f EXCEPT !.pending = m,
                                 !.close = f.close \/ many,
                                 !.last = IF f.close \/ many THEN m - 1 ELSE f.last]
      BY <1>2 DEF Fed
  <2> HIDE DEF m, many
  <2>4. f = [from |-> f.from, until |-> f.until, last |-> f.last, close |-> f.close,
             pending |-> f.pending]
      BY DEF Fold
  <2>5. Fed(f, hand) = [from |-> f.from, until |-> f.until,
                        last |-> IF f.close \/ many THEN m - 1 ELSE f.last,
                        close |-> f.close \/ many, pending |-> m]
      BY <2>3, <2>4
  <2>6. (IF f.close \/ many THEN m - 1 ELSE f.last) \in Int
      BY <2>1 DEF Fold
  <2> QED
      BY <2>1, <2>2, <2>5, <2>6 DEF Fold
<1> QED
    BY <1>1, <1>2

-----------------------------------------------------------------------------
(* The steps of the worker *)

\* The plan still holds what is not passed, when nothing that is still behind
\* the tail is in the entry that goes.
LEMMA PlanStillHolds ==
    ASSUME IInv, pc # "idle", run' = run, venue' = venue,
           \A t \in venue.archived : Behind(t)' => Behind(t),
           NEW e, plan' = plan \ {e},
           \A t \in venue.archived :
              Behind(t)' /\ ~e.trades => t \notin Rows(venue.archived, e.date, run.now)
    PROVE  PlanHolds'
<1>1. SUFFICES ASSUME NEW t \in venue.archived, Behind(t)', Settled(t, run.now)
               PROVE  \E c \in plan' : ~c.trades /\ t \in Rows(venue.archived, c.date, run.now)
    BY SameVenue DEF PlanHolds, Rows
<1>2. PICK c \in plan : ~c.trades /\ t \in Rows(venue.archived, c.date, run.now)
    BY <1>1 DEF IInv, PlanHolds
<1>3. c # e
    BY <1>1, <1>2
<1> QED
    BY <1>2, <1>3

\* A new run plans every settled row from its resume point on.
LEMMA StartRunKeeps ==
    ASSUME IInv, StartRun
    PROVE  IInv'
<1> USE ConstantsFit
<1>1. PICK floor \in Floors :
        LET from == IF rows = {} THEN floor ELSE Max(rows)
        IN  run' = [from |-> from, now |-> clock] /\ plan' = Plan(from, clock)
    BY DEF StartRun
<1> DEFINE from == IF rows = {} THEN floor ELSE Max(rows)
<1>2. /\ pc = "idle" /\ pc' = "files" /\ rows' = rows /\ flat' = flat /\ fold' = fold
      /\ venue' = venue /\ clock' = clock /\ healed' = healed /\ faults' = faults
      /\ edits' = edits /\ since' = since /\ cutShort' = cutShort
    BY DEF StartRun, file, world
<1>3. fold = None /\ TypeOK /\ venue.archived \subseteq Slot /\ clock \in Slot
    BY <1>2, VenueFits DEF IInv, MemoryFits, TypeOK
<1>4. from \in Slot
  <2>1. rows # {} => Max(rows) \in Slot
      BY <1>3, LastInHand DEF TypeOK
  <2> QED
      BY <2>1, FloorsAssumption
<1>5. run' = [from |-> from, now |-> clock] /\ plan' = Plan(from, clock)
    BY <1>1
<1>6. LastSaved' = from
    BY <1>2, <1>5 DEF LastSaved
<1> HIDE DEF from
<1>7. run'.now = clock /\ run'.from = from
    BY <1>5
<1>8. \A e \in plan' :
        /\ e \in Entry /\ FileFits(e.date, e.span, clock)
        /\ e.trades => ~venue.funding /\ HandOver(e.until, e.date, plan', clock)
    BY <1>3, <1>4, <1>5, PlanFitsAtStart
<1>9. TypeOK'
  <2>1. run' \in [from : Slot, now : Slot] \cup {None}
      BY <1>3, <1>4, <1>5
  <2>2. plan' \subseteq Entry
      BY <1>8
  <2> QED
      BY <1>2, <1>3, <2>1, <2>2 DEF TypeOK
<1>10. MemoryFits'
  <2>1. run' # None
      BY <1>3, <1>4, <1>5, NoneAssumption
  <2> QED
      BY <1>2, <2>1 DEF MemoryFits
<1>11. SinceFits'
    BY <1>2 DEF IInv, SinceFits
<1>12. PlanFits'
    BY <1>2, <1>7, <1>8, SameVenue DEF PlanFits
<1>13. FoldFits'
    BY <1>2, <1>3 DEF FoldFits
<1>14. PlanHolds'
  <2>1. SUFFICES ASSUME NEW t \in venue.archived, Behind(t)', Settled(t, clock)
                 PROVE  \E c \in plan' : ~c.trades /\ t \in Rows(venue.archived, c.date, clock)
      BY <1>2, <1>7, SameVenue DEF PlanHolds, Rows
  <2>2. from <= t /\ from \in Nat
    <3>1. t > from \/ t = from
        BY <1>6, <2>1 DEF Behind
    <3>2. t \in Nat /\ from \in Nat
        BY <1>3, <1>4
    <3> QED
        BY <3>1, <3>2
  <2>3. PICK f \in CandleFiles(from, clock) : t \in Rows(venue.archived, f[1], clock)
      BY <1>3, <2>1, <2>2, ListingComplete
  <2> DEFINE c == [date |-> f[1], span |-> f[2], trades |-> FALSE, from |-> 0, until |-> 0]
  <2>4. c \in plan' /\ ~c.trades /\ c.date = f[1]
      BY <1>5 DEF Plan
  <2> QED
      BY <2>3, <2>4
<1>15. NoArchivedRowSkipped' /\ FlatBarsBounded'
    BY <1>2 DEF IInv, NoArchivedRowSkipped, FlatBarsBounded
<1> QED
    BY <1>9, <1>10, <1>11, <1>12, <1>13, <1>14, <1>15 DEF IInv

\* A file that counts as covered has no row behind the tail.
LEMMA SkipEntryKeeps ==
    ASSUME IInv, NEW e \in plan, SkipEntry(e)
    PROVE  IInv'
<1> USE ConstantsFit
<1>1. /\ pc = "files" /\ plan' = plan \ {e} /\ Covered(e)
      /\ rows' = rows /\ flat' = flat /\ pc' = pc /\ run' = run /\ fold' = fold
      /\ venue' = venue /\ clock' = clock /\ healed' = healed /\ faults' = faults
      /\ edits' = edits /\ since' = since /\ cutShort' = cutShort
    BY DEF SkipEntry, Current, file, world
<1>2. TypeOK'
    BY <1>1 DEF IInv, TypeOK
<1>3. MemoryFits' /\ SinceFits' /\ NoArchivedRowSkipped' /\ FlatBarsBounded'
    BY <1>1 DEF IInv, MemoryFits, SinceFits, NoArchivedRowSkipped, FlatBarsBounded
<1>4. PlanFits' /\ FoldFits'
    BY <1>1, PlanShrinks, FoldShrinks
<1>5. LastSaved' = LastSaved /\ \A t : Behind(t)' <=> Behind(t)
    BY <1>1 DEF LastSaved, Behind
<1>6. ASSUME NEW t \in venue.archived, Behind(t)', ~e.trades
      PROVE  t \notin Rows(venue.archived, e.date, run.now)
  <2>1. SUFFICES ASSUME t \in Rows(venue.archived, e.date, run.now) PROVE FALSE
      OBVIOUS
  <2>2. /\ run.now \in Nat /\ LastSaved \in Nat /\ venue.archived \in SUBSET Slot
        /\ FileFits(e.date, e.span, run.now) /\ e \in Entry
      BY <1>1, MemoryIs, VenueFits DEF IInv, TypeOK, PlanFits
  <2>3. e.date \in Nat /\ e.span \in Nat
      BY <2>2 DEF Entry
  <2>4. t \in Nat /\ t < e.date + e.span
      BY <2>1, <2>2, <2>3, RowsSettled
  <2>5. t < LastSaved
      BY <1>1, <2>2, <2>3, <2>4 DEF Covered
  <2> QED
      BY <1>5, <1>6, <2>2, <2>4, <2>5 DEF Behind
<1>7. PlanHolds'
    BY <1>1, <1>5, <1>6, PlanStillHolds
<1> QED
    BY <1>2, <1>3, <1>4, <1>7 DEF IInv

\* The last rows of a stretch reach the file before the candle file behind it.
LEMMA StretchEndsKeeps ==
    ASSUME IInv, StretchEnds
    PROVE  IInv'
<1> USE ConstantsFit
<1> DEFINE new == Clipped(fold, FinishBars(fold))
<1>1. /\ Ends /\ Persist(new) /\ fold' = None
      /\ pc' = pc /\ run' = run /\ plan' = plan
      /\ venue' = venue /\ clock' = clock /\ healed' = healed /\ faults' = faults
      /\ edits' = edits /\ cutShort' = cutShort
    BY DEF StretchEnds, world
<1>2. pc = "files" /\ fold # None /\ venue.archived \subseteq Slot
    BY <1>1, VenueFits DEF Ends, IInv, TypeOK
<1>3. Sound(new) /\ Bounded(new)
    BY <1>1, EndSound
<1> HIDE DEF new
<1>4. /\ rows' \subseteq Slot /\ flat' \subseteq rows' /\ since' \in Slot \cup {None}
      /\ SinceFits' /\ NoArchivedRowSkipped' /\ FlatBarsBounded'
  <2>1. AppendUpTo(new, Horizon) /\ Horizon \in Slot /\ pc # "idle"
      BY <1>1, <1>2 DEF Persist, Slot
  <2> QED
      BY <1>1, <1>3, <2>1, AppendKeeps
<1>5. TypeOK' /\ MemoryFits'
    BY <1>1, <1>2, <1>4 DEF IInv, TypeOK, MemoryFits
<1>6. PlanFits' /\ FoldFits'
    BY <1>1, PlanShrinks, FoldShrinks
<1>7. PlanHolds'
  <2>1. \A t \in venue.archived : Behind(t)' => Behind(t)
      BY <1>1, <1>2, <1>3, BehindAfter
  <2>2. SUFFICES ASSUME NEW t \in venue.archived, Behind(t)', Settled(t, run.now)
                 PROVE  \E c \in plan : ~c.trades /\ t \in Rows(venue.archived, c.date, run.now)
      BY <1>1, SameVenue DEF PlanHolds, Rows
  <2> QED
      BY <1>2, <2>1, <2>2 DEF IInv, PlanHolds
<1> QED
    BY <1>4, <1>5, <1>6, <1>7 DEF IInv

\* A folded trade file leaves the candle entries as they are.
LEMMA FoldTradesKeeps ==
    ASSUME IInv, NEW e \in plan, FoldTrades(e)
    PROVE  IInv'
<1> USE ConstantsFit
<1> DEFINE f == Active(e)
           hand == HandAt(e)
           new == Clipped(f, FeedBars(f, hand))
<1>1. /\ Folds(e) /\ Persist(new) /\ fold' = Fed(f, hand) /\ plan' = plan \ {e}
      /\ pc' = pc /\ run' = run
      /\ venue' = venue /\ clock' = clock /\ healed' = healed /\ faults' = faults
      /\ edits' = edits /\ cutShort' = cutShort
    BY DEF FoldTrades, world
<1>2. /\ pc = "files" /\ ~venue.funding /\ f \in Fold
      /\ HandOver(f.until, 0, plan, run.now)
      /\ f.pending # None => f.pending \in venue.traded /\ Settled(f.pending, run.now)
    BY <1>1, ActiveFits
<1>3. hand \in SUBSET Slot /\ \A t \in hand : t \in venue.traded /\ Settled(t, run.now)
    BY <1>1, HandFits
<1>4. Sound(new) /\ Bounded(new)
    BY <1>1, FoldedSound
<1>5. e.trades
    BY <1>1 DEF Folds
<1> HIDE DEF new, f, hand
<1>6. /\ rows' \subseteq Slot /\ flat' \subseteq rows' /\ since' \in Slot \cup {None}
      /\ SinceFits' /\ NoArchivedRowSkipped' /\ FlatBarsBounded'
  <2>1. AppendUpTo(new, Horizon) /\ Horizon \in Slot /\ pc # "idle"
      BY <1>1, <1>2 DEF Persist, Slot
  <2> QED
      BY <1>1, <1>4, <2>1, AppendKeeps
<1>7. /\ fold' \in Fold /\ fold'.until = f.until
      /\ fold'.pending = f.pending \/ fold'.pending \in hand
    BY <1>1, <1>2, <1>3, FedFits
<1>8. TypeOK' /\ MemoryFits'
    BY <1>1, <1>2, <1>6, <1>7 DEF IInv, TypeOK, MemoryFits
<1>9. PlanFits'
    BY <1>1, PlanShrinks
<1>10. FoldFits'
  <2>1. HandOver(fold'.until, 0, plan', run.now)
      BY <1>1, <1>2, <1>7, HandOverShrinks
  <2>2. fold'.pending # None =>
          fold'.pending \in venue.traded /\ Settled(fold'.pending, run.now)
      BY <1>2, <1>3, <1>7
  <2> QED
      BY <1>1, <1>2, <2>1, <2>2, SameVenue DEF FoldFits
<1>11. PlanHolds'
  <2>1. \A t \in venue.archived : Behind(t)' => Behind(t)
    <3>1. venue.archived \subseteq Slot
        BY VenueFits DEF IInv, TypeOK
    <3> QED
        BY <1>1, <1>2, <1>4, <3>1, BehindAfter
  <2> QED
      BY <1>1, <1>2, <1>5, <2>1, PlanStillHolds
<1> QED
    BY <1>6, <1>8, <1>9, <1>10, <1>11 DEF IInv

\* A candle file that is appended is passed as a whole.
LEMMA AppendCandlesKeeps ==
    ASSUME IInv, NEW e \in plan, AppendCandles(e)
    PROVE  IInv'
<1> USE ConstantsFit
<1> DEFINE new == CandlesAt(e)
<1>1. /\ Takes(e) /\ Persist(new) /\ plan' = plan \ {e}
      /\ pc' = pc /\ run' = run /\ fold' = fold
      /\ venue' = venue /\ clock' = clock /\ healed' = healed /\ faults' = faults
      /\ edits' = edits /\ cutShort' = cutShort
    BY DEF AppendCandles, world
<1>2. pc = "files" /\ venue.archived \subseteq Slot
    BY <1>1, VenueFits DEF Takes, Current, IInv, TypeOK
<1>3. Sound(new) /\ Bounded(new)
    BY <1>1, CandlesSound
<1>4. new.bars = Rows(venue.archived, e.date, run.now)
    BY DEF CandlesAt
<1> HIDE DEF new
<1>5. /\ rows' \subseteq Slot /\ flat' \subseteq rows' /\ since' \in Slot \cup {None}
      /\ SinceFits' /\ NoArchivedRowSkipped' /\ FlatBarsBounded'
  <2>1. AppendUpTo(new, Horizon) /\ Horizon \in Slot /\ pc # "idle"
      BY <1>1, <1>2 DEF Persist, Slot
  <2> QED
      BY <1>1, <1>3, <2>1, AppendKeeps
<1>6. TypeOK' /\ MemoryFits'
    BY <1>1, <1>2, <1>5 DEF IInv, TypeOK, MemoryFits
<1>7. PlanFits' /\ FoldFits'
    BY <1>1, PlanShrinks, FoldShrinks
<1>8. PlanHolds'
  <2>1. \A t \in venue.archived : Behind(t)' => Behind(t) /\ t \notin new.bars
      BY <1>1, <1>2, <1>3, BehindAfter
  <2> QED
      BY <1>1, <1>2, <1>4, <2>1, PlanStillHolds
<1> QED
    BY <1>5, <1>6, <1>7, <1>8 DEF IInv

\* When the plan is empty, only rows that are not settled are behind the tail.
LEMMA FilesDoneKeeps ==
    ASSUME IInv, FilesDone
    PROVE  IInv'
<1>1. /\ pc = "files" /\ pc' = "rest" /\ plan = {} /\ fold = None
      /\ rows' = rows /\ flat' = flat /\ run' = run /\ plan' = plan /\ fold' = fold
      /\ venue' = venue /\ clock' = clock /\ healed' = healed /\ faults' = faults
      /\ edits' = edits /\ since' = since /\ cutShort' = cutShort
    BY DEF FilesDone, Goto, file, world
<1>2. TypeOK'
    BY <1>1 DEF IInv, TypeOK
<1>3. MemoryFits' /\ SinceFits' /\ NoArchivedRowSkipped' /\ FlatBarsBounded'
    BY <1>1 DEF IInv, MemoryFits, SinceFits, NoArchivedRowSkipped, FlatBarsBounded
<1>4. PlanFits' /\ FoldFits'
    BY <1>1 DEF PlanFits, FoldFits
<1>5. PlanHolds'
  <2>1. \A t : Behind(t)' <=> Behind(t)
      BY <1>1 DEF LastSaved, Behind
  <2> QED
      BY <1>1, <2>1, SameVenue DEF IInv, PlanHolds
<1> QED
    BY <1>2, <1>3, <1>4, <1>5 DEF IInv

\* When a run ends nothing of it is left but the file.
LEMMA FinishKeeps ==
    ASSUME IInv, Finish, venue' = venue, clock' = clock, healed' = healed, edits' = edits,
           faults' \in 0 .. MaxFaults, cutShort' \in BOOLEAN,
           rows' \subseteq Slot, flat' \subseteq rows', since' \in Slot \cup {None},
           SinceFits', NoArchivedRowSkipped', FlatBarsBounded'
    PROVE  IInv'
<1>1. pc' = "idle" /\ run' = None /\ plan' = {} /\ fold' = None
    BY DEF Finish
<1>2. TypeOK'
    BY <1>1 DEF IInv, TypeOK
<1>3. MemoryFits' /\ PlanFits' /\ FoldFits' /\ PlanHolds'
    BY <1>1 DEF MemoryFits, PlanFits, FoldFits, PlanHolds
<1> QED
    BY <1>2, <1>3 DEF IInv

\* REST ends a run, and its rows are sound.
LEMMA AppendRestKeeps ==
    ASSUME IInv, AppendRest
    PROVE  IInv'
<1>1. /\ pc = "rest" /\ Persist(Recent) /\ Finish /\ (cutShort' = (cutShort \/ RestPasses))
      /\ venue' = venue /\ clock' = clock /\ healed' = healed /\ faults' = faults
      /\ edits' = edits
    BY DEF AppendRest, world
<1>2. Sound(Recent) /\ Bounded(Recent)
    BY <1>1, RecentSound
<1>3. /\ rows' \subseteq Slot /\ flat' \subseteq rows' /\ since' \in Slot \cup {None}
      /\ SinceFits' /\ NoArchivedRowSkipped' /\ FlatBarsBounded'
  <2>1. AppendUpTo(Recent, Horizon) /\ Horizon \in Slot /\ pc # "idle"
      BY <1>1, ConstantsFit DEF Persist, Slot
  <2> QED
      BY <1>1, <1>2, <2>1, AppendKeeps
<1>4. faults' \in 0 .. MaxFaults
    BY <1>1 DEF IInv, TypeOK
<1>5. cutShort' \in BOOLEAN
    BY <1>1
<1> QED
    BY <1>1, <1>3, <1>4, <1>5, FinishKeeps

\* A run that fails leaves the file as it was.
LEMMA RunFailsKeeps ==
    ASSUME IInv, RunFails
    PROVE  IInv'
<1>1. /\ Finish /\ (cutShort' = (cutShort \/ InStretch))
      /\ rows' = rows /\ flat' = flat /\ since' = since
      /\ venue' = venue /\ clock' = clock /\ healed' = healed /\ faults' = faults
      /\ edits' = edits
    BY DEF RunFails, file, world
<1>2. /\ rows' \subseteq Slot /\ flat' \subseteq rows' /\ since' \in Slot \cup {None}
      /\ faults' \in 0 .. MaxFaults
    BY <1>1 DEF IInv, TypeOK
<1>3. SinceFits' /\ NoArchivedRowSkipped' /\ FlatBarsBounded'
    BY <1>1 DEF IInv, SinceFits, NoArchivedRowSkipped, FlatBarsBounded
<1>4. cutShort' \in BOOLEAN
    BY <1>1
<1> QED
    BY <1>1, <1>2, <1>3, <1>4, FinishKeeps

\* A cut append stores the oldest rows of a sound batch.
LEMMA CutAppendKeeps ==
    ASSUME IInv, CutAppend
    PROVE  IInv'
<1>1. /\ faults < MaxFaults /\ faults' = faults + 1 /\ Finish
      /\ (cutShort' = (cutShort \/ InStretch \/ RestPasses))
      /\ venue' = venue /\ clock' = clock /\ healed' = healed /\ edits' = edits
    BY DEF CutAppend
<1>2. PICK new \in InFlight, hi \in Slot : AppendUpTo(new, hi)
    BY DEF CutAppend
<1>3. /\ rows' \subseteq Slot /\ flat' \subseteq rows' /\ since' \in Slot \cup {None}
      /\ SinceFits' /\ NoArchivedRowSkipped' /\ FlatBarsBounded'
    BY <1>1, <1>2, InFlightSound, AppendKeeps
<1>4. faults' \in 0 .. MaxFaults
  <2>1. faults \in 0 .. MaxFaults /\ MaxFaults \in Nat
      BY BoundAssumption DEF IInv, TypeOK
  <2> QED
      BY <1>1, <2>1
<1>5. cutShort' \in BOOLEAN
    BY <1>1
<1> QED
    BY <1>1, <1>3, <1>4, <1>5, FinishKeeps

\* A deleted file may begin anew at another floor.
LEMMA DeleteCsvKeeps ==
    ASSUME IInv, DeleteCsv
    PROVE  IInv'
<1>1. /\ pc = "idle" /\ edits < MaxEdits /\ edits' = edits + 1
      /\ rows' = {} /\ flat' = {} /\ since' = None /\ cutShort' = FALSE
      /\ pc' = pc /\ run' = run /\ plan' = plan /\ fold' = fold
      /\ venue' = venue /\ clock' = clock /\ healed' = healed /\ faults' = faults
    BY DEF DeleteCsv, memory
<1>2. edits' \in 0 .. MaxEdits
  <2>1. edits \in 0 .. MaxEdits /\ MaxEdits \in Nat
      BY BoundAssumption DEF IInv, TypeOK
  <2> QED
      BY <1>1, <2>1
<1>3. TypeOK'
    BY <1>1, <1>2 DEF IInv, TypeOK
<1>4. plan = {} /\ fold = None
    BY <1>1 DEF IInv, MemoryFits
<1>5. MemoryFits' /\ SinceFits' /\ PlanFits' /\ FoldFits' /\ PlanHolds'
    BY <1>1, <1>4 DEF MemoryFits, SinceFits, PlanFits, FoldFits, PlanHolds
<1>6. NoArchivedRowSkipped' /\ FlatBarsBounded'
    BY <1>1 DEF NoArchivedRowSkipped, FlatBarsBounded
<1> QED
    BY <1>3, <1>5, <1>6 DEF IInv

\* Time, the network and stuttering touch neither the file nor the run.
LEMMA WorldKeeps ==
    ASSUME IInv, UNCHANGED <<file, memory, venue, faults, edits, since, cutShort>>,
           clock' \in Slot, healed' \in BOOLEAN
    PROVE  IInv'
<1>1. /\ rows' = rows /\ flat' = flat /\ pc' = pc /\ run' = run /\ plan' = plan
      /\ fold' = fold /\ venue' = venue /\ faults' = faults /\ edits' = edits
      /\ since' = since /\ cutShort' = cutShort
    BY DEF file, memory
<1>2. TypeOK'
    BY <1>1 DEF IInv, TypeOK
<1>3. MemoryFits' /\ SinceFits' /\ NoArchivedRowSkipped' /\ FlatBarsBounded'
    BY <1>1 DEF IInv, MemoryFits, SinceFits, NoArchivedRowSkipped, FlatBarsBounded
<1>4. PlanFits' /\ FoldFits'
    BY <1>1, PlanShrinks, FoldShrinks
<1>5. PlanHolds'
  <2>1. \A t : Behind(t)' <=> Behind(t)
      BY <1>1 DEF LastSaved, Behind
  <2>2. SUFFICES ASSUME pc # "idle", NEW t \in venue.archived, Behind(t), Settled(t, run.now)
                 PROVE  \E c \in plan : ~c.trades /\ t \in Rows(venue.archived, c.date, run.now)
      BY <1>1, <2>1, SameVenue DEF PlanHolds, Rows
  <2> QED
      BY <2>2 DEF IInv, PlanHolds
<1> QED
    BY <1>2, <1>3, <1>4, <1>5 DEF IInv

-----------------------------------------------------------------------------
(* The theorems *)

\* The invariant holds at the start,
LEMMA InitInvariant == Init => IInv
<1>1. SUFFICES ASSUME Init PROVE IInv
    OBVIOUS
<1>2. TypeOK
  <2>1. FirstClock \in Slot /\ 0 \in 0 .. MaxFaults /\ 0 \in 0 .. MaxEdits
      BY FloorsAssumption, BoundAssumption
  <2> QED
      BY <1>1, <2>1 DEF Init, TypeOK
<1>3. MemoryFits /\ SinceFits /\ PlanFits /\ FoldFits /\ PlanHolds
    BY <1>1 DEF Init, MemoryFits, SinceFits, PlanFits, FoldFits, PlanHolds
<1>4. NoArchivedRowSkipped /\ FlatBarsBounded
    BY <1>1 DEF Init, NoArchivedRowSkipped, FlatBarsBounded
<1> QED
    BY <1>2, <1>3, <1>4 DEF IInv

\* and every step keeps it.
LEMMA NextInvariant == IInv /\ [Next]_vars => IInv'
<1> SUFFICES ASSUME IInv, [Next]_vars PROVE IInv'
    OBVIOUS
<1>1. CASE StartRun
    BY <1>1, StartRunKeeps
<1>2. CASE StretchEnds
    BY <1>2, StretchEndsKeeps
<1>3. CASE FilesDone
    BY <1>3, FilesDoneKeeps
<1>4. CASE AppendRest
    BY <1>4, AppendRestKeeps
<1>5. CASE \E e \in plan : SkipEntry(e)
    BY <1>5, SkipEntryKeeps
<1>6. CASE \E e \in plan : FoldTrades(e)
    BY <1>6, FoldTradesKeeps
<1>7. CASE \E e \in plan : AppendCandles(e)
    BY <1>7, AppendCandlesKeeps
<1>8. CASE RunFails
    BY <1>8, RunFailsKeeps
<1>9. CASE CutAppend
    BY <1>9, CutAppendKeeps
<1>10. CASE DeleteCsv
    BY <1>10, DeleteCsvKeeps
<1>11. CASE Tick
  <2>1. clock' \in Slot
    <3>1. clock \in Slot /\ clock < Horizon /\ clock' = clock + 1
        BY <1>11 DEF Tick, IInv, TypeOK
    <3> QED
        BY <3>1, ConstantsFit DEF Slot
  <2>2. healed' \in BOOLEAN /\ UNCHANGED <<file, memory, venue, faults, edits, since, cutShort>>
      BY <1>11 DEF Tick, IInv, TypeOK
  <2> QED
      BY <2>1, <2>2, WorldKeeps
<1>12. CASE Heal
  <2>1. /\ clock' \in Slot /\ healed' \in BOOLEAN
        /\ UNCHANGED <<file, memory, venue, faults, edits, since, cutShort>>
      BY <1>12 DEF Heal, IInv, TypeOK
  <2> QED
      BY <2>1, WorldKeeps
<1>13. CASE UNCHANGED vars
  <2>1. /\ clock' \in Slot /\ healed' \in BOOLEAN
        /\ UNCHANGED <<file, memory, venue, faults, edits, since, cutShort>>
      BY <1>13 DEF vars, world, IInv, TypeOK
  <2> QED
      BY <2>1, WorldKeeps
<1> QED
    BY <1>1, <1>2, <1>3, <1>4, <1>5, <1>6, <1>7, <1>8, <1>9, <1>10, <1>11, <1>12, <1>13
    DEF Next, Worker

\* The inductive invariant holds in every state of an OKX file: the plan of a
\* run still has every settled row of the archive behind the tail.
THEOREM Invariance == Spec => []IInv
<1>1. Init => IInv
    BY InitInvariant
<1>2. IInv /\ [Next]_vars => IInv'
    BY NextInvariant
<1> QED
    BY <1>1, <1>2, PTL DEF Spec

\* The variables of an OKX file keep their types over any number of runs.
THEOREM TypeCorrectness == Spec => []TypeOK
<1>1. IInv => TypeOK
    BY DEF IInv
<1> QED
    BY <1>1, Invariance, PTL

\* No row that the candle or funding archive has between the floor of a file
\* and its tail is ever missing from it, for every calendar, lag of the archive
\* and venue within the assumptions, and however runs fail or are cut short
\* (okx_downloader.cpp:111-114).
THEOREM ArchiveIsStored == Spec => []NoArchivedRowSkipped
<1>1. IInv => NoArchivedRowSkipped
    BY DEF IInv
<1> QED
    BY <1>1, Invariance, PTL

\* Behind every bar that was filled in as a minute without a trade the venue has
\* a trade or a candle (okx_downloader.cpp:919).
THEOREM FlatBarsEnd == Spec => []FlatBarsBounded
<1>1. IInv => FlatBarsBounded
    BY DEF IInv
<1> QED
    BY <1>1, Invariance, PTL

-----------------------------------------------------------------------------
(* What a stretch leaves: the second invariant *)

\* The floor of the file, or of the file that the run will begin.
Begin == IF rows = {} THEN run.from ELSE since

KnownTime == FirstClock <= clock /\ (pc # "idle" => FirstClock <= run.now)

\* What StretchFolded is about.
Whole == ~cutShort /\ ~venue.funding

\* Every minute of a stretch up to the tail is there, the tail included.
Folded ==
    Whole /\ rows # {} =>
      \A t \in venue.traded :
        Foldable(t, since) /\ t <= Max(rows) => t \in rows \ flat

\* The trade file of this entry has the minute t of its stretch.
InEntry(t, e) ==
    /\ e.trades /\ e.from <= t /\ t < e.until
    /\ t \in Rows(venue.traded, e.date, run.now)

\* The minute t is in progress.
InFold(t) == fold # None /\ fold.pending = t /\ fold.from <= t /\ t < fold.until

\* A candle file is still to come behind t, or the stretch is open.
Awaited(t) ==
    \/ \E c \in plan : ~c.trades /\ t < c.date
    \/ \E e \in plan : e.trades /\ e.until = Never
    \/ fold # None /\ fold.until = Never

TradesPlanned ==
    pc = "files" /\ Whole =>
      \A t \in venue.traded :
        Foldable(t, Begin) /\ t > LastSaved /\ Settled(t, run.now) /\ Awaited(t) =>
          InFold(t) \/ \E e \in plan : InEntry(t, e)

\* Entries of the plan: one for a period, and the stretches one after another.
SameStretch(d, e) == d.from = e.from /\ d.until = e.until

EntriesApart ==
    \A d, e \in plan :
      /\ d.trades = e.trades /\ d.date = e.date => d = e
      /\ d.trades => run.from <= d.from /\ d.from < d.until
      /\ d.trades /\ e.trades /\ d.date <= e.date => SameStretch(d, e) \/ d.until <= e.from

FoldApart ==
    fold # None =>
      /\ run.from <= fold.from /\ fold.from < fold.until
      /\ \A e \in plan : e.trades =>
           /\ SameStretch(fold, e) \/ fold.until <= e.from
           /\ fold.pending # None => fold.pending < e.date
           /\ fold.last <= LastSaved \/ fold.last < e.date
      /\ rows # {} => fold.close
      /\ fold.pending # None => fold.last < fold.pending

\* What the fold closed is stored, as far as it lies in the stretch.
CaughtUp(f) ==
    f.close =>
      \/ f.last < f.from
      \/ rows = {} /\ f.until <= f.last
      \/ rows # {} /\ (f.last <= Max(rows) \/ f.until - 1 <= Max(rows))

FoldCaughtUp == fold # None => CaughtUp(fold)

\* The archive has something in the month after t.
Near(t) == venue.archived \cap (MonthStart(t) + Month .. MonthStart(t) + 2 * Month - 1) # {}

\* The tail does not stand inside the last day of a stretch, or the stretch is
\* still being folded.
DayDone ==
    \A t \in venue.traded :
      Foldable(t, since) /\ t > Max(rows) /\ Near(t) => DayStart(t) > Max(rows)

DayInProgress ==
    /\ fold # None /\ Max(rows) < fold.until
    /\ fold.until = Never =>
         fold.pending # None /\ Max(rows) < fold.pending /\ fold.from <= fold.pending

DaysWhole == Whole /\ rows # {} => DayDone \/ DayInProgress

SInv ==
    /\ KnownTime /\ EntriesApart /\ FoldApart /\ FoldCaughtUp
    /\ Folded /\ TradesPlanned /\ DaysWhole

-----------------------------------------------------------------------------
(* Candle files and the stretches between them *)

\* The next period starts where one ends.
LEMMA NextStart ==
    ASSUME NEW P \in Nat \ {0}, NEW d \in Nat, d % P = 0
    PROVE  d + P \in Nat /\ (d + P) % P = 0
<1> DEFINE q == d \div P
<1>1. q \in Nat /\ d = P * q
    OBVIOUS
<1> HIDE DEF q
<1>2. d + P = P * (q + 1)
    BY <1>1
<1>3. (P * (q + 1)) % P = 0
    BY <1>1
<1> QED
    BY <1>2, <1>3

\* The rows of a listed file lie in front of the next one.
LEMMA RowsBefore ==
    ASSUME NEW at \in Nat, NEW d \in Nat, NEW span, FileFits(d, span, at),
           NEW e \in Nat, NEW reach, FileFits(e, reach, at), d < e,
           NEW set \in SUBSET Slot, NEW t \in Rows(set, d, at)
    PROVE  t < e
<1> USE ConstantsFit
<1>1. MonthStart(at) \in Nat /\ MonthStart(at) % Month = 0 /\ t \in Nat
    BY StartsFit DEF Rows
<1>2. CASE d < MonthStart(at)
  <2>1. d % Month = 0 /\ t < d + Month
      BY <1>1, <1>2 DEF FileFits, Rows
  <2>2. CASE e < MonthStart(at)
    <3>1. e % Month = 0
        BY <1>1, <2>2 DEF FileFits
    <3>2. d + Month <= e
        BY <2>1, <3>1, StartsApart
    <3> QED
        BY <1>1, <2>1, <3>2
  <2>3. CASE MonthStart(at) <= e
    <3>1. d + Month <= MonthStart(at)
        BY <1>1, <1>2, <2>1, StartsApart
    <3> QED
        BY <1>1, <2>1, <2>3, <3>1
  <2> QED
      BY <1>1, <2>2, <2>3
<1>3. CASE MonthStart(at) <= d
  <2>1. ~(d < MonthStart(at)) /\ ~(e < MonthStart(at))
      BY <1>1, <1>3
  <2>2. d % Day = 0 /\ e % Day = 0 /\ t < d + Day
      BY <2>1 DEF FileFits, Rows
  <2>3. d + Day <= e
      BY <2>2, StartsApart
  <2> QED
      BY <1>1, <2>2, <2>3
<1> QED
    BY <1>1, <1>2, <1>3

\* From the start of a file up to one of its rows everything is of one month.
LEMMA SameMonth ==
    ASSUME NEW at \in Nat, NEW date \in Nat, NEW span, FileFits(date, span, at),
           NEW set \in SUBSET Slot, NEW u \in Rows(set, date, at),
           NEW t \in Nat, date <= t, t <= u
    PROVE  MonthStart(t) = MonthStart(u)
<1> USE ConstantsFit
<1>1. MonthStart(at) \in Nat /\ u \in Nat /\ date <= u
    BY StartsFit DEF Rows
<1>2. CASE date < MonthStart(at)
  <2>1. date % Month = 0 /\ u < date + Month
      BY <1>1, <1>2 DEF FileFits, Rows
  <2>2. t < date + Month
      BY <1>1, <2>1
  <2> QED
      BY <1>1, <2>1, <2>2, FloorIs DEF MonthStart
<1>3. CASE ~(date < MonthStart(at))
  <2>1. date % Day = 0 /\ u < date + Day
      BY <1>3 DEF FileFits, Rows
  <2>2. DayStart(u) = date
      BY <1>1, <2>1, FloorIs DEF DayStart
  <2>3. /\ MonthStart(u) \in Nat /\ MonthStart(u) <= u /\ u < MonthStart(u) + Month
        /\ MonthStart(u) % Month = 0
      BY <1>1, StartsFit
  <2>4. MonthStart(u) <= DayStart(u)
      BY <1>1, <2>3, MonthsAreDays, FloorIsLast DEF DayStart
  <2>5. MonthStart(u) <= t /\ t < MonthStart(u) + Month
      BY <1>1, <2>2, <2>3, <2>4
  <2>6. t - (t % Month) = MonthStart(u)
      BY <2>3, <2>5, FloorIs
  <2> QED
      BY <2>6 DEF MonthStart
<1> QED
    BY <1>2, <1>3

\* The archive has nothing near a minute that is to be folded.
LEMMA FoldableApart ==
    ASSUME NEW t \in Nat, NEW floor \in Nat, Foldable(t, floor),
           NEW a \in venue.archived, a \in Nat
    PROVE  /\ a < MonthStart(t) - Month \/ MonthStart(t) + Month <= a
           /\ MonthStart(a) # MonthStart(t)
<1>1. MonthStart(t) \in Nat /\ Month \in Nat
    BY StartsFit, ConstantsFit
<1>2. a \notin MonthStart(t) - Month .. MonthStart(t) + Month - 1
    BY DEF Foldable
<1>3. a < MonthStart(t) - Month \/ MonthStart(t) + Month <= a
    BY <1>1, <1>2
<1>4. MonthStart(a) <= a /\ a < MonthStart(a) + Month
    BY StartsFit
<1> QED
    BY <1>1, <1>3, <1>4

\* A candle file lies a month and more away from it: it begins behind the month,
\* or ends before it, whatever span it is given.
LEMMA CandleApart ==
    ASSUME venue \in Venues, NEW at \in Nat, NEW date \in Nat, NEW span,
           FileFits(date, span, at), Rows(venue.archived, date, at) # {},
           NEW t \in Nat, NEW floor \in Nat, Foldable(t, floor)
    PROVE  /\ t < date => MonthStart(t) + Month <= date
           /\ date <= t => date + span <= MonthStart(t)
<1> USE ConstantsFit
<1>1. PICK a \in Rows(venue.archived, date, at) : TRUE
    OBVIOUS
<1>2. venue.archived \in SUBSET Slot
    BY VenueFits
<1>3. a \in venue.archived /\ a \in Nat /\ date <= a
    BY <1>2 DEF Rows
<1>4. MonthStart(date) = MonthStart(a)
    BY <1>2, <1>3, SameMonth
<1> DEFINE month == MonthStart(t)
           start == MonthStart(date)
<1>5. /\ month \in Nat /\ month <= t /\ t < month + Month /\ month % Month = 0
      /\ start \in Nat /\ start <= date /\ date < start + Month /\ start % Month = 0
      /\ start <= a /\ a < start + Month
    BY <1>3, <1>4, StartsFit
<1>6. /\ a < month - Month \/ month + Month <= a
      /\ start # month
    BY <1>3, <1>4, FoldableApart
<1> HIDE DEF month, start
<1>7. ASSUME t < date PROVE month + Month <= date
  <2>1. SUFFICES ASSUME date < month + Month PROVE FALSE
      BY <1>5
  <2>2. month <= date
      BY <1>5, <1>7
  <2>3. date - (date % Month) = month
      BY <1>5, <2>1, <2>2, FloorIs
  <2> QED
      BY <1>6, <2>3 DEF MonthStart, start
<1>8. ASSUME date <= t PROVE date + span <= month
  <2>1. start <= month
    <3>1. start <= t
        BY <1>5, <1>8
    <3>2. start <= t - (t % Month)
        BY <1>5, <3>1, FloorIsLast
    <3> QED
        BY <3>2 DEF month, MonthStart
  <2>2. start + Month <= month
    <3>1. start < month /\ start % Month = 0 /\ month % Month = 0
        BY <1>5, <1>6, <2>1
    <3> QED
        BY <1>5, <3>1, StartsApart
  <2>3. start + Month # month
    <3>1. start <= a /\ a < start + Month /\ start \in Nat /\ month \in Nat
        BY <1>5
    <3> QED
        BY <1>3, <1>6, <3>1
  <2>4. start + Month \in Nat /\ (start + Month) % Month = 0
      BY <1>5, NextStart
  <2>5. (start + Month) + Month <= month
    <3>1. start + Month < month /\ month \in Nat /\ month % Month = 0
        BY <1>5, <2>2, <2>3
    <3> QED
        BY <2>4, <3>1, StartsApart
  <2>6. span = Day \/ (span = MonthlySpan /\ date % Month = 0)
      BY DEF FileFits
  <2>7. CASE span = Day
      BY <1>5, <2>5, <2>7
  <2>8. CASE span = MonthlySpan /\ date % Month = 0
    <3>1. start = date
        BY <2>8 DEF start, MonthStart
    <3>2. MonthlySpan <= 2 * Month
        BY CalendarAssumption
    <3> QED
        BY <1>5, <2>5, <2>8, <3>1, <3>2
  <2> QED
      BY <2>6, <2>7, <2>8
<1> QED
    BY <1>7, <1>8 DEF month

\* A stretch is planned only where there is room, with files that begin in it.
LEMMA EntryInside ==
    ASSUME NEW lo \in Nat, NEW hi \in Nat, NEW until, NEW at,
           NEW e \in TradeEntries(lo, hi, until, at)
    PROVE  lo < hi /\ e.date < hi
<1>1. ~(hi - lo < Day) /\ Day \in Nat \ {0}
    BY ConstantsFit DEF TradeEntries
<1>2. PICK f \in Files(venue.traded, lo, hi, MonthStart(at)) :
         /\ f[1] < hi
         /\ e = [date |-> f[1], span |-> f[2], trades |-> TRUE, from |-> lo, until |-> until]
    BY DEF TradeEntries
<1> QED
    BY <1>1, <1>2

\* The stretch in front of a candle file: it begins behind the files before that
\* one and ends at its first row.
LEMMA StretchIs ==
    ASSUME TypeOK, ~venue.funding, NEW from \in Slot, NEW g \in CandleFiles(from, clock),
           NEW e \in StretchBefore(g[1], CandleFiles(from, clock), from, clock)
    PROVE  /\ e = [date |-> e.date, span |-> e.span, trades |-> TRUE, from |-> e.from,
                   until |-> e.until]
           /\ e.date \in Slot /\ e.span \in {MonthlySpan, Day}
           /\ FileFits(e.date, e.span, clock)
           /\ e.from = Cursor(CandleFiles(from, clock), g[1], from)
           /\ e.until = Min(Rows(venue.archived, g[1], clock))
           /\ e.until \in Rows(venue.archived, g[1], clock)
           /\ e.from \in Nat /\ e.until \in Nat
           /\ from <= e.from /\ e.from < e.until /\ e.date < e.until
           /\ \A h \in CandleFiles(from, clock) :
                h[1] < g[1] => h[1] + h[2] <= e.from /\ h[1] < e.date
<1> USE ConstantsFit
<1> DEFINE candles == CandleFiles(from, clock)
           cursor == Cursor(candles, g[1], from)
           handOver == Min(Rows(venue.archived, g[1], clock))
<1>1. clock \in Nat /\ venue \in Venues /\ from \in Nat
    BY DEF TypeOK
<1>2. \A h \in candles : /\ h = <<h[1], h[2]>> /\ h[1] \in Slot /\ h[2] \in {MonthlySpan, Day}
                         /\ FileFits(h[1], h[2], clock)
                         /\ Rows(venue.archived, h[1], clock) # {}
    BY <1>1, CandleFilesFit
<1>3. e \in TradeEntries(cursor, handOver, handOver, clock)
    BY DEF StretchBefore
<1>4. candles \in SUBSET (Slot \X {MonthlySpan, Day}) /\ g \in candles
    BY <1>2
<1> HIDE DEF candles
<1>5. /\ cursor \in Nat /\ from <= cursor
      /\ \A h \in candles : h[1] < g[1] => h[1] + h[2] <= cursor
    BY <1>2, <1>4, CursorFits
<1>6. handOver \in Rows(venue.archived, g[1], clock) /\ handOver \in Nat
    BY <1>1, <1>2, <1>4, FirstRow
<1> HIDE DEF cursor, handOver
<1>7. /\ e = [date |-> e.date, span |-> e.span, trades |-> TRUE, from |-> cursor,
              until |-> handOver]
      /\ e.date \in Slot /\ e.span \in {MonthlySpan, Day}
      /\ FileFits(e.date, e.span, clock)
      /\ \A date \in Slot, span \in {MonthlySpan, Day} :
           FileFits(date, span, clock) /\ date + span <= cursor => date < e.date
    BY <1>3, <1>5, <1>6, TradesBehind
<1>8. cursor < handOver /\ e.date < handOver
    BY <1>3, <1>5, <1>6, EntryInside
<1>9. e.from = cursor /\ e.until = handOver
    BY <1>7
<1>10. \A h \in candles : h[1] < g[1] => h[1] + h[2] <= cursor /\ h[1] < e.date
    BY <1>2, <1>5, <1>7
<1> QED
    BY <1>5, <1>6, <1>7, <1>8, <1>9, <1>10 DEF cursor, handOver, candles

\* Two files of one date are taken to cover the same span.
LEMMA SpanIs ==
    ASSUME NEW at \in Nat, NEW date \in Nat, NEW s, NEW z,
           FileFits(date, s, at), FileFits(date, z, at)
    PROVE  s = z
<1>1. MonthStart(at) \in Nat
    BY StartsFit
<1> QED
    BY <1>1 DEF FileFits

\* Stretches lie one after another, as their trade files do.
LEMMA StretchesApart ==
    ASSUME TypeOK, ~venue.funding, NEW from \in Slot,
           NEW g \in CandleFiles(from, clock), NEW h \in CandleFiles(from, clock),
           NEW d \in StretchBefore(g[1], CandleFiles(from, clock), from, clock),
           NEW e \in StretchBefore(h[1], CandleFiles(from, clock), from, clock),
           g[1] < h[1]
    PROVE  d.until <= e.from /\ d.date < e.date
<1> USE ConstantsFit
<1>1. clock \in Nat /\ venue.archived \in SUBSET Slot
    BY VenueFits DEF TypeOK
<1>2. g[1] \in Nat /\ g[2] \in Nat /\ FileFits(g[1], g[2], clock)
  <2>1. g[1] \in Slot /\ g[2] \in {MonthlySpan, Day} /\ FileFits(g[1], g[2], clock)
      BY <1>1, CandleFilesFit
  <2> QED
      BY <2>1
<1>3. /\ d.until \in Rows(venue.archived, g[1], clock) /\ d.until \in Nat
      /\ d.date < d.until /\ d.date \in Nat
  <2>1. d.date \in Slot /\ d.until \in Rows(venue.archived, g[1], clock)
        /\ d.until \in Nat /\ d.date < d.until
      BY StretchIs
  <2> QED
      BY <2>1
<1>4. /\ g[1] + g[2] <= e.from /\ g[1] < e.date /\ e.from \in Nat /\ e.date \in Nat
      /\ FileFits(e.date, e.span, clock)
  <2>1. /\ \A c \in CandleFiles(from, clock) :
             c[1] < h[1] => c[1] + c[2] <= e.from /\ c[1] < e.date
        /\ e.from \in Nat /\ e.date \in Slot /\ FileFits(e.date, e.span, clock)
      BY StretchIs
  <2> QED
      BY <2>1
<1>5. d.until < g[1] + g[2]
    BY <1>1, <1>2, <1>3, RowsSettled
<1>6. d.until < e.date
    BY <1>1, <1>2, <1>3, <1>4, RowsBefore
<1> QED
    BY <1>2, <1>3, <1>4, <1>5, <1>6

\* A trade entry is of the one open stretch or of the one in front of a candle file.
LEMMA TradePlanned ==
    ASSUME TypeOK, NEW from \in Slot, NEW e \in Plan(from, clock), e.trades
    PROVE  /\ ~venue.funding
           /\ e = [date |-> e.date, span |-> e.span, trades |-> TRUE, from |-> e.from,
                   until |-> e.until]
           /\ e.date \in Nat /\ FileFits(e.date, e.span, clock)
           /\ e.from \in Nat /\ e.until \in Nat /\ from <= e.from /\ e.from < e.until
           /\ \/ CandleFiles(from, clock) = {} /\ e.from = from /\ e.until = Never
              \/ \E g \in CandleFiles(from, clock) :
                   e \in StretchBefore(g[1], CandleFiles(from, clock), from, clock)
<1> USE ConstantsFit
<1>1. clock \in Nat /\ clock \in Slot /\ from \in Nat /\ Never \in Nat /\ clock < Never
    BY DEF TypeOK, Never, Slot
<1>2. e \in Stretches(from, clock)
    BY DEF Plan
<1>3. ~venue.funding
    BY <1>2 DEF Stretches
<1>4. CASE CandleFiles(from, clock) = {}
  <2>1. e \in TradeEntries(from, clock, Never, clock)
      BY <1>2, <1>3, <1>4 DEF Stretches
  <2>2. /\ e = [date |-> e.date, span |-> e.span, trades |-> TRUE, from |-> from, until |-> Never]
        /\ e.date \in Slot /\ FileFits(e.date, e.span, clock)
      BY <1>1, <1>3, <2>1, TradesBehind
  <2>3. from < clock
      BY <1>1, <2>1, EntryInside
  <2>4. e.from = from /\ e.until = Never
      BY <2>2
  <2> QED
      BY <1>1, <1>3, <1>4, <2>2, <2>3, <2>4
<1>5. CASE CandleFiles(from, clock) # {}
  <2>1. PICK g \in CandleFiles(from, clock) :
               e \in StretchBefore(g[1], CandleFiles(from, clock), from, clock)
      BY <1>2, <1>3, <1>5 DEF Stretches
  <2>2. e = [date |-> e.date, span |-> e.span, trades |-> TRUE, from |-> e.from,
             until |-> e.until]
      BY <1>3, <2>1, StretchIs
  <2>3. e.date \in Slot /\ FileFits(e.date, e.span, clock)
      BY <1>3, <2>1, StretchIs
  <2>4. e.from \in Nat /\ e.until \in Nat /\ from <= e.from /\ e.from < e.until
      BY <1>3, <2>1, StretchIs
  <2> QED
      BY <1>3, <2>1, <2>2, <2>3, <2>4
<1> QED
    BY <1>4, <1>5

\* The entries that a run plans are apart.
LEMMA PlanApart ==
    ASSUME TypeOK, NEW from \in Slot, NEW d \in Plan(from, clock), NEW e \in Plan(from, clock)
    PROVE  /\ d.trades = e.trades /\ d.date = e.date => d = e
           /\ d.trades => from <= d.from /\ d.from < d.until
           /\ d.trades /\ e.trades /\ d.date <= e.date => SameStretch(d, e) \/ d.until <= e.from
<1> USE ConstantsFit
<1> DEFINE candles == CandleFiles(from, clock)
<1>1. clock \in Nat
    BY DEF TypeOK
<1>2. d.trades => from <= d.from /\ d.from < d.until
    BY TradePlanned
<1>3. ASSUME ~d.trades, ~e.trades, d.date = e.date
      PROVE  d = e
  <2>1. \A c \in Plan(from, clock) : ~c.trades => \E f \in candles :
           c = [date |-> f[1], span |-> f[2], trades |-> FALSE, from |-> 0, until |-> 0]
    <3>1. \A c \in Stretches(from, clock) : c.trades
        BY StretchesFit
    <3> QED
        BY <3>1 DEF Plan
  <2>2. PICK f \in candles :
           d = [date |-> f[1], span |-> f[2], trades |-> FALSE, from |-> 0, until |-> 0]
      BY <1>3, <2>1
  <2>3. PICK g \in candles :
           e = [date |-> g[1], span |-> g[2], trades |-> FALSE, from |-> 0, until |-> 0]
      BY <1>3, <2>1
  <2>4. f[1] \in Nat /\ FileFits(f[1], f[2], clock) /\ FileFits(g[1], g[2], clock)
    <3>1. f[1] \in Slot /\ FileFits(f[1], f[2], clock) /\ FileFits(g[1], g[2], clock)
        BY CandleFilesFit
    <3> QED
        BY <3>1
  <2>5. f[1] = g[1]
      BY <1>3, <2>2, <2>3
  <2>6. f[2] = g[2]
      BY <1>1, <2>4, <2>5, SpanIs
  <2> QED
      BY <2>2, <2>3, <2>5, <2>6
<1>4. ASSUME d.trades, e.trades, d.date <= e.date
      PROVE  /\ d.date = e.date => d = e
             /\ SameStretch(d, e) \/ d.until <= e.from
  <2>1. /\ ~venue.funding /\ d.date \in Nat /\ e.date \in Nat
        /\ FileFits(d.date, d.span, clock) /\ FileFits(e.date, e.span, clock)
        /\ d = [date |-> d.date, span |-> d.span, trades |-> TRUE, from |-> d.from,
                until |-> d.until]
        /\ e = [date |-> e.date, span |-> e.span, trades |-> TRUE, from |-> e.from,
                until |-> e.until]
      BY <1>4, TradePlanned
  <2>2. d.date = e.date => d.span = e.span
      BY <1>1, <2>1, SpanIs
  <2>3. SameStretch(d, e) /\ d.date = e.date => d = e
      BY <2>1, <2>2 DEF SameStretch
  <2>4. CASE candles = {}
    <3>1. SameStretch(d, e)
        BY <1>4, <2>4, TradePlanned DEF SameStretch
    <3> QED
        BY <2>3, <3>1
  <2>5. CASE candles # {}
    <3>1. PICK g \in candles : d \in StretchBefore(g[1], candles, from, clock)
        BY <1>4, <2>5, TradePlanned
    <3>2. PICK h \in candles : e \in StretchBefore(h[1], candles, from, clock)
        BY <1>4, <2>5, TradePlanned
    <3>3. g[1] \in Nat /\ h[1] \in Nat
      <4>1. g[1] \in Slot /\ h[1] \in Slot
          BY CandleFilesFit
      <4> QED
          BY <4>1
    <3>4. CASE g[1] = h[1]
      <4>1. SameStretch(d, e)
          BY <2>1, <3>1, <3>2, <3>4, StretchIs DEF SameStretch
      <4> QED
          BY <2>3, <4>1
    <3>5. CASE g[1] < h[1]
      <4>1. d.until <= e.from /\ d.date < e.date
          BY <2>1, <3>1, <3>2, <3>5, StretchesApart
      <4> QED
          BY <2>1, <4>1
    <3>6. CASE h[1] < g[1]
      <4>1. e.date < d.date
          BY <2>1, <3>1, <3>2, <3>6, StretchesApart
      <4> QED
          BY <1>4, <2>1, <4>1
    <3> QED
        BY <3>3, <3>4, <3>5, <3>6
  <2> QED
      BY <2>4, <2>5
<1>5. d.date \in Nat /\ e.date \in Nat
  <2>1. d.date \in Slot /\ e.date \in Slot
      BY PlanFitsAtStart DEF Entry
  <2> QED
      BY <2>1
<1> QED
    BY <1>2, <1>3, <1>4, <1>5

-----------------------------------------------------------------------------
(* What the plan says of a minute that is to be folded *)

\* An entry of the plan is of a listed file.
LEMMA PlannedFits ==
    ASSUME IInv, NEW e \in plan
    PROVE  /\ e.date \in Nat /\ e.span \in Nat /\ e.trades \in BOOLEAN
           /\ e.from \in Nat /\ e.until \in Nat
           /\ FileFits(e.date, e.span, run.now)
           /\ e.trades => ~venue.funding
<1>1. e \in Entry /\ FileFits(e.date, e.span, run.now) /\ (e.trades => ~venue.funding)
    BY DEF IInv, TypeOK, PlanFits
<1>2. e.date \in Slot /\ e.span \in Nat /\ e.trades \in BOOLEAN
      /\ e.from \in Nat /\ e.until \in Nat
    BY <1>1 DEF Entry
<1> QED
    BY <1>1, <1>2, ConstantsFit

\* The file begins, or will begin, at a slot.
LEMMA BeginFits ==
    ASSUME IInv, pc # "idle"
    PROVE  Begin \in Nat
<1>1. CASE rows = {}
  <2>1. Begin \in Slot
      BY <1>1, MemoryIs DEF Begin
  <2> QED
      BY <2>1, ConstantsFit
<1>2. CASE rows # {}
  <2>1. Begin = since /\ since # None
      BY <1>2 DEF Begin, IInv, SinceFits
  <2>2. Begin \in Slot
      BY <2>1 DEF IInv, TypeOK
  <2> QED
      BY <2>2, ConstantsFit
<1> QED
    BY <1>1, <1>2

\* There is an entry the loop is at, as long as there is one.
LEMMA LoopGoesOn ==
    ASSUME IInv, EntriesApart, pc = "files", NEW some \in plan
    PROVE  \E e \in plan : Current(e) /\ e.date <= some.date
<1> DEFINE dates == {e.date : e \in plan}
           first == Min(dates)
<1>1. dates \in SUBSET Nat /\ dates # {} /\ some.date \in dates
    BY PlannedFits
<1>2. first \in dates /\ \A x \in dates : first <= x
    BY <1>1, FirstOf
<1>3. \A e \in plan : first <= e.date
    BY <1>2
<1>4. PICK d \in plan : d.date = first
    BY <1>2
<1> HIDE DEF dates, first
<1>5. first \in Nat
    BY <1>4, PlannedFits
<1>6. CASE \E c \in plan : c.date = first /\ ~c.trades
  <2>1. PICK c \in plan : c.date = first /\ ~c.trades
      BY <1>6
  <2>2. \A e \in plan \ {c} : Precedes(c, e)
    <3>1. TAKE e \in plan \ {c}
    <3>2. first <= e.date /\ e.date \in Nat /\ e.trades \in BOOLEAN /\ c.trades \in BOOLEAN
        BY <1>3, PlannedFits
    <3>3. e.date = c.date => e.trades
      <4>1. c.trades = e.trades /\ c.date = e.date => c = e
          BY DEF EntriesApart
      <4> QED
          BY <2>1, <3>2, <4>1
    <3> QED
        BY <1>5, <2>1, <3>2, <3>3 DEF Precedes
  <2> QED
      BY <1>3, <2>1, <2>2 DEF Current
<1>7. CASE ~\E c \in plan : c.date = first /\ ~c.trades
  <2>1. d.trades
      BY <1>4, <1>7
  <2>2. \A e \in plan \ {d} : Precedes(d, e)
    <3>1. TAKE e \in plan \ {d}
    <3>2. first <= e.date /\ e.date \in Nat /\ e.trades \in BOOLEAN /\ d.trades \in BOOLEAN
        BY <1>3, PlannedFits
    <3>3. e.date # d.date
      <4>1. d.trades = e.trades /\ d.date = e.date => d = e
          BY DEF EntriesApart
      <4> QED
          BY <1>4, <1>7, <2>1, <3>2, <4>1
    <3> QED
        BY <1>4, <1>5, <3>2, <3>3 DEF Precedes
  <2> QED
      BY <1>3, <1>4, <2>2 DEF Current
<1> QED
    BY <1>6, <1>7

\* In front of where a stretch is handed over, a minute that is to be folded
\* lies in front of every candle file still to do, of which there is one.
LEMMA InFrontOfCandles ==
    ASSUME IInv, pc = "files", NEW until, HandOver(until, 0, plan, run.now), until # Never,
           NEW t \in Nat, NEW floor \in Nat, Foldable(t, floor), t > LastSaved, t < until
    PROVE  /\ Settled(t, run.now) /\ Awaited(t)
           /\ \A c \in plan : ~c.trades => t < c.date
<1> USE ConstantsFit
<1>1. /\ run.now \in Nat /\ venue \in Venues /\ LastSaved \in Nat
      /\ venue.archived \in SUBSET Slot
  <2>1. run.now \in Nat /\ venue \in Venues /\ LastSaved \in Slot
      BY MemoryIs DEF IInv, TypeOK
  <2> QED
      BY <2>1, VenueFits
<1>2. PICK d \in Slot, span \in {MonthlySpan, Day} :
         /\ FileFits(d, span, run.now) /\ Rows(venue.archived, d, run.now) # {}
         /\ until = Min(Rows(venue.archived, d, run.now))
         /\ \A c \in plan : ~c.trades => c.date < 0 \/ d <= c.date
    BY DEF HandOver
<1>3. until \in Rows(venue.archived, d, run.now) /\ until \in venue.archived /\ until \in Nat
      /\ d \in Nat
    BY <1>1, <1>2, FirstRow
<1>4. t < d
  <2>1. SUFFICES ASSUME d <= t PROVE FALSE
      BY <1>3
  <2>2. t <= until
      BY <1>3
  <2>3. MonthStart(t) = MonthStart(until)
      BY <1>1, <1>2, <1>3, <2>1, <2>2, SameMonth
  <2> QED
      BY <1>3, <2>3, FoldableApart
<1>5. \A c \in plan : ~c.trades => t < c.date
  <2>1. TAKE c \in plan
  <2>2. c.date \in Nat
      BY PlannedFits
  <2> QED
      BY <1>2, <1>3, <1>4, <2>2
<1>6. Settled(until, run.now)
    BY <1>1, <1>2, <1>3, RowsSettled
<1>7. Settled(t, run.now)
  <2>1. t <= until
      BY <1>3
  <2> QED
      BY <1>1, <1>3, <1>6, <2>1, SettledBefore
<1>8. Awaited(t)
  <2>1. Behind(until)
      BY <1>1, <1>3 DEF Behind
  <2>2. PICK c \in plan : ~c.trades
      BY <1>3, <1>6, <2>1 DEF IInv, PlanHolds
  <2> QED
      BY <1>5, <2>2 DEF Awaited
<1> QED
    BY <1>5, <1>7, <1>8

\* Such a minute is in progress or in a trade file still to do.
LEMMA StillPlanned ==
    ASSUME IInv, TradesPlanned, pc = "files", Whole,
           NEW until, HandOver(until, 0, plan, run.now),
           until = Never => \/ fold # None /\ fold.until = Never
                            \/ \E e \in plan : e.trades /\ e.until = Never,
           NEW t \in venue.traded, Foldable(t, Begin), t > LastSaved,
           until # Never => t < until,
           until = Never => Settled(t, run.now)
    PROVE  InFold(t) \/ \E e \in plan : InEntry(t, e)
<1>1. t \in Nat /\ Begin \in Nat
    BY VenueFits, BeginFits, ConstantsFit DEF IInv, TypeOK
<1>2. Settled(t, run.now) /\ Awaited(t)
    BY <1>1, InFrontOfCandles DEF Awaited
<1> QED
    BY <1>2 DEF TradesPlanned

\* The fold of an entry is of its stretch, and closed nothing behind the tail
\* that lies in a trade file still to do.
LEMMA ActiveIs ==
    ASSUME IInv, EntriesApart, FoldApart, FoldCaughtUp, NEW e \in plan, Folds(e)
    PROVE  /\ Active(e) \in Fold /\ SameStretch(Active(e), e)
           /\ e.from \in Nat /\ e.until \in Nat /\ e.from < e.until
           /\ run.from <= e.from
           /\ Active(e).last <= LastSaved \/ Active(e).last < e.date
           /\ rows # {} => Active(e).close
           /\ Active(e).pending # None =>
                /\ Active(e).last < Active(e).pending
                /\ \A g \in plan : g.trades => Active(e).pending < g.date
           /\ CaughtUp(Active(e))
<1> USE ConstantsFit
<1>1. e.trades /\ (fold # None => fold.from = e.from) /\ Active(e) \in Fold /\ pc = "files"
    BY ActiveFits DEF Folds
<1>2. /\ e.from \in Nat /\ e.until \in Nat
      /\ run.from <= e.from /\ e.from < e.until
    BY <1>1, PlannedFits DEF EntriesApart
<1>3. LastSaved \in Nat
  <2>1. LastSaved \in Slot
      BY <1>1, MemoryIs
  <2> QED
      BY <2>1
<1>4. CASE fold = None
  <2>1. Active(e) = Resumed(e, LastSaved)
      BY <1>4 DEF Active
  <2>2. /\ Active(e).from = e.from /\ Active(e).until = e.until
        /\ Active(e).last = LastSaved /\ Active(e).pending = None
      BY <2>1 DEF Resumed
  <2>4. (Active(e).close => rows # {}) /\ (rows # {} => Active(e).close)
    <3>1. Active(e).close = (rows # {})
        BY <2>1 DEF Resumed
    <3> QED
        BY <3>1
  <2>3. CaughtUp(Active(e))
    <3>1. rows # {} => Active(e).last = Max(rows)
        BY <2>2 DEF LastSaved
    <3>2. rows # {} => Active(e).last <= Max(rows)
        BY <1>3, <2>2, <3>1
    <3> QED
        BY <2>4, <3>2 DEF CaughtUp
  <2> QED
      BY <1>1, <1>2, <1>3, <2>2, <2>3, <2>4 DEF SameStretch
<1>5. CASE fold # None
  <2>1. Active(e) = fold /\ fold.from = e.from
      BY <1>1, <1>5 DEF Active
  <2>2. /\ fold.from < fold.until
        /\ SameStretch(fold, e) \/ fold.until <= e.from
        /\ fold.pending # None => \A g \in plan : g.trades => fold.pending < g.date
        /\ fold.last <= LastSaved \/ fold.last < e.date
        /\ rows # {} => fold.close
        /\ fold.pending # None => fold.last < fold.pending
      BY <1>1, <1>5 DEF FoldApart
  <2>3. fold.until \in Nat
      BY <1>1, <2>1 DEF Fold
  <2>4. SameStretch(fold, e)
      BY <1>2, <2>1, <2>2, <2>3
  <2>5. CaughtUp(fold)
      BY <1>5 DEF FoldCaughtUp
  <2> QED
      BY <1>1, <1>2, <2>1, <2>2, <2>4, <2>5
<1> QED
    BY <1>4, <1>5

\* What is in hand was not closed yet and lies in front of the next trade file.
LEMMA HandIs ==
    ASSUME IInv, EntriesApart, FoldApart, FoldCaughtUp, NEW e \in plan, Folds(e),
           NEW h \in HandAt(e)
    PROVE  /\ Active(e).last < h
           /\ \A g \in plan : g.trades /\ g # e => h < g.date
<1> USE ConstantsFit
<1>1. /\ pc = "files" /\ run.now \in Nat /\ venue.traded \in SUBSET Slot
      /\ Active(e) \in Fold
    BY ActiveFits, MemoryIs, VenueFits DEF IInv, TypeOK
<1>2. \A g \in plan : g.trades /\ g # e => e.date < g.date
  <2>1. SUFFICES ASSUME NEW g \in plan, g.trades, g # e PROVE e.date < g.date
      OBVIOUS
  <2>2. Precedes(e, g) /\ e.trades
      BY <2>1 DEF Folds, Current
  <2>3. e.date # g.date
      BY <2>1, <2>2 DEF EntriesApart
  <2> QED
      BY <2>2, <2>3 DEF Precedes
<1>3. h \in Nat /\ Active(e).last \in Int
  <2>1. h \in Slot
      BY HandFits
  <2> QED
      BY <1>1, <2>1 DEF Fold
<1>4. CASE Active(e).pending # None /\ h = Active(e).pending
    BY <1>4, ActiveIs
<1>5. CASE h \in Rows(venue.traded, e.date, run.now) /\ h > Active(e).last
  <2>1. Active(e).last < h
      BY <1>3, <1>5
  <2>2. ASSUME NEW g \in plan, g.trades, g # e
        PROVE  h < g.date
    <3>1. e.date < g.date /\ e.date \in Nat /\ g.date \in Nat
          /\ FileFits(e.date, e.span, run.now) /\ FileFits(g.date, g.span, run.now)
        BY <1>2, <2>2, PlannedFits
    <3> QED
        BY <1>1, <1>5, <3>1, RowsBefore
  <2> QED
      BY <2>1, <2>2
<1> QED
    BY <1>4, <1>5 DEF HandAt, InHand

\* A minute behind the tail that is in progress or in the file of the entry is
\* in hand.
LEMMA HandHas ==
    ASSUME IInv, EntriesApart, FoldApart, FoldCaughtUp, NEW e \in plan, Folds(e),
           NEW t \in venue.traded, t > LastSaved, InFold(t) \/ InEntry(t, e)
    PROVE  t \in HandAt(e) /\ e.from <= t /\ t < e.until
<1> USE ConstantsFit
<1>1. CASE InFold(t)
  <2>1. fold # None /\ fold.pending = t /\ fold.from <= t /\ t < fold.until
      BY <1>1 DEF InFold
  <2>2. Active(e) = fold /\ fold.pending # None
    <3>1. t # None
        BY VenueFits, NoneAssumption DEF IInv, TypeOK
    <3> QED
        BY <2>1, <3>1 DEF Active
  <2>3. t \in HandAt(e)
      BY <2>1, <2>2 DEF HandAt, InHand
  <2> QED
      BY <2>1, <2>2, <2>3, ActiveIs DEF SameStretch
<1>2. CASE InEntry(t, e)
  <2>1. e.from <= t /\ t < e.until /\ t \in Rows(venue.traded, e.date, run.now)
      BY <1>2 DEF InEntry
  <2>2. e.date <= t
      BY <2>1 DEF Rows
  <2>3. /\ Active(e).last <= LastSaved \/ Active(e).last < e.date
        /\ Active(e).last \in Int /\ e.date \in Nat /\ LastSaved \in Nat
    <3>1. LastSaved \in Slot
        BY MemoryIs DEF Folds, Current
    <3>2. Active(e) \in Fold
        BY ActiveIs
    <3>3. Active(e).last \in Int
        BY <3>2 DEF Fold
    <3> QED
        BY <3>1, <3>3, ActiveIs, PlannedFits
  <2>4. t > Active(e).last
    <3>1. t \in Nat
        BY VenueFits DEF IInv, TypeOK
    <3> QED
        BY <2>2, <2>3, <3>1
  <2> QED
      BY <2>1, <2>4 DEF HandAt, InHand
<1> QED
    BY <1>1, <1>2

-----------------------------------------------------------------------------
(* The rows that reach the file pass no minute of a stretch over *)

Complete(new) ==
    \A u \in New(new.bars \cup new.filled), t \in venue.traded :
      Foldable(t, Begin) /\ t > LastSaved /\ t <= u => t \in new.bars \ new.filled

\* What is in hand is not filled in.
LEMMA FlatIsNotInHand ==
    ASSUME NEW f, NEW hand, NEW hi
    PROVE  FlatBelow(f, hand, hi) \cap hand = {}
    BY DEF FlatBelow

\* A fold closes minutes in front of the last one in hand.
LEMMA FeedFits ==
    ASSUME NEW f \in Fold, NEW hand \in SUBSET Slot
    PROVE  /\ hand = {} => FeedBars(f, hand).bars \cup FeedBars(f, hand).filled = {}
           /\ hand # {} =>
                /\ Max(hand) \in hand /\ Max(hand) \in Nat
                /\ FeedBars(f, hand).bars = hand \ {Max(hand)}
                /\ FeedBars(f, hand).filled = FlatBelow(f, hand, Max(hand))
                /\ \A u \in FeedBars(f, hand).bars \cup FeedBars(f, hand).filled :
                     u \in Int /\ u < Max(hand)
<1>1. CASE hand = {}
    BY <1>1 DEF FeedBars
<1>2. CASE hand # {}
  <2> DEFINE m == Max(hand)
  <2>1. m \in hand /\ m \in Nat /\ \A h \in hand : h <= m /\ h \in Nat
    <3>1. Max(hand) \in hand /\ Max(hand) \in Slot /\ \A h \in hand : h <= Max(hand)
        BY <1>2, LastInHand
    <3> QED
        BY <3>1, ConstantsFit
  <2>2. /\ FeedBars(f, hand).bars = hand \ {m}
        /\ FeedBars(f, hand).filled = FlatBelow(f, hand, m)
      BY <1>2 DEF FeedBars
  <2> HIDE DEF m
  <2>3. \A u \in FlatBelow(f, hand, m) : u \in Int /\ u < m
      BY <2>1, FlatFits
  <2>4. \A u \in hand \ {m} : u \in Int /\ u < m
      BY <2>1
  <2> QED
      BY <1>2, <2>1, <2>2, <2>3, <2>4 DEF m
<1> QED
    BY <1>1, <1>2

\* A batch of folded minutes has every minute of the stretch that it reaches.
LEMMA FoldedComplete ==
    ASSUME IInv, SInv, Whole, NEW e \in plan, Folds(e)
    PROVE  Complete(Clipped(Active(e), FeedBars(Active(e), HandAt(e))))
<1> USE ConstantsFit
<1> DEFINE f == Active(e)
           hand == HandAt(e)
           closed == FeedBars(f, hand)
           new == Clipped(f, closed)
<1>1. /\ EntriesApart /\ FoldApart /\ FoldCaughtUp /\ TradesPlanned
    BY DEF SInv
<1>2. /\ pc = "files" /\ f \in Fold /\ HandOver(f.until, 0, plan, run.now)
      /\ run.now \in Nat /\ e.trades
    BY ActiveFits, MemoryIs DEF Folds
<1>3. f.from = e.from /\ f.until = e.until
    BY <1>1, ActiveIs DEF SameStretch
<1>4. hand \in SUBSET Slot /\ \A h \in hand : h \in venue.traded /\ Settled(h, run.now)
    BY HandFits
<1>5. SUFFICES ASSUME NEW u \in New(new.bars \cup new.filled), NEW t \in venue.traded,
                      Foldable(t, Begin), t > LastSaved, t <= u
               PROVE  t \in new.bars \ new.filled
    BY DEF Complete
<1>6. u \in closed.bars \cup closed.filled /\ f.from <= u /\ u < f.until
    BY DEF New, Clipped
<1>7. t \in Nat
    BY VenueFits DEF IInv, TypeOK
<1> DEFINE m == Max(hand)
<1> HIDE DEF f, hand
<1>8. /\ hand # {} /\ m \in hand /\ m \in Nat /\ u \in Int /\ u < m
      /\ closed.bars = hand \ {m} /\ closed.filled = FlatBelow(f, hand, m)
    BY <1>2, <1>4, <1>6, FeedFits
<1> HIDE DEF closed, m
<1>9. t < m /\ t < f.until
  <2>1. f.until \in Nat
      BY <1>2 DEF Fold
  <2> QED
      BY <1>5, <1>6, <1>7, <1>8, <2>1
<1>10. f.until = Never => Settled(t, run.now)
  <2>1. t <= m /\ Settled(m, run.now)
      BY <1>4, <1>7, <1>8, <1>9
  <2> QED
      BY <1>2, <1>7, <1>8, <2>1, SettledBefore
<1>11. InFold(t) \/ \E g \in plan : InEntry(t, g)
    BY <1>1, <1>2, <1>3, <1>5, <1>9, <1>10, StillPlanned
<1>12. InFold(t) \/ InEntry(t, e)
  <2>1. SUFFICES ASSUME NEW g \in plan, InEntry(t, g), g # e PROVE FALSE
      BY <1>11
  <2>2. g.trades /\ g.date <= t /\ g.date \in Nat
      BY <2>1, PlannedFits DEF InEntry, Rows
  <2>3. m < g.date
      BY <1>1, <1>8, <2>1, <2>2, HandIs DEF hand
  <2> QED
      BY <1>7, <1>8, <1>9, <2>2, <2>3
<1>13. t \in hand /\ f.from <= t
    BY <1>1, <1>3, <1>5, <1>12, HandHas DEF hand
<1>14. t \in closed.bars /\ t \notin closed.filled
    BY <1>7, <1>8, <1>9, <1>13, FlatIsNotInHand
<1> QED
    BY <1>9, <1>13, <1>14 DEF Clipped

\* So does the end of a stretch.
LEMMA EndComplete ==
    ASSUME IInv, SInv, Whole, Ends
    PROVE  Complete(Clipped(fold, FinishBars(fold)))
<1> USE ConstantsFit
<1> DEFINE closed == FinishBars(fold)
           hand == InHand(fold, {})
           new == Clipped(fold, closed)
<1>1. /\ EntriesApart /\ FoldApart /\ FoldCaughtUp /\ TradesPlanned
    BY DEF SInv
<1>2. /\ pc = "files" /\ fold # None /\ fold \in Fold
      /\ HandOver(fold.until, 0, plan, run.now)
      /\ fold.pending # None =>
           fold.pending \in venue.traded /\ Settled(fold.pending, run.now)
      /\ run.now \in Nat /\ venue.traded \in SUBSET Slot /\ venue.archived \in SUBSET Slot
    BY MemoryIs, VenueFits DEF Ends, IInv, TypeOK, FoldFits
<1>3. SUFFICES ASSUME NEW u \in New(new.bars \cup new.filled), NEW t \in venue.traded,
                      Foldable(t, Begin), t > LastSaved, t <= u
               PROVE  t \in new.bars \ new.filled
    BY DEF Complete
<1>4. u \in closed.bars \cup closed.filled /\ fold.from <= u /\ u < fold.until
    BY DEF New, Clipped
<1>5. t \in Nat /\ Begin \in Nat /\ fold.until \in Nat /\ fold.from \in Nat
    BY <1>2, BeginFits DEF Fold
<1>6. hand = IF fold.pending = None THEN {} ELSE {fold.pending}
    BY DEF InHand
<1>7. hand \in SUBSET Slot
    BY <1>2, <1>6
<1>8. closed.bars = hand /\ closed.filled \cap hand = {}
      /\ (fold.until = Never => closed.filled = {})
  <2>1. closed.bars = hand
      BY DEF FinishBars
  <2>2. CASE fold.until = Never
      BY <2>1, <2>2 DEF FinishBars
  <2>3. CASE fold.until # Never
    <3>1. closed.filled = FlatBelow(fold, hand, fold.until)
        BY <2>3 DEF FinishBars
    <3> QED
        BY <2>1, <2>3, <3>1, FlatIsNotInHand
  <2> QED
      BY <2>2, <2>3
<1>9. u \in Int
    BY EndSound DEF Bounded, New
<1> HIDE DEF closed, hand
<1>10. t < fold.until
    BY <1>3, <1>4, <1>5, <1>9
<1>11. fold.until = Never => Settled(t, run.now)
  <2>1. HAVE fold.until = Never
  <2>2. u = fold.pending /\ fold.pending # None
      BY <1>4, <1>6, <1>8, <2>1
  <2>3. u \in Nat /\ Settled(u, run.now)
      BY <1>2, <2>2
  <2> QED
      BY <1>2, <1>3, <1>5, <2>3, SettledBefore
<1>12. InFold(t) \/ \E g \in plan : InEntry(t, g)
    BY <1>1, <1>2, <1>3, <1>10, <1>11, StillPlanned
<1>13. ASSUME NEW g \in plan, InEntry(t, g)
       PROVE  FALSE
  <2>1. /\ g.trades /\ g.from <= t /\ t < g.until /\ g.date <= t
        /\ g.date \in Nat /\ g.from \in Nat /\ g.until \in Nat
      BY <1>13, PlannedFits DEF InEntry, Rows
  <2>2. PICK e \in plan : Current(e) /\ e.date <= g.date
      BY <1>1, <1>2, LoopGoesOn
  <2>3. e.date \in Nat /\ e.date <= t /\ e.from \in Nat /\ e.until \in Nat
    <3>1. e.date \in Nat /\ e.from \in Nat /\ e.until \in Nat
        BY PlannedFits
    <3> QED
        BY <1>5, <2>1, <2>2, <3>1
  <2>4. e.trades
    <3>1. SUFFICES ASSUME ~e.trades PROVE FALSE
        OBVIOUS
    <3>2. CASE fold.until = Never
      <4>1. PICK d \in Slot : fold.until = Min(Rows(venue.archived, d, run.now))
                              /\ Rows(venue.archived, d, run.now) # {}
          BY <1>2, <3>1 DEF HandOver
      <4>2. fold.until \in Slot
          BY <4>1, FirstRow DEF IInv, TypeOK
      <4> QED
          BY <3>2, <4>2 DEF Never, Slot
    <3>3. CASE fold.until # Never
      <4>1. t < e.date
          BY <1>2, <1>3, <1>5, <1>10, <3>1, <3>3, InFrontOfCandles
      <4> QED
          BY <1>5, <2>3, <4>1
    <3> QED
        BY <3>2, <3>3
  <2>5. e.from # fold.from
      BY <2>2, <2>4 DEF Ends
  <2>6. fold.until <= e.from
      BY <1>1, <1>2, <2>4, <2>5 DEF FoldApart, SameStretch
  <2>7. e.from <= t
    <3>1. e.from < e.until
        BY <1>1, <2>4 DEF EntriesApart
    <3>2. SameStretch(e, g) \/ e.until <= g.from
        BY <1>1, <2>1, <2>2, <2>4 DEF EntriesApart
    <3> QED
        BY <1>5, <2>1, <2>3, <3>1, <3>2 DEF SameStretch
  <2> QED
      BY <1>5, <1>10, <2>3, <2>6, <2>7
<1>14. InFold(t)
    BY <1>12, <1>13
<1>15. t \in hand /\ fold.from <= t
  <2>1. t # None
      BY <1>2, NoneAssumption
  <2> QED
      BY <1>6, <1>14, <2>1 DEF InFold
<1> QED
    BY <1>8, <1>10, <1>15 DEF Clipped

\* A candle file comes when the stretch in front of it is done.
LEMMA CandlesComplete ==
    ASSUME IInv, SInv, Whole, NEW e \in plan, Takes(e)
    PROVE  Complete(CandlesAt(e))
<1> USE ConstantsFit
<1> DEFINE set == Rows(venue.archived, e.date, run.now)
<1>1. /\ pc = "files" /\ ~e.trades /\ fold = None /\ \A d \in plan \ {e} : Precedes(e, d)
      /\ TradesPlanned
    BY DEF Takes, Current, SInv
<1>2. /\ run.now \in Nat /\ venue.archived \in SUBSET Slot /\ venue.traded \in SUBSET Slot
      /\ venue \in Venues
      /\ e.date \in Nat /\ FileFits(e.date, e.span, run.now)
    BY <1>1, MemoryIs, VenueFits, PlannedFits DEF IInv, TypeOK
<1>3. CandlesAt(e).bars = set /\ CandlesAt(e).filled = {}
    BY DEF CandlesAt
<1>4. SUFFICES ASSUME NEW u \in set, NEW t \in venue.traded,
                      Foldable(t, Begin), t > LastSaved, t <= u
               PROVE  FALSE
    BY <1>3 DEF Complete, New
<1>5. t \in Nat /\ Begin \in Nat
    BY <1>1, <1>2, BeginFits
<1>6. u \in venue.archived /\ u \in Nat
    BY <1>2 DEF Rows
<1>7. t < e.date
  <2>1. SUFFICES ASSUME e.date <= t PROVE FALSE
      BY <1>2, <1>5
  <2>2. MonthStart(t) = MonthStart(u)
      BY <1>2, <1>4, <1>5, <2>1, SameMonth
  <2> QED
      BY <1>4, <1>5, <1>6, <2>2, FoldableApart
<1>8. Settled(t, run.now) /\ Awaited(t)
  <2>1. t <= e.date
      BY <1>2, <1>5, <1>7
  <2>2. Settled(t, run.now)
      BY <1>2, <1>5, <2>1, SettledInFront
  <2> QED
      BY <1>1, <1>7, <2>2 DEF Awaited
<1>9. PICK g \in plan : InEntry(t, g)
    BY <1>1, <1>4, <1>8 DEF TradesPlanned, InFold
<1>10. g.trades /\ g.date <= t /\ g.date \in Nat
    BY <1>9, PlannedFits DEF InEntry, Rows
<1>11. e.date <= g.date
    BY <1>1, <1>2, <1>10 DEF Precedes
<1> QED
    BY <1>2, <1>5, <1>7, <1>10, <1>11

\* REST comes last: the history variable tells when it passes trades.
LEMMA RecentComplete ==
    ASSUME IInv, pc = "rest", ~RestPasses
    PROVE  Complete(Recent)
<1>1. Recent.filled = {}
    BY DEF Recent
<1>2. SUFFICES ASSUME NEW u \in New(Recent.bars), NEW t \in venue.traded,
                      t > LastSaved, t <= u
               PROVE  t \in Recent.bars
    BY <1>1 DEF Complete
<1>3. t \in Nat /\ u \in Nat /\ u \in Recent.bars /\ LastSaved \in Nat
  <2>1. u \in Recent.bars
      BY DEF New
  <2>2. t \in Slot /\ u \in Slot /\ LastSaved \in Slot
      BY <2>1, MemoryIs, VenueFits DEF Recent, RestRows, IInv, TypeOK
  <2> QED
      BY <2>1, <2>2, ConstantsFit
<1>4. CASE t = u
    BY <1>3, <1>4
<1>5. CASE t < u
    BY <1>2, <1>3, <1>5 DEF RestPasses
<1> QED
    BY <1>2, <1>3, <1>4, <1>5

\* What may be cut short without cutShort is a candle file or REST.
LEMMA InFlightComplete ==
    ASSUME IInv, SInv, Whole, ~InStretch, ~RestPasses, NEW new \in InFlight
    PROVE  /\ Complete(new) /\ fold = None
           /\ \/ \E e \in plan : Takes(e) /\ new = CandlesAt(e)
              \/ pc = "rest" /\ new = Recent
<1>1. fold = None /\ \A e \in plan : ~e.trades
    BY DEF InStretch
<1>2. ~Ends /\ \A e \in plan : ~Folds(e)
    BY <1>1 DEF Ends, Folds
<1>3. CASE \E e \in plan : Takes(e) /\ new = CandlesAt(e)
    BY <1>1, <1>3, CandlesComplete
<1>4. CASE pc = "rest" /\ new = Recent
    BY <1>1, <1>4, RecentComplete
<1> QED
    BY <1>2, <1>3, <1>4 DEF InFlight

-----------------------------------------------------------------------------
(* What an append leaves of the stretches *)

\* The file begins where it was going to.
LEMMA BeginStays ==
    ASSUME IInv, pc # "idle", NEW new, Bounded(new), NEW hi \in Slot, AppendUpTo(new, hi)
    PROVE  /\ rows' # {} => since' = Begin
           /\ rows # {} => Begin = since
<1>1. rows \subseteq rows' /\ (rows = {} <=> since = None)
    BY AppendFits DEF IInv, SinceFits
<1>2. since' = IF since = None /\ rows' # {} THEN run.from ELSE since
    BY DEF AppendUpTo
<1> QED
    BY <1>1, <1>2 DEF Begin

\* The tail after an append: the old one, or a row of the batch.
LEMMA TailAfter ==
    ASSUME IInv, pc # "idle", NEW new, Bounded(new), NEW hi \in Slot, AppendUpTo(new, hi),
           rows' # {}
    PROVE  /\ Max(rows') \in Nat /\ Max(rows') \in rows' /\ \A r \in rows' : r <= Max(rows')
           /\ rows # {} => LastSaved = Max(rows) /\ LastSaved <= Max(rows')
           /\ \/ rows' = rows
              \/ /\ Max(rows') \in New(new.bars \cup new.filled)
                 /\ rows # {} => LastSaved < Max(rows')
<1> USE ConstantsFit
<1>1. /\ rows' \subseteq Slot /\ rows \subseteq rows'
      /\ \A t \in rows' \ rows : t \in New(new.bars \cup new.filled) /\ t \in Nat /\ t <= hi
    BY AppendFits
<1>2. Max(rows') \in rows' /\ Max(rows') \in Nat /\ \A r \in rows' : r <= Max(rows')
  <2>1. Max(rows') \in rows' /\ Max(rows') \in Slot /\ \A r \in rows' : r <= Max(rows')
      BY <1>1, LastInHand
  <2> QED
      BY <2>1
<1> DEFINE m == Max(rows')
<1>3. /\ LastSaved \in Nat /\ \A r \in rows : r <= LastSaved
      /\ rows # {} => LastSaved \in rows /\ LastSaved = Max(rows)
  <2>1. LastSaved \in Slot /\ \A r \in rows : r <= LastSaved
      BY MemoryIs
  <2>2. rows # {} => Max(rows) \in rows
      BY LastInHand DEF IInv, TypeOK
  <2> QED
      BY <2>1, <2>2 DEF LastSaved
<1>4. rows # {} => LastSaved <= m
    BY <1>1, <1>2, <1>3
<1> HIDE DEF m
<1>5. CASE rows' = rows
    BY <1>2, <1>3, <1>4, <1>5 DEF m
<1>6. CASE rows' # rows
  <2>1. PICK r \in rows' : r \notin rows
      BY <1>1, <1>6
  <2>2. r \in Nat /\ r <= m /\ m \in Nat /\ (rows # {} => LastSaved < r)
    <3>1. r \in New(new.bars \cup new.filled) /\ r \in Nat
        BY <1>1, <2>1
    <3>2. r <= m /\ m \in Nat
        BY <1>2, <2>1 DEF m
    <3> QED
        BY <1>3, <3>1, <3>2 DEF New
  <2>3. m \notin rows
    <3>1. SUFFICES ASSUME m \in rows PROVE FALSE
        OBVIOUS
    <3>2. m <= LastSaved /\ LastSaved < r
        BY <1>3, <2>2, <3>1
    <3> QED
        BY <1>3, <2>2, <3>2
  <2>4. m \in New(new.bars \cup new.filled)
      BY <1>1, <1>2, <2>3 DEF m
  <2>5. rows # {} => LastSaved < m
      BY <1>3, <2>2
  <2> QED
      BY <1>2, <1>3, <1>4, <2>4, <2>5 DEF m
<1> QED
    BY <1>5, <1>6

\* A complete batch leaves the stretches up to the tail whole.
LEMMA AppendFolds ==
    ASSUME IInv, Folded, pc # "idle", NEW new, Bounded(new), Whole => Complete(new),
           NEW hi \in Slot, AppendUpTo(new, hi), venue' = venue, Whole' => Whole
    PROVE  Folded'
<1> USE ConstantsFit
<1>1. /\ rows' \subseteq Slot /\ rows \subseteq rows'
      /\ \A t \in rows' \ rows : t \in New(new.bars \cup new.filled) /\ t \in Nat /\ t <= hi
      /\ \A t \in New(new.bars \cup new.filled) : t <= hi => t \in rows'
      /\ flat' = flat \cup {t \in New(new.filled) : t <= hi}
    BY AppendFits DEF AppendUpTo
<1>2. SUFFICES ASSUME Whole, rows' # {}, NEW t \in venue.traded,
                      Foldable(t, Begin), t <= Max(rows')
               PROVE  t \in rows' \ flat'
    BY BeginStays DEF Folded, Foldable, MonthStart
<1>3. /\ t \in Nat /\ Begin \in Nat /\ LastSaved \in Nat /\ flat \subseteq rows
      /\ \A r \in rows : r <= LastSaved
      /\ rows = {} => LastSaved = run.from
  <2>1. LastSaved \in Slot /\ (\A r \in rows : r <= LastSaved) /\ (rows = {} => LastSaved = run.from)
      BY MemoryIs
  <2> QED
      BY <2>1, VenueFits, BeginFits DEF IInv, TypeOK
<1>8. \A r \in rows : r <= LastSaved
    BY <1>3
<1> DEFINE m == Max(rows')
<1>4. /\ m \in Nat /\ m \in rows' /\ t <= m
      /\ rows # {} => LastSaved = Max(rows) /\ LastSaved <= m
      /\ rows' = rows \/ m \in New(new.bars \cup new.filled)
    BY <1>2, TailAfter
<1> HIDE DEF m
<1>5. CASE rows # {} /\ t <= LastSaved
  <2>1. t \in rows \ flat
      BY <1>2, <1>4, <1>5, BeginStays DEF Folded
  <2>2. t \notin New(new.filled)
      BY <1>3, <1>5 DEF New
  <2> QED
      BY <1>1, <2>1, <2>2
<1>6. CASE t > LastSaved
  <2>1. rows' # rows
    <3>1. SUFFICES ASSUME rows' = rows PROVE FALSE
        OBVIOUS
    <3>2. m <= LastSaved
        BY <1>4, <1>8, <3>1
    <3> QED
        BY <1>3, <1>4, <1>6, <3>2
  <2>2. t \in new.bars \ new.filled
      BY <1>2, <1>4, <1>6, <2>1 DEF Complete
  <2>3. m <= hi
    <3>1. m \notin rows
      <4>1. SUFFICES ASSUME m \in rows PROVE FALSE
          OBVIOUS
      <4>2. m <= LastSaved
          BY <1>8, <4>1
      <4> QED
          BY <1>3, <1>4, <1>6, <4>2
    <3> QED
        BY <1>1, <1>4, <3>1
  <2>4. t \in New(new.bars \cup new.filled) /\ t \notin New(new.filled)
      BY <1>6, <2>2 DEF New
  <2>5. t <= hi
    <3>1. hi \in Nat
        OBVIOUS
    <3> QED
        BY <1>3, <1>4, <2>3, <3>1
  <2>6. t \notin flat
    <3>1. SUFFICES ASSUME t \in flat PROVE FALSE
        OBVIOUS
    <3>2. t \in rows
        BY <1>3, <3>1
    <3>3. t <= LastSaved
        BY <1>8, <3>2
    <3> QED
        BY <1>3, <1>6, <3>3
  <2>7. t \in rows'
      BY <1>1, <2>4, <2>5
  <2> QED
      BY <1>1, <2>4, <2>6, <2>7
<1>7. CASE rows = {} /\ t <= LastSaved
    BY <1>2, <1>3, <1>7 DEF Begin, Foldable
<1> QED
    BY <1>3, <1>5, <1>6, <1>7

-----------------------------------------------------------------------------
(* The plan still has what is to be folded *)

\* What is behind the tail after an append was behind it before, and not in it.
LEMMA StillBehind ==
    ASSUME IInv, pc # "idle", NEW new, Bounded(new), Persist(new),
           run' = run, venue' = venue,
           NEW t \in venue.traded, Foldable(t, Begin)', t > LastSaved'
    PROVE  /\ Foldable(t, Begin) /\ t > LastSaved
           /\ t \notin new.bars \cup new.filled
<1>1. AppendUpTo(new, Horizon) /\ Horizon \in Slot /\ t \in Slot
    BY VenueFits, ConstantsFit DEF Persist, Slot, IInv, TypeOK
<1>2. Begin' = Begin
  <2>1. CASE rows' = {}
    <3>1. rows = {}
        BY <1>1, <2>1, AppendFits
    <3> QED
        BY <2>1, <3>1 DEF Begin
  <2>2. CASE rows' # {}
      BY <1>1, <2>2, BeginStays DEF Begin
  <2> QED
      BY <2>1, <2>2
<1>3. Foldable(t, Begin)
    BY <1>2 DEF Foldable, MonthStart
<1>4. Behind(t) /\ t \notin new.bars \cup new.filled
  <2>1. Behind(t)'
      BY DEF Behind
  <2> QED
      BY <1>1, <2>1, BehindAfter
<1>5. ~(rows = {} /\ t = LastSaved)
  <2>1. SUFFICES ASSUME rows = {}, t = LastSaved PROVE FALSE
      OBVIOUS
  <2>2. t = run.from /\ Begin = run.from /\ run.from \in Nat
      BY <2>1, MemoryIs, ConstantsFit DEF Begin
  <2> QED
      BY <1>3, <2>2 DEF Foldable
<1> QED
    BY <1>3, <1>4, <1>5 DEF Behind

\* The plan holds the minutes when what leaves it is stored or in progress.
LEMMA MinutesStay ==
    ASSUME TradesPlanned, pc = "files", run' = run, venue' = venue, plan' \subseteq plan,
           Whole' => Whole,
           fold' # None /\ fold'.until = Never =>
             \/ fold # None /\ fold.until = Never
             \/ \E e \in plan : e.trades /\ e.until = Never,
           \A t \in venue.traded :
             Foldable(t, Begin)' /\ t > LastSaved' =>
               /\ Foldable(t, Begin) /\ t > LastSaved
               /\ InFold(t) => InFold(t)'
               /\ \A e \in plan : InEntry(t, e) => e \in plan' \/ InFold(t)'
    PROVE  TradesPlanned'
<1>1. SUFFICES ASSUME Whole, NEW t \in venue.traded, Foldable(t, Begin)', t > LastSaved',
                      Settled(t, run.now), Awaited(t)'
               PROVE  InFold(t)' \/ \E e \in plan' : InEntry(t, e)
    BY SameVenue DEF TradesPlanned, InEntry, Rows
<1>2. Awaited(t)
    BY <1>1 DEF Awaited
<1>3. InFold(t) \/ \E e \in plan : InEntry(t, e)
    BY <1>1, <1>2 DEF TradesPlanned
<1> QED
    BY <1>1, <1>3

\* A file that counts as covered has none of them.
LEMMA SkipEntryPlans ==
    ASSUME IInv, SInv, NEW e \in plan, SkipEntry(e)
    PROVE  TradesPlanned'
<1>1. /\ pc = "files" /\ plan' = plan \ {e} /\ Covered(e)
      /\ rows' = rows /\ run' = run /\ fold' = fold /\ since' = since
      /\ venue' = venue /\ cutShort' = cutShort
    BY DEF SkipEntry, Current, file, world
<1>2. LastSaved' = LastSaved /\ Begin' = Begin /\ \A t : InFold(t)' = InFold(t)
    BY <1>1 DEF LastSaved, Begin, InFold
<1>3. ASSUME NEW t \in venue.traded, t > LastSaved, InEntry(t, e)
      PROVE  FALSE
  <2>1. /\ run.now \in Nat /\ LastSaved \in Nat /\ venue.traded \in SUBSET Slot
        /\ e.date \in Nat /\ e.span \in Nat /\ FileFits(e.date, e.span, run.now)
    <3>1. LastSaved \in Slot
        BY <1>1, MemoryIs
    <3> QED
        BY <1>1, <3>1, MemoryIs, VenueFits, PlannedFits, ConstantsFit DEF IInv, TypeOK
  <2>2. t \in Nat /\ t < e.date + e.span
      BY <1>3, <2>1, RowsSettled DEF InEntry
  <2>3. e.date + e.span <= LastSaved
      BY <1>1 DEF Covered
  <2> QED
      BY <1>3, <2>1, <2>2, <2>3
<1>4. \A t \in venue.traded :
        Foldable(t, Begin)' /\ t > LastSaved' =>
          /\ Foldable(t, Begin) /\ t > LastSaved
          /\ InFold(t) => InFold(t)'
          /\ \A d \in plan : InEntry(t, d) => d \in plan' \/ InFold(t)'
    BY <1>1, <1>2, <1>3 DEF Foldable, MonthStart
<1> QED
    BY <1>1, <1>4, MinutesStay DEF SInv, Whole

\* A folded file leaves the last of its minutes in progress.
LEMMA FoldTradesPlans ==
    ASSUME IInv, SInv, NEW e \in plan, FoldTrades(e)
    PROVE  TradesPlanned'
<1> USE ConstantsFit
<1> DEFINE f == Active(e)
           hand == HandAt(e)
           new == Clipped(f, FeedBars(f, hand))
<1>1. /\ Folds(e) /\ Persist(new) /\ fold' = Fed(f, hand) /\ plan' = plan \ {e}
      /\ run' = run /\ venue' = venue /\ cutShort' = cutShort
    BY DEF FoldTrades, world
<1>2. /\ pc = "files" /\ f \in Fold /\ e.trades /\ hand \in SUBSET Slot
      /\ EntriesApart /\ FoldApart /\ FoldCaughtUp /\ TradesPlanned
    BY <1>1, ActiveFits, HandFits DEF Folds, SInv
<1>3. Bounded(new)
    BY <1>1, FoldedSound
<1>4. f.from = e.from /\ f.until = e.until
    BY <1>1, <1>2, ActiveIs DEF SameStretch
<1>5. ASSUME NEW t \in venue.traded, t > LastSaved, t \notin new.bars \cup new.filled,
             InFold(t) \/ InEntry(t, e)
      PROVE  InFold(t)'
  <2>1. t \in hand /\ f.from <= t /\ t < f.until
      BY <1>1, <1>2, <1>4, <1>5, HandHas
  <2> HIDE DEF f, hand
  <2>2. hand # {} /\ FeedBars(f, hand).bars = hand \ {Max(hand)}
      BY <1>2, <2>1, FeedFits
  <2>3. t = Max(hand)
      BY <1>5, <2>1, <2>2 DEF Clipped
  <2>4. fold'.pending = t /\ fold'.from = f.from /\ fold'.until = f.until
    <3>1. fold' = [f EXCEPT !.pending = Max(hand),
                            !.close = @ \/ Cardinality(hand) > 1,
                            !.last = IF f.close \/ Cardinality(hand) > 1
                                     THEN Max(hand) - 1 ELSE @]
        BY <1>1, <2>2 DEF Fed
    <3> QED
        BY <1>2, <2>3, <3>1 DEF Fold
  <2>5. fold' # None
    <3>1. fold' \in Fold
        BY <1>1, <1>2, FedFits
    <3> QED
        BY <3>1, NoneAssumption
  <2> QED
      BY <2>1, <2>4, <2>5 DEF InFold
<1> HIDE DEF new
<1>6. \A t \in venue.traded :
        Foldable(t, Begin)' /\ t > LastSaved' =>
          /\ Foldable(t, Begin) /\ t > LastSaved
          /\ InFold(t) => InFold(t)'
          /\ \A d \in plan : InEntry(t, d) => d \in plan' \/ InFold(t)'
  <2>1. SUFFICES ASSUME NEW t \in venue.traded, Foldable(t, Begin)', t > LastSaved'
                 PROVE  /\ Foldable(t, Begin) /\ t > LastSaved
                        /\ InFold(t) => InFold(t)'
                        /\ \A d \in plan : InEntry(t, d) => d \in plan' \/ InFold(t)'
      OBVIOUS
  <2>2. Foldable(t, Begin) /\ t > LastSaved /\ t \notin new.bars \cup new.filled
      BY <1>1, <1>2, <1>3, <2>1, StillBehind
  <2> QED
      BY <1>1, <1>5, <2>2
<1>7. fold' # None /\ fold'.until = Never => e.trades /\ e.until = Never
  <2> HIDE DEF f, hand
  <2>1. fold'.until = f.until
      BY <1>1, <1>2, FedFits
  <2> QED
      BY <1>2, <1>4, <2>1
<1> QED
    BY <1>1, <1>2, <1>6, <1>7, MinutesStay DEF Whole

\* The end of a stretch stores the minute in progress.
LEMMA StretchEndsPlans ==
    ASSUME IInv, SInv, StretchEnds
    PROVE  TradesPlanned'
<1> DEFINE new == Clipped(fold, FinishBars(fold))
<1>1. /\ Ends /\ Persist(new) /\ fold' = None /\ plan' = plan
      /\ run' = run /\ venue' = venue /\ cutShort' = cutShort
    BY DEF StretchEnds, world
<1>2. /\ pc = "files" /\ TradesPlanned /\ venue.traded \subseteq Slot
    BY <1>1, VenueFits DEF Ends, SInv, IInv, TypeOK
<1>3. Bounded(new)
    BY <1>1, EndSound
<1>4. \A t \in venue.traded : InFold(t) => t \in new.bars
  <2>1. SUFFICES ASSUME NEW t \in venue.traded, InFold(t) PROVE t \in new.bars
      OBVIOUS
  <2>2. t # None
      BY <1>2, NoneAssumption
  <2>3. t \in FinishBars(fold).bars
      BY <2>1, <2>2 DEF FinishBars, InHand, InFold
  <2> QED
      BY <2>1, <2>3 DEF Clipped, InFold
<1> HIDE DEF new
<1>5. \A t \in venue.traded :
        Foldable(t, Begin)' /\ t > LastSaved' =>
          /\ Foldable(t, Begin) /\ t > LastSaved
          /\ InFold(t) => InFold(t)'
          /\ \A d \in plan : InEntry(t, d) => d \in plan' \/ InFold(t)'
  <2>1. SUFFICES ASSUME NEW t \in venue.traded, Foldable(t, Begin)', t > LastSaved'
                 PROVE  Foldable(t, Begin) /\ t > LastSaved /\ ~InFold(t)
      BY <1>1
  <2>2. Foldable(t, Begin) /\ t > LastSaved /\ t \notin new.bars \cup new.filled
      BY <1>1, <1>2, <1>3, <2>1, StillBehind
  <2> QED
      BY <1>4, <2>2
<1> QED
    BY <1>1, <1>2, <1>5, MinutesStay DEF Whole

\* A candle file is no trade file.
LEMMA AppendCandlesPlans ==
    ASSUME IInv, SInv, NEW e \in plan, AppendCandles(e)
    PROVE  TradesPlanned'
<1>1. /\ Takes(e) /\ Persist(CandlesAt(e)) /\ fold' = fold /\ plan' = plan \ {e}
      /\ run' = run /\ venue' = venue /\ cutShort' = cutShort
    BY DEF AppendCandles, world
<1>2. pc = "files" /\ TradesPlanned /\ ~e.trades /\ fold = None
    BY <1>1 DEF Takes, Current, SInv
<1>3. Bounded(CandlesAt(e))
    BY <1>1, CandlesSound
<1>4. \A t \in venue.traded :
        Foldable(t, Begin)' /\ t > LastSaved' =>
          /\ Foldable(t, Begin) /\ t > LastSaved
          /\ InFold(t) => InFold(t)'
          /\ \A d \in plan : InEntry(t, d) => d \in plan' \/ InFold(t)'
  <2>1. SUFFICES ASSUME NEW t \in venue.traded, Foldable(t, Begin)', t > LastSaved'
                 PROVE  Foldable(t, Begin) /\ t > LastSaved
      BY <1>1, <1>2 DEF InFold, InEntry
  <2> QED
      BY <1>1, <1>2, <1>3, <2>1, StillBehind
<1> QED
    BY <1>1, <1>2, <1>4, MinutesStay DEF Whole

\* The trade files of a range of a day or more have each of its settled minutes.
LEMMA RangeHas ==
    ASSUME TypeOK, ~venue.funding, NEW lo \in Nat, NEW hi \in Nat, NEW until \in Nat,
           Day <= hi - lo, hi <= until,
           NEW t \in venue.traded, Settled(t, clock), lo <= t, t < hi
    PROVE  \E e \in TradeEntries(lo, hi, until, clock) :
             /\ e.trades /\ e.from <= t /\ t < e.until
             /\ t \in Rows(venue.traded, e.date, clock)
<1> USE ConstantsFit
<1>1. venue.traded \in SUBSET Slot /\ t \in Nat
    BY VenueFits DEF TypeOK
<1>2. PICK f \in Files(venue.traded, lo, hi, MonthStart(clock)) :
         /\ t \in Rows(venue.traded, f[1], clock)
         /\ f[1] \in Nat /\ f[1] <= t /\ t < f[1] + f[2]
    BY <1>1, FilesComplete
<1>3. f[2] \in Nat
  <2>1. clock \in Nat
      BY DEF TypeOK
  <2>2. f[2] \in {MonthlySpan, Day}
      BY <1>1, <2>1, FilesFit
  <2> QED
      BY <2>2
<1>4. f[1] + f[2] > lo /\ f[1] < hi
    BY <1>1, <1>2, <1>3
<1> DEFINE e == [date |-> f[1], span |-> f[2], trades |-> TRUE, from |-> lo, until |-> until]
<1>5. e \in TradeEntries(lo, hi, until, clock)
  <2>1. ~(hi - lo < Day)
      OBVIOUS
  <2> QED
      BY <1>4, <2>1 DEF TradeEntries
<1>6. e.trades /\ e.from <= t /\ t < e.until /\ e.date = f[1]
    BY <1>1
<1> QED
    BY <1>2, <1>5, <1>6

\* A run plans each settled minute in front of a candle file, when there is a day
\* of room in front of that file.
LEMMA PlanHas ==
    ASSUME TypeOK, ~venue.funding, NEW from \in Slot, NEW floor \in Nat,
           NEW t \in venue.traded, Foldable(t, floor), from < t, Settled(t, clock),
           \A g \in CandleFiles(from, clock) : t < g[1] => Day <= g[1] - from,
           \/ \E g \in CandleFiles(from, clock) : t < g[1]
           \/ CandleFiles(from, clock) = {} /\ Plan(from, clock) # {}
    PROVE  \E e \in Plan(from, clock) :
             /\ e.trades /\ e.from <= t /\ t < e.until
             /\ t \in Rows(venue.traded, e.date, clock)
<1> USE ConstantsFit
<1> DEFINE candles == CandleFiles(from, clock)
<1>1. /\ clock \in Nat /\ clock \in Slot /\ from \in Nat /\ t \in Nat /\ venue \in Venues
      /\ Never \in Nat /\ clock <= Never
    BY VenueFits DEF TypeOK, Never, Slot
<1>2. \A h \in candles : /\ h = <<h[1], h[2]>> /\ h[1] \in Slot /\ h[2] \in {MonthlySpan, Day}
                         /\ FileFits(h[1], h[2], clock)
                         /\ Rows(venue.archived, h[1], clock) # {}
    BY <1>1, CandleFilesFit
<1>3. CASE candles = {}
  <2>1. Stretches(from, clock) = TradeEntries(from, clock, Never, clock)
      BY <1>3 DEF Stretches
  <2>2. Plan(from, clock) = Stretches(from, clock)
      BY <1>3 DEF Plan
  <2>3. Day <= clock - from
    <3>1. TradeEntries(from, clock, Never, clock) # {}
        BY <1>3, <2>1, <2>2
    <3>2. ~(clock - from < Day)
        BY <3>1 DEF TradeEntries
    <3> QED
        BY <1>1, <3>2
  <2>4. t < clock
      BY <1>1, StartsFit DEF Settled
  <2> QED
      BY <1>1, <2>1, <2>2, <2>3, <2>4, RangeHas
<1>4. CASE \E g \in candles : t < g[1]
  <2> DEFINE dates == {g[1] : g \in {h \in candles : t < h[1]}}
             first == Min(dates)
  <2> HIDE DEF candles
  <2>1. dates \in SUBSET Nat /\ dates # {}
      BY <1>2, <1>4
  <2>2. first \in dates /\ \A x \in dates : first <= x
      BY <2>1, FirstOf
  <2>3. PICK g \in candles : t < g[1] /\ g[1] = first
      BY <2>2
  <2>4. \A h \in candles : h[1] < g[1] => h[1] <= t
    <3>1. SUFFICES ASSUME NEW h \in candles, t < h[1] PROVE ~(h[1] < g[1])
        BY <1>1, <1>2
    <3>2. g[1] <= h[1]
        BY <2>2, <2>3, <3>1
    <3> QED
        BY <1>2, <3>2
  <2> HIDE DEF dates, first
  <2> DEFINE cursor == Cursor(candles, g[1], from)
             handOver == Min(Rows(venue.archived, g[1], clock))
  <2>5. /\ g[1] \in Nat /\ FileFits(g[1], g[2], clock)
        /\ Rows(venue.archived, g[1], clock) # {}
      BY <1>2
  <2>6. handOver \in Rows(venue.archived, g[1], clock) /\ handOver \in Nat /\ g[1] <= handOver
    <3>1. handOver \in Rows(venue.archived, g[1], clock) /\ handOver \in Nat
        BY <1>1, <2>5, FirstRow
    <3> QED
        BY <2>5, <3>1 DEF Rows
  <2>7. /\ cursor \in Nat
        /\ cursor = from \/ \E h \in candles : h[1] < g[1] /\ cursor = h[1] + h[2]
    <3>1. candles \in SUBSET (Slot \X {MonthlySpan, Day})
        BY <1>2
    <3> QED
        BY <1>2, <3>1, CursorFits
  <2> HIDE DEF cursor, handOver
  <2>8. MonthStart(t) \in Nat /\ MonthStart(t) <= t /\ t < MonthStart(t) + Month
      BY <1>1, StartsFit
  <2>9. MonthStart(t) + Month <= g[1]
      BY <1>1, <2>3, <2>5, CandleApart
  <2>10. cursor <= t /\ Day <= g[1] - cursor
    <3>1. CASE cursor = from
        BY <1>1, <2>3, <3>1 DEF candles
    <3>2. CASE \E h \in candles : h[1] < g[1] /\ cursor = h[1] + h[2]
      <4>1. PICK h \in candles : h[1] < g[1] /\ cursor = h[1] + h[2]
          BY <3>2
      <4>2. /\ h[1] \in Nat /\ h[1] <= t /\ FileFits(h[1], h[2], clock)
            /\ Rows(venue.archived, h[1], clock) # {}
          BY <1>2, <2>4, <4>1
      <4>3. cursor <= MonthStart(t)
          BY <1>1, <4>1, <4>2, CandleApart
      <4> QED
          BY <1>1, <2>5, <2>7, <2>8, <2>9, <4>3
    <3> QED
        BY <2>7, <3>1, <3>2
  <2>11. Day <= handOver - cursor /\ t < handOver
      BY <1>1, <2>3, <2>5, <2>6, <2>7, <2>10
  <2>12. PICK e \in TradeEntries(cursor, handOver, handOver, clock) :
             /\ e.trades /\ e.from <= t /\ t < e.until
             /\ t \in Rows(venue.traded, e.date, clock)
    <3>1. handOver <= handOver
        BY <2>6
    <3> QED
        BY <2>6, <2>7, <2>10, <2>11, <3>1, RangeHas
  <2>13. e \in StretchBefore(g[1], candles, from, clock)
    <3>1. g[1] - cursor >= Day
        BY <2>5, <2>7, <2>10
    <3> QED
        BY <2>12, <3>1 DEF StretchBefore, cursor, handOver
  <2>14. e \in Plan(from, clock)
      BY <1>4, <2>13 DEF Plan, Stretches, candles
  <2> QED
      BY <2>12, <2>14
<1> QED
    BY <1>3, <1>4

\* There is a day of room: the tail does not stand in the last day of a stretch,
\* nor does the floor of a fresh file.
LEMMA RoomInFront ==
    ASSUME TypeOK, ~venue.funding, NEW from \in Slot,
           NEW t \in venue.traded, from < t, NEW floor \in Nat, Foldable(t, floor),
           \/ floor = from
           \/ Near(t) => from < DayStart(t),
           NEW g \in CandleFiles(from, clock), t < g[1]
    PROVE  Day <= g[1] - from
<1> USE ConstantsFit
<1>1. clock \in Nat /\ from \in Nat /\ t \in Nat /\ venue \in Venues
      /\ venue.archived \in SUBSET Slot
    BY VenueFits DEF TypeOK
<1>2. /\ g[1] \in Nat /\ FileFits(g[1], g[2], clock)
      /\ Rows(venue.archived, g[1], clock) # {}
  <2>1. g[1] \in Slot /\ FileFits(g[1], g[2], clock) /\ Rows(venue.archived, g[1], clock) # {}
      BY <1>1, CandleFilesFit
  <2> QED
      BY <2>1
<1> DEFINE month == MonthStart(t)
           day == DayStart(t)
<1>3. /\ month \in Nat /\ month <= t /\ t < month + Month /\ month % Month = 0
      /\ day \in Nat /\ day <= t /\ day % Day = 0
    BY <1>1, StartsFit
<1>4. month + Month <= g[1]
    BY <1>1, <1>2, CandleApart
<1>5. day + Day <= month + Month
  <2>1. month + Month \in Nat /\ (month + Month) % Month = 0
      BY <1>3, NextStart
  <2>2. (month + Month) % Day = 0
      BY <2>1, MonthsAreDays
  <2>3. day < month + Month
    <3>1. day <= t /\ t < month + Month /\ day \in Nat /\ month \in Nat
        BY <1>3
    <3> QED
        BY <1>1, <3>1
  <2> QED
      BY <1>3, <2>1, <2>2, <2>3, StartsApart
<1> HIDE DEF month, day
<1>6. CASE floor = from
  <2>1. from + Day <= month + Month
      BY <1>6 DEF Foldable, month
  <2> QED
      BY <1>1, <1>2, <1>3, <1>4, <2>1
<1>7. CASE Near(t) /\ from < day
    BY <1>1, <1>2, <1>3, <1>4, <1>5, <1>7
<1>8. CASE ~Near(t)
  <2>1. month + 2 * Month <= g[1]
    <3>1. SUFFICES ASSUME g[1] < month + 2 * Month PROVE FALSE
        BY <1>2, <1>3
    <3>2. PICK a \in Rows(venue.archived, g[1], clock) : TRUE
        BY <1>2
    <3>3. a \in venue.archived /\ a \in Nat /\ g[1] <= a
        BY <1>1, <3>2 DEF Rows
    <3>4. MonthStart(g[1]) = MonthStart(a)
        BY <1>1, <1>2, <3>3, SameMonth
    <3>5. MonthStart(a) = month + Month
      <4>1. month + Month \in Nat /\ (month + Month) % Month = 0
          BY <1>3, NextStart
      <4>2. g[1] < (month + Month) + Month
          BY <1>2, <1>3, <3>1
      <4> QED
          BY <1>2, <1>4, <3>4, <4>1, <4>2, FloorIs DEF MonthStart
    <3>6. month + Month <= a /\ a < month + 2 * Month
      <4>1. a < MonthStart(a) + Month
          BY <3>3, StartsFit
      <4> QED
          BY <1>2, <1>3, <1>4, <3>3, <3>5, <4>1
    <3> QED
        BY <1>3, <1>8, <3>3, <3>6 DEF Near, month
  <2> QED
      BY <1>1, <1>2, <1>3, <2>1
<1> QED
    BY <1>6, <1>7, <1>8 DEF day

\* A new run plans what is settled.
LEMMA StartRunPlans ==
    ASSUME IInv, SInv, StartRun
    PROVE  TradesPlanned'
<1> USE ConstantsFit
<1>1. PICK floor \in Floors :
        LET from == IF rows = {} THEN floor ELSE Max(rows)
        IN  run' = [from |-> from, now |-> clock] /\ plan' = Plan(from, clock)
    BY DEF StartRun
<1> DEFINE from == IF rows = {} THEN floor ELSE Max(rows)
<1>2. /\ pc = "idle" /\ rows' = rows /\ fold' = fold /\ venue' = venue /\ since' = since
      /\ cutShort' = cutShort
    BY DEF StartRun, file, world
<1>3. fold = None /\ TypeOK /\ venue.traded \subseteq Slot /\ clock \in Slot
    BY <1>2, VenueFits DEF IInv, MemoryFits, TypeOK
<1>4. from \in Slot
  <2>1. rows # {} => Max(rows) \in Slot
      BY <1>3, LastInHand DEF TypeOK
  <2> QED
      BY <2>1, FloorsAssumption
<1>5. run'.now = clock /\ run'.from = from /\ plan' = Plan(from, clock)
    BY <1>1
<1>6. LastSaved' = from /\ Begin' = IF rows = {} THEN from ELSE since
    BY <1>2, <1>5 DEF LastSaved, Begin
<1>7. rows # {} => from = Max(rows)
    OBVIOUS
<1> HIDE DEF from
<1>8. SUFFICES ASSUME Whole, NEW t \in venue.traded, Foldable(t, Begin'), t > from,
                      Settled(t, clock), Awaited(t)'
               PROVE  \E e \in plan' : /\ e.trades /\ e.from <= t /\ t < e.until
                                       /\ t \in Rows(venue.traded, e.date, clock)
    BY <1>2, <1>5, <1>6, SameVenue
    DEF TradesPlanned, Whole, InEntry, Rows, Foldable, MonthStart
<1>9. ~venue.funding /\ t \in Nat /\ from \in Nat /\ clock \in Nat
    BY <1>3, <1>4, <1>8 DEF Whole
<1>10. \/ \E g \in CandleFiles(from, clock) : t < g[1]
       \/ CandleFiles(from, clock) = {} /\ Plan(from, clock) # {}
  <2>1. CASE \E c \in plan' : ~c.trades /\ t < c.date
    <3>1. PICK c \in plan' : ~c.trades /\ t < c.date
        BY <2>1
    <3>2. <<c.date, c.span>> \in CandleFiles(from, clock)
        BY <1>3, <1>4, <1>5, <3>1, PlanFitsAtStart
    <3> QED
        BY <3>1, <3>2
  <2>2. CASE \E e \in plan' : e.trades /\ e.until = Never
    <3>1. PICK e \in plan' : e.trades /\ e.until = Never
        BY <2>2
    <3>2. CandleFiles(from, clock) = {}
      <4>1. SUFFICES ASSUME CandleFiles(from, clock) # {} PROVE FALSE
          OBVIOUS
      <4>2. PICK g \in CandleFiles(from, clock) :
                   e \in StretchBefore(g[1], CandleFiles(from, clock), from, clock)
          BY <1>3, <1>4, <1>5, <3>1, <4>1, TradePlanned
      <4>3. Never \in Rows(venue.archived, g[1], clock)
          BY <1>3, <1>4, <1>9, <3>1, <4>2, StretchIs
      <4>4. Never \in Slot
          BY <1>3, <4>3, VenueFits DEF Rows, TypeOK
      <4> QED
          BY <4>4 DEF Never, Slot
    <3> QED
        BY <1>5, <3>1, <3>2
  <2> QED
      BY <1>2, <1>3, <1>8, <2>1, <2>2 DEF Awaited
<1>11. Begin' \in Nat
  <2>1. rows # {} => since \in Slot
      BY <1>3 DEF IInv, SinceFits, TypeOK
  <2> QED
      BY <1>6, <1>9, <2>1
<1>12. \A g \in CandleFiles(from, clock) : t < g[1] => Day <= g[1] - from
  <2>1. CASE rows = {}
    <3>1. Begin' = from
        BY <1>6, <2>1
    <3> QED
        BY <1>3, <1>4, <1>8, <1>9, <1>11, <3>1, RoomInFront
  <2>2. CASE rows # {}
    <3>1. DayDone
        BY <1>3, <1>8, <2>2 DEF SInv, DaysWhole, DayInProgress
    <3>2. Near(t) => from < DayStart(t)
      <4>1. Foldable(t, since) /\ t > Max(rows)
          BY <1>6, <1>7, <1>8, <2>2
      <4>2. Near(t) => DayStart(t) > Max(rows)
          BY <3>1, <4>1 DEF DayDone
      <4>3. DayStart(t) \in Nat
          BY <1>9, StartsFit
      <4> QED
          BY <1>7, <1>9, <2>2, <4>2, <4>3
    <3> QED
        BY <1>3, <1>4, <1>8, <1>9, <1>11, <3>2, RoomInFront
  <2> QED
      BY <2>1, <2>2
<1>13. from < t
    BY <1>8, <1>9
<1> QED
    BY <1>3, <1>4, <1>5, <1>8, <1>9, <1>10, <1>11, <1>12, <1>13, PlanHas

-----------------------------------------------------------------------------
(* The fold between two files *)

\* A fold that read some more: the last minute in hand is in progress, and what
\* lies before it is closed once there is something to close.
LEMMA FedIs ==
    ASSUME NEW f \in Fold, NEW hand \in SUBSET Slot, hand # {}
    PROVE  /\ Fed(f, hand).pending = Max(hand)
           /\ Fed(f, hand).from = f.from /\ Fed(f, hand).until = f.until
           /\ f.close => Fed(f, hand).close
           /\ (\E h \in hand : h # Max(hand)) => Fed(f, hand).close
           /\ Fed(f, hand).close =>
                f.close \/ \E h \in hand : h # Max(hand)
           /\ IF Fed(f, hand).close THEN Fed(f, hand).last = Max(hand) - 1
              ELSE Fed(f, hand).last = f.last
<1> DEFINE m == Max(hand)
           many == Cardinality(hand) > 1
<1>1. many <=> \E h \in hand : h # m
  <2>1. IsFiniteSet(hand) /\ Cardinality(hand) \in Nat
    <3>1. hand \in SUBSET (0 .. Horizon) /\ IsFiniteSet(0 .. Horizon)
        BY ConstantsFit, FS_Interval DEF Slot
    <3>2. IsFiniteSet(hand)
        BY <3>1, FS_Subset
    <3> QED
        BY <3>2, FS_CardinalityType
  <2>2. Cardinality(hand) # 0
      BY <2>1, FS_EmptySet
  <2>3. (Cardinality(hand) = 1) <=> \E x : hand = {x}
      BY <2>1, FS_Singleton
  <2>4. m \in hand
      BY LastInHand
  <2> HIDE DEF m
  <2>5. (\E x : hand = {x}) <=> ~\E h \in hand : h # m
      BY <2>4
  <2> QED
      BY <2>1, <2>2, <2>3, <2>5
<1>2. Fed(f, hand) = [f EXCEPT !.pending = m,
                               !.close = f.close \/ many,
                               !.last = IF f.close \/ many THEN m - 1 ELSE f.last]
    BY DEF Fed
<1> HIDE DEF m, many
<1>3. f = [from |-> f.from, until |-> f.until, last |-> f.last, close |-> f.close,
           pending |-> f.pending]
    BY DEF Fold
<1>4. Fed(f, hand) = [from |-> f.from, until |-> f.until,
                      last |-> IF f.close \/ many THEN m - 1 ELSE f.last,
                      close |-> f.close \/ many, pending |-> m]
    BY <1>2, <1>3
<1>5. /\ Fed(f, hand).from = f.from /\ Fed(f, hand).until = f.until
      /\ Fed(f, hand).last = IF f.close \/ many THEN m - 1 ELSE f.last
      /\ Fed(f, hand).pending = m
    BY <1>4
<1>6. Fed(f, hand).close = (f.close \/ many)
    BY <1>4
<1> QED
    BY <1>1, <1>5, <1>6 DEF m

\* The tail does not move back.
LEMMA TailGrows ==
    ASSUME IInv, pc # "idle", NEW new, Bounded(new), NEW hi \in Slot, AppendUpTo(new, hi),
           run' = run
    PROVE  LastSaved <= LastSaved' /\ LastSaved \in Nat /\ LastSaved' \in Nat
<1>1. LastSaved \in Nat
  <2>1. LastSaved \in Slot
      BY MemoryIs
  <2> QED
      BY <2>1, ConstantsFit
<1>2. CASE rows' = {}
  <2>1. rows = {}
      BY <1>2, AppendFits
  <2>2. LastSaved' = LastSaved
      BY <1>2, <2>1 DEF LastSaved
  <2> QED
      BY <1>1, <2>2
<1>3. CASE rows' # {}
  <2> DEFINE m == Max(rows')
  <2>1. LastSaved' = m
      BY <1>3 DEF LastSaved
  <2>2. /\ m \in Nat
        /\ rows # {} => LastSaved <= m
        /\ rows' = rows \/ m \in New(new.bars \cup new.filled)
      BY <1>3, TailAfter
  <2> HIDE DEF m
  <2>3. rows = {} => LastSaved <= m
      BY <1>1, <1>3, <2>2 DEF New
  <2> QED
      BY <1>1, <2>1, <2>2, <2>3
<1> QED
    BY <1>2, <1>3

\* A shorter plan is apart as well.
LEMMA EntriesStayApart ==
    ASSUME EntriesApart, plan' \subseteq plan, run' = run
    PROVE  EntriesApart'
    BY DEF EntriesApart, SameStretch

\* So is a fold that did not change, when the tail did not move back.
LEMMA FoldStaysApart ==
    ASSUME FoldApart, FoldCaughtUp, plan' \subseteq plan, run' = run, rows' = rows,
           fold' = fold
    PROVE  FoldApart' /\ FoldCaughtUp'
<1>1. LastSaved' = LastSaved
    BY DEF LastSaved
<1> QED
    BY <1>1 DEF FoldApart, FoldCaughtUp, CaughtUp, SameStretch

\* A fold that read some more has closed everything in front of the minute in
\* progress: from the stored close, or from the first minute in hand.
LEMMA FeedCovers ==
    ASSUME NEW f \in Fold, NEW hand \in SUBSET Slot, hand # {},
           NEW x \in Int, x < Max(hand),
           IF f.close THEN f.last < x ELSE Min(hand) <= x
    PROVE  x \in FeedBars(f, hand).bars \cup FeedBars(f, hand).filled
<1> DEFINE m == Max(hand)
<1>1. /\ m \in Nat /\ FeedBars(f, hand).bars = hand \ {m}
      /\ FeedBars(f, hand).filled = FlatBelow(f, hand, m)
    BY FeedFits
<1> HIDE DEF m
<1>2. Min(hand) \in Nat /\ f.last \in Int
    BY FirstOf, ConstantsFit DEF Fold
<1>3. x <= m - 1 /\ x # m
    BY <1>1 DEF m
<1>4. x \in hand \/ x \in FlatBelow(f, hand, m)
  <2>1. CASE f.close
    <3>1. x \in f.last + 1 .. m - 1
        BY <1>1, <1>2, <1>3, <2>1
    <3> QED
        BY <2>1, <3>1 DEF FlatBelow
  <2>2. CASE ~f.close
    <3>1. x \in Min(hand) .. m - 1
        BY <1>1, <1>2, <1>3, <2>2
    <3> QED
        BY <2>2, <3>1 DEF FlatBelow
  <2> QED
      BY <2>1, <2>2
<1> QED
    BY <1>1, <1>3, <1>4

\* And nothing in front of them.
LEMMA FeedBegins ==
    ASSUME NEW f \in Fold, NEW hand \in SUBSET Slot, \A h \in hand : f.last < h,
           NEW x \in FeedBars(f, hand).bars \cup FeedBars(f, hand).filled
    PROVE  /\ IF f.close THEN f.last < x ELSE Min(hand) <= x
           /\ \E h \in hand : h # Max(hand) \/ f.close
<1>1. hand # {} /\ x \in Int /\ x < Max(hand) /\ Max(hand) \in hand /\ Max(hand) \in Nat
    BY FeedFits
<1>2. /\ FeedBars(f, hand).bars = hand \ {Max(hand)}
      /\ FeedBars(f, hand).filled = FlatBelow(f, hand, Max(hand))
    BY <1>1, FeedFits
<1>3. Min(hand) \in hand /\ Min(hand) \in Nat /\ f.last \in Int
      /\ \A h \in hand : Min(hand) <= h
    BY <1>1, FirstOf, ConstantsFit DEF Fold
<1> DEFINE m == Max(hand)
           n == Min(hand)
<1> HIDE DEF m, n
<1>4. IF f.close THEN f.last < x ELSE n <= x
  <2>1. CASE x \in hand
      BY <1>3, <2>1 DEF n
  <2>2. CASE x \in FlatBelow(f, hand, m)
    <3>1. CASE f.close
        BY <1>1, <1>3, <2>2, <3>1 DEF FlatBelow
    <3>2. CASE ~f.close
        BY <1>1, <1>3, <2>2, <3>2 DEF FlatBelow, n
    <3> QED
        BY <3>1, <3>2
  <2> QED
      BY <1>2, <2>1, <2>2 DEF m
<1>5. CASE f.close
    BY <1>1, <1>4, <1>5 DEF n
<1>6. CASE ~f.close
  <2>1. n # m
    <3>1. n <= x /\ x < m /\ n \in Nat /\ m \in Nat
        BY <1>1, <1>3, <1>4, <1>6 DEF n, m
    <3> QED
        BY <1>1, <3>1
  <2> QED
      BY <1>3, <1>4, <2>1 DEF n, m
<1> QED
    BY <1>5, <1>6

\* The fold stays apart from what is still to do, in front of it and behind.
LEMMA FoldTradesApart ==
    ASSUME IInv, SInv, NEW e \in plan, FoldTrades(e)
    PROVE  FoldApart'
<1> USE ConstantsFit
<1> DEFINE f == Active(e)
           hand == HandAt(e)
           new == Clipped(f, FeedBars(f, hand))
<1>1. /\ Folds(e) /\ Persist(new) /\ fold' = Fed(f, hand) /\ plan' = plan \ {e}
      /\ run' = run /\ venue' = venue
    BY DEF FoldTrades, world
<1>2. EntriesApart /\ FoldApart /\ FoldCaughtUp
    BY DEF SInv
<1>3. /\ pc = "files" /\ f \in Fold /\ e.trades /\ hand \in SUBSET Slot
      /\ \A g \in plan \ {e} : Precedes(e, g)
    BY <1>1, ActiveFits, HandFits DEF Folds, Current
<1>4. /\ f.from = e.from /\ f.until = e.until
      /\ e.from \in Nat /\ e.until \in Nat /\ e.from < e.until /\ run.from <= e.from
      /\ f.last <= LastSaved \/ f.last < e.date
      /\ rows # {} => f.close
      /\ f.pending # None =>
           /\ f.last < f.pending
           /\ \A g \in plan : g.trades => f.pending < g.date
    BY <1>1, <1>2, ActiveIs DEF SameStretch
<1>5. \A h \in hand : h \in Nat /\ f.last < h /\ \A g \in plan : g.trades /\ g # e => h < g.date
  <2>1. \A h \in hand : h \in Nat
      BY <1>3
  <2> QED
      BY <1>1, <1>2, <2>1, HandIs
<1>6. Bounded(new)
    BY <1>1, FoldedSound
<1>7. /\ LastSaved <= LastSaved' /\ LastSaved \in Nat /\ LastSaved' \in Nat
      /\ \A x \in rows' \ rows : x \in New(new.bars \cup new.filled)
  <2>1. AppendUpTo(new, Horizon) /\ Horizon \in Slot /\ pc # "idle"
      BY <1>1, <1>3 DEF Persist, Slot
  <2> QED
      BY <1>1, <1>6, <2>1, TailGrows, AppendFits
<1>8. f.last \in Int /\ e.date \in Nat
    BY <1>3, PlannedFits DEF Fold
<1>9. \A g \in plan : g.trades /\ g # e =>
        /\ SameStretch(e, g) \/ e.until <= g.from
        /\ e.date <= g.date /\ e.date \in Nat /\ g.date \in Nat
  <2>1. SUFFICES ASSUME NEW g \in plan, g.trades, g # e
                 PROVE  /\ SameStretch(e, g) \/ e.until <= g.from
                        /\ e.date <= g.date /\ e.date \in Nat /\ g.date \in Nat
      OBVIOUS
  <2>2. e.date <= g.date /\ e.date \in Nat /\ g.date \in Nat
      BY <1>3, <2>1, PlannedFits DEF Precedes
  <2> QED
      BY <1>2, <1>3, <2>1, <2>2 DEF EntriesApart
<1>10. fold'.from = f.from /\ fold'.until = f.until
  <2>1. CASE hand = {}
      BY <1>1, <2>1 DEF Fed
  <2>2. CASE hand # {}
    <3> HIDE DEF f, hand
    <3> QED
        BY <1>1, <1>3, <2>2, FedIs
  <2> QED
      BY <2>1, <2>2
<1> HIDE DEF f, hand
<1>11. CASE hand = {}
  <2>1. fold' = f
      BY <1>1, <1>11 DEF Fed
  <2>2. rows' = rows
    <3>1. \A x \in new.bars \cup new.filled : FALSE
        BY <1>11, <1>3, FeedFits DEF Clipped
    <3>2. New(new.bars \cup new.filled) = {}
        BY <3>1 DEF New
    <3>3. rows \subseteq rows'
        BY <1>1 DEF Persist, AppendUpTo
    <3> QED
        BY <1>7, <3>2, <3>3
  <2> HIDE DEF new
  <2>3. ASSUME NEW g \in plan', g.trades
        PROVE  /\ SameStretch(fold', g) \/ fold'.until <= g.from
               /\ fold'.pending # None => fold'.pending < g.date
               /\ fold'.last <= LastSaved' \/ fold'.last < g.date
    <3>1. g \in plan /\ g # e
        BY <1>1
    <3>2. SameStretch(e, g) \/ e.until <= g.from
        BY <1>9, <2>3, <3>1
    <3>3. fold'.pending # None => fold'.pending < g.date
        BY <1>4, <2>1, <2>3, <3>1
    <3>4. fold'.last <= LastSaved' \/ fold'.last < g.date
      <4>1. e.date <= g.date /\ e.date \in Nat /\ g.date \in Nat
          BY <1>9, <2>3, <3>1
      <4> QED
          BY <1>4, <1>7, <1>8, <2>1, <4>1
    <3> QED
        BY <1>4, <1>10, <3>2, <3>3, <3>4 DEF SameStretch
  <2> QED
      BY <1>1, <1>4, <1>10, <2>1, <2>2, <2>3 DEF FoldApart
<1>12. CASE hand # {}
  <2> DEFINE m == Max(hand)
  <2>1. m \in hand
      BY <1>3, <1>12, LastInHand
  <2>2. m \in Nat /\ f.last < m
      BY <1>5, <2>1
  <2>3. /\ fold'.pending = m
        /\ IF fold'.close THEN fold'.last = m - 1 ELSE fold'.last = f.last
        /\ f.close => fold'.close
        /\ (\E h \in hand : h # m) => fold'.close
      BY <1>1, <1>3, <1>12, FedIs
  <2>4. rows' # {} => fold'.close
    <3>1. SUFFICES ASSUME rows' # {}, ~fold'.close PROVE FALSE
        OBVIOUS
    <3>2. rows = {} /\ ~f.close
        BY <1>4, <2>3, <3>1
    <3>3. PICK x \in new.bars \cup new.filled : TRUE
        BY <1>7, <3>1, <3>2 DEF New
    <3>4. x \in FeedBars(f, hand).bars \cup FeedBars(f, hand).filled
        BY DEF Clipped
    <3>5. \E h \in hand : h # m \/ f.close
        BY <1>3, <1>5, <3>4, FeedBegins
    <3> QED
        BY <2>3, <3>1, <3>2, <3>5
  <2> HIDE DEF m, new
  <2>5. fold'.last \in Int /\ fold'.last < m
      BY <1>8, <2>2, <2>3
  <2>6. ASSUME NEW g \in plan', g.trades
        PROVE  /\ SameStretch(fold', g) \/ fold'.until <= g.from
               /\ fold'.pending < g.date
               /\ fold'.last < g.date
    <3>1. g \in plan /\ g # e
        BY <1>1
    <3>2. SameStretch(e, g) \/ e.until <= g.from
        BY <1>9, <2>6, <3>1
    <3>3. m < g.date /\ g.date \in Nat
        BY <1>5, <1>9, <2>1, <2>6, <3>1
    <3> QED
        BY <1>4, <1>10, <2>2, <2>3, <2>5, <3>2, <3>3 DEF SameStretch
  <2> QED
      BY <1>1, <1>4, <1>10, <2>3, <2>4, <2>5, <2>6 DEF FoldApart
<1> QED
    BY <1>11, <1>12

\* What it closed is stored.
LEMMA FoldTradesCatchesUp ==
    ASSUME IInv, SInv, NEW e \in plan, FoldTrades(e)
    PROVE  FoldCaughtUp'
<1> USE ConstantsFit
<1> DEFINE f == Active(e)
           hand == HandAt(e)
           new == Clipped(f, FeedBars(f, hand))
<1>1. /\ Folds(e) /\ Persist(new) /\ fold' = Fed(f, hand)
      /\ run' = run /\ venue' = venue
    BY DEF FoldTrades, world
<1>2. EntriesApart /\ FoldApart /\ FoldCaughtUp
    BY DEF SInv
<1>3. pc = "files" /\ f \in Fold /\ hand \in SUBSET Slot
    BY <1>1, ActiveFits, HandFits
<1>4. /\ f.from \in Nat /\ f.until \in Nat /\ f.from < f.until /\ run.from <= f.from
      /\ rows # {} => f.close
      /\ CaughtUp(f)
    BY <1>1, <1>2, ActiveIs DEF SameStretch
<1>5. \A h \in hand : h \in Nat /\ h \in Slot /\ f.last < h
  <2>1. \A h \in hand : h \in Nat /\ h \in Slot
      BY <1>3
  <2> QED
      BY <1>1, <1>2, <2>1, HandIs
<1>6. Bounded(new) /\ AppendUpTo(new, Horizon) /\ Horizon \in Slot /\ pc # "idle"
    BY <1>1, <1>3, FoldedSound DEF Persist, Slot
<1> HIDE DEF f, hand
<1>7. /\ rows \subseteq rows'
      /\ \A x \in rows' \ rows : x \in New(new.bars \cup new.filled)
      /\ \A x \in New(new.bars \cup new.filled) : x <= Horizon => x \in rows'
    BY <1>6, AppendFits
<1>8. f.last \in Int
    BY <1>3 DEF Fold
<1>9. CASE hand = {}
  <2>1. fold' = f
      BY <1>1, <1>9 DEF Fed
  <2>2. rows' = rows
    <3>1. \A x \in new.bars \cup new.filled : FALSE
        BY <1>3, <1>9, FeedFits DEF Clipped
    <3>2. New(new.bars \cup new.filled) = {}
        BY <3>1 DEF New
    <3> QED
        BY <1>7, <3>2
  <2> QED
      BY <1>4, <2>1, <2>2 DEF FoldCaughtUp, CaughtUp
<1>10. CASE hand # {}
  <2> DEFINE m == Max(hand)
             x == IF m <= f.until THEN m - 1 ELSE f.until - 1
  <2>1. m \in hand /\ m \in Nat /\ m \in Slot /\ f.last < m
      BY <1>3, <1>5, <1>10, LastInHand
  <2>2. /\ fold'.from = f.from /\ fold'.until = f.until
        /\ IF fold'.close THEN fold'.last = m - 1 ELSE fold'.last = f.last
        /\ fold'.close => f.close \/ \E h \in hand : h # m
      BY <1>1, <1>3, <1>10, FedIs
  <2> HIDE DEF m
  <2>3. SUFFICES ASSUME fold'.close, f.from <= m - 1
                 PROVE  \/ rows' = {} /\ f.until <= m - 1
                        \/ rows' # {} /\ (m - 1 <= Max(rows') \/ f.until - 1 <= Max(rows'))
    <3>1. m - 1 < f.from \/ f.from <= m - 1
        BY <1>4, <2>1
    <3> QED
        BY <2>2, <3>1 DEF FoldCaughtUp, CaughtUp
  <2>4. x \in Int /\ f.from <= x /\ x < f.until /\ x < m
      BY <1>4, <2>1, <2>3
  <2>5. x = m - 1 \/ x = f.until - 1
      OBVIOUS
  <2>6. m > f.until => x = f.until - 1
      BY <1>4, <2>1
  <2> HIDE DEF x
  <2>7. SUFFICES \/ rows' = {} /\ f.until < m
                 \/ rows' # {} /\ (x <= Max(rows') \/ f.until - 1 <= Max(rows'))
      BY <1>4, <2>1, <2>5
  <2>8. rows # {} => /\ rows' # {} /\ Max(rows) <= Max(rows')
                     /\ Max(rows) \in Nat /\ Max(rows') \in Nat /\ LastSaved = Max(rows)
    <3>1. HAVE rows # {}
    <3>2. rows' # {}
        BY <1>7, <3>1
    <3>3. LastSaved = Max(rows) /\ LastSaved <= Max(rows') /\ Max(rows') \in Nat
        BY <1>6, <3>1, <3>2, TailAfter
    <3>4. LastSaved \in Slot
        BY <1>6, MemoryIs
    <3> QED
        BY <3>2, <3>3, <3>4
  <2>9. CASE IF f.close THEN f.last < x ELSE Min(hand) <= x
    <3>1. x \in FeedBars(f, hand).bars \cup FeedBars(f, hand).filled
        BY <1>3, <1>10, <2>4, <2>9, FeedCovers DEF m
    <3>2. x \in new.bars \cup new.filled
        BY <2>4, <3>1 DEF Clipped
    <3> HIDE DEF new
    <3>3. LastSaved \in Nat /\ (rows = {} => LastSaved <= x)
      <4>1. LastSaved \in Slot /\ (rows = {} => LastSaved = run.from) /\ run.from \in Slot
          BY <1>6, MemoryIs
      <4> QED
          BY <1>4, <2>4, <4>1
    <3>4. x <= Horizon
      <4>1. m <= Horizon
          BY <2>1 DEF Slot
      <4> QED
          BY <2>1, <2>4, <4>1
    <3>5. CASE x > LastSaved \/ (rows = {} /\ x = LastSaved)
      <4>1. x \in rows'
          BY <1>7, <3>2, <3>4, <3>5 DEF New
      <4>2. x <= Max(rows')
          BY <1>6, <4>1, TailAfter
      <4> QED
          BY <4>1, <4>2
    <3>6. CASE rows # {} /\ x <= LastSaved
        BY <2>4, <2>8, <3>3, <3>6
    <3> QED
        BY <2>4, <3>3, <3>5, <3>6
  <2>10. CASE f.close /\ ~(f.last < x)
    <3>1. x <= f.last /\ ~(f.last < f.from)
        BY <1>4, <1>8, <2>4, <2>10
    <3>2. CASE rows = {} /\ f.until <= f.last
      <4>1. \A y \in new.bars \cup new.filled : FALSE
        <5>1. SUFFICES ASSUME NEW y \in new.bars \cup new.filled PROVE FALSE
            OBVIOUS
        <5>2. /\ y \in FeedBars(f, hand).bars \cup FeedBars(f, hand).filled
              /\ y < f.until
            BY DEF Clipped
        <5>3. y \in Int /\ f.last < y
            BY <1>3, <1>5, <1>10, <2>10, <5>2, FeedBegins, FeedFits
        <5> QED
            BY <1>4, <1>8, <3>2, <5>2, <5>3
      <4>2. New(new.bars \cup new.filled) = {}
          BY <4>1 DEF New
      <4>3. rows' = {}
          BY <1>7, <3>2, <4>2
      <4> QED
          BY <1>4, <1>8, <2>1, <3>2, <4>3
    <3>3. CASE rows # {} /\ (f.last <= Max(rows) \/ f.until - 1 <= Max(rows))
      <4> DEFINE a == Max(rows)
                 b == Max(rows')
      <4>1. /\ rows' # {} /\ a \in Nat /\ b \in Nat /\ a <= b
            /\ f.last <= a \/ f.until - 1 <= a
          BY <2>8, <3>3
      <4> HIDE DEF a, b
      <4>2. x <= b \/ f.until - 1 <= b
          BY <1>4, <1>8, <2>4, <3>1, <4>1
      <4> QED
          BY <4>1, <4>2 DEF b
    <3> QED
        BY <1>4, <2>10, <3>1, <3>2, <3>3 DEF CaughtUp
  <2>11. CASE ~f.close /\ ~(Min(hand) <= x)
    <3>1. Min(hand) \in Nat /\ \A h \in hand : Min(hand) <= h
        BY <1>3, <1>10, FirstOf
    <3> DEFINE n == Min(hand)
    <3>2. n < m
      <4>1. PICK h \in hand : h # m
          BY <2>2, <2>3, <2>11
      <4>2. h <= m /\ h \in Nat /\ n <= h
          BY <1>3, <1>5, <1>10, <3>1, <4>1, LastInHand DEF m
      <4> QED
          BY <2>1, <3>1, <4>1, <4>2
    <3>3. f.until <= n
      <4>1. x < n
          BY <2>4, <2>11, <3>1
      <4>2. x # m - 1
          BY <2>1, <3>1, <3>2, <4>1
      <4> QED
          BY <1>4, <2>5, <3>1, <4>1, <4>2
    <3>4. rows = {}
        BY <1>4, <2>11
    <3>5. \A y \in new.bars \cup new.filled : FALSE
      <4>1. SUFFICES ASSUME NEW y \in new.bars \cup new.filled PROVE FALSE
          OBVIOUS
      <4>2. /\ y \in FeedBars(f, hand).bars \cup FeedBars(f, hand).filled
            /\ y < f.until
          BY DEF Clipped
      <4>3. y \in Int /\ n <= y
          BY <1>3, <1>5, <1>10, <2>11, <4>2, FeedBegins, FeedFits
      <4> QED
          BY <1>4, <3>1, <3>3, <4>2, <4>3
    <3>6. New(new.bars \cup new.filled) = {}
        BY <3>5 DEF New
    <3>7. rows' = {}
        BY <1>7, <3>4, <3>6
    <3> QED
        BY <1>4, <2>1, <3>1, <3>2, <3>3, <3>7
  <2> QED
      BY <2>9, <2>10, <2>11
<1> QED
    BY <1>9, <1>10

-----------------------------------------------------------------------------
(* Where the tail stands *)

\* The month of t begins with one of its days.
LEMMA MonthBeginsDay ==
    ASSUME NEW t \in Nat
    PROVE  MonthStart(t) <= DayStart(t)
<1>1. MonthStart(t) \in Nat /\ MonthStart(t) <= t /\ MonthStart(t) % Month = 0
    BY StartsFit
<1>2. MonthStart(t) % Day = 0
    BY <1>1, MonthsAreDays
<1> QED
    BY <1>1, <1>2, FloorIsLast, ConstantsFit DEF DayStart

\* Nothing to show where neither the file nor the fold changes.
LEMMA DayStays ==
    ASSUME DaysWhole, rows' = rows, since' = since, venue' = venue, Whole' => Whole,
           fold' = fold \/ fold = None
    PROVE  DaysWhole'
<1>1. SUFFICES ASSUME Whole, rows # {} PROVE (DayDone \/ DayInProgress)'
    BY DEF DaysWhole
<1>2. CASE DayDone
    BY <1>2 DEF DayDone, Foldable, MonthStart, DayStart, Near
<1>3. CASE DayInProgress
    BY <1>3 DEF DayInProgress
<1> QED
    BY <1>1, <1>2, <1>3 DEF DaysWhole

\* A tail that a candle file left stands before the month of what follows.
LEMMA CandleTail ==
    ASSUME TypeOK, NEW m \in venue.archived, NEW t \in venue.traded, NEW floor \in Nat,
           Foldable(t, floor), t > m
    PROVE  DayStart(t) > m
<1> USE ConstantsFit
<1>1. t \in Nat /\ m \in Nat
    BY VenueFits DEF TypeOK
<1>2. /\ MonthStart(t) \in Nat /\ MonthStart(t) <= t /\ t < MonthStart(t) + Month
      /\ DayStart(t) \in Nat
    BY <1>1, StartsFit
<1>3. m < MonthStart(t) - Month \/ MonthStart(t) + Month <= m
    BY <1>1, FoldableApart
<1>4. MonthStart(t) <= DayStart(t)
    BY <1>1, MonthBeginsDay
<1> QED
    BY <1>1, <1>2, <1>3, <1>4

\* A tail that REST left does so too: when the archive has nothing in a month of
\* REST rows, that month was long past, and the candles behind it were listed.
LEMMA RecentTail ==
    ASSUME IInv, KnownTime, pc = "rest", NEW u \in venue.rest, LastSaved <= u,
           NEW t \in venue.traded, NEW floor \in Nat, Foldable(t, floor), t > u, Near(t)
    PROVE  DayStart(t) > u
<1> USE ConstantsFit
<1>1. /\ t \in Nat /\ u \in Nat /\ venue \in Venues /\ venue.archived \subseteq Slot
      /\ run.now \in Nat /\ LastSaved \in Nat /\ FirstClock \in Nat
  <2>1. LastSaved \in Slot /\ run.now \in Nat
      BY MemoryIs
  <2> QED
      BY <2>1, VenueFits, FloorsAssumption DEF IInv, TypeOK
<1> DEFINE month == MonthStart(t)
<1>2. /\ month \in Nat /\ month <= t /\ t < month + Month /\ month % Month = 0
      /\ DayStart(t) \in Nat /\ month <= DayStart(t)
    BY <1>1, StartsFit, MonthBeginsDay
<1>3. SUFFICES ASSUME DayStart(t) <= u PROVE FALSE
    BY <1>1, <1>2
<1>4. u - (u % Month) = month
  <2>1. month <= u /\ u < month + Month
      BY <1>1, <1>2, <1>3
  <2> QED
      BY <1>1, <1>2, <2>1, FloorIs
<1>5. venue.archived \cap (month .. month + Month - 1) = {}
    BY <1>1, <1>2 DEF Foldable
<1>6. ~(FirstClock < month + 2 * Month + Lag)
    BY <1>1, <1>4, <1>5, RestAssumption
<1>7. month + 2 * Month + Lag <= run.now
  <2>1. FirstClock <= run.now
      BY DEF KnownTime
  <2> QED
      BY <1>1, <1>2, <1>6, <2>1
<1>8. PICK a \in venue.archived : month + Month <= a /\ a <= month + 2 * Month - 1
  <2>1. PICK a \in venue.archived \cap (month + Month .. month + 2 * Month - 1) : TRUE
      BY DEF Near
  <2> QED
      BY <1>1, <1>2, <2>1
<1>9. a \in Nat
    BY <1>1
<1>10. /\ month + Month \in Nat /\ (month + Month) % Month = 0
       /\ month + 2 * Month \in Nat /\ (month + 2 * Month) % Month = 0
  <2>1. month + Month \in Nat /\ (month + Month) % Month = 0
      BY <1>2, NextStart
  <2>2. (month + Month) + Month \in Nat /\ ((month + Month) + Month) % Month = 0
      BY <2>1, NextStart
  <2>3. (month + Month) + Month = month + 2 * Month
      BY <1>2
  <2> QED
      BY <2>1, <2>2, <2>3
<1>11. MonthStart(a) = month + Month
  <2>1. a < (month + Month) + Month
      BY <1>2, <1>8, <1>9
  <2> QED
      BY <1>8, <1>9, <1>10, <2>1, FloorIs DEF MonthStart
<1> HIDE DEF month
<1>12. month + 2 * Month <= MonthStart(run.now)
  <2>1. month + 2 * Month <= run.now
      BY <1>1, <1>2, <1>7
  <2> QED
      BY <1>1, <1>10, <2>1, FloorIsLast DEF MonthStart
<1>13. Settled(a, run.now)
  <2>1. MonthStart(run.now) \in Nat
      BY <1>1, StartsFit
  <2>2. MonthStart(a) < MonthStart(run.now)
      BY <1>2, <1>11, <1>12, <2>1
  <2>3. MonthStart(a) + Month + Lag <= run.now
      BY <1>1, <1>2, <1>7, <1>11
  <2> QED
      BY <2>2, <2>3 DEF Settled
<1>14. Behind(a)
    BY <1>1, <1>2, <1>8, <1>9 DEF Behind
<1>15. plan = {}
    BY DEF IInv, MemoryFits
<1> QED
    BY <1>13, <1>14, <1>15 DEF IInv, PlanHolds

\* Candle files and REST are appended when no stretch is in progress.
LEMMA AppendLeavesDays ==
    ASSUME IInv, SInv, pc # "idle", fold = None, NEW new, Bounded(new),
           NEW hi \in Slot, AppendUpTo(new, hi), venue' = venue, Whole' => Whole,
           \/ \E e \in plan : Takes(e) /\ new = CandlesAt(e)
           \/ pc = "rest" /\ new = Recent
    PROVE  DaysWhole'
<1>1. SUFFICES ASSUME Whole, rows' # {}, NEW t \in venue.traded, Foldable(t, Begin),
                      t > Max(rows'), Near(t)
               PROVE  DayStart(t) > Max(rows')
    BY BeginStays DEF DaysWhole, DayDone, Foldable, MonthStart, DayStart, Near
<1> DEFINE m == Max(rows')
<1>2. Begin \in Nat
    BY BeginFits
<1>3. CASE rows' = rows
  <2>1. DayDone /\ Begin = since
      BY <1>1, <1>3, BeginStays DEF SInv, DaysWhole, DayInProgress
  <2> QED
      BY <1>1, <1>3, <2>1 DEF DayDone
<1>4. CASE rows' # rows
  <2>1. m \in New(new.bars \cup new.filled) /\ m \in Nat /\ (rows # {} => LastSaved < m)
      BY <1>1, <1>4, TailAfter
  <2> HIDE DEF m
  <2>2. CASE \E e \in plan : Takes(e) /\ new = CandlesAt(e)
    <3>1. m \in venue.archived
        BY <2>1, <2>2 DEF CandlesAt, New, Rows
    <3> QED
        BY <1>1, <1>2, <3>1, CandleTail DEF IInv, m
  <2>3. CASE pc = "rest" /\ new = Recent
    <3>1. m \in venue.rest
        BY <2>1, <2>3 DEF Recent, RestRows, New
    <3>2. LastSaved <= m
        BY <2>1, <2>3 DEF Recent, New
    <3> QED
        BY <1>1, <1>2, <2>3, <3>1, <3>2, RecentTail DEF SInv, m
  <2> QED
      BY <2>2, <2>3
<1> QED
    BY <1>3, <1>4

\* Folding a file leaves the tail in the stretch, behind the minute in progress.
LEMMA FoldTradesDays ==
    ASSUME IInv, SInv, NEW e \in plan, FoldTrades(e)
    PROVE  DaysWhole'
<1> USE ConstantsFit
<1> DEFINE f == Active(e)
           hand == HandAt(e)
           new == Clipped(f, FeedBars(f, hand))
<1>1. /\ Folds(e) /\ Persist(new) /\ fold' = Fed(f, hand)
      /\ run' = run /\ venue' = venue /\ cutShort' = cutShort
    BY DEF FoldTrades, world
<1>2. pc = "files" /\ f \in Fold /\ hand \in SUBSET Slot
    BY <1>1, ActiveFits, HandFits
<1>3. Bounded(new) /\ AppendUpTo(new, Horizon) /\ Horizon \in Slot /\ pc # "idle"
    BY <1>1, <1>2, FoldedSound DEF Persist, Slot
<1>4. fold # None => f = fold /\ (f.pending # None => f.pending \in hand)
    BY DEF Active, HandAt, InHand
<1>5. fold' \in Fold /\ fold' # None
  <2>1. fold' \in Fold
      BY <1>1, <1>2, FedFits
  <2> QED
      BY <2>1, NoneAssumption
<1> HIDE DEF f, hand
<1>6. SUFFICES ASSUME Whole, rows' # {} PROVE (DayDone \/ DayInProgress)'
    BY <1>1 DEF DaysWhole, Whole
<1> DEFINE m == Max(rows')
<1>7. /\ m \in Nat
      /\ rows' = rows \/ m \in new.bars \cup new.filled
  <2>1. m \in Nat /\ (rows' = rows \/ m \in New(new.bars \cup new.filled))
      BY <1>3, <1>6, TailAfter
  <2> QED
      BY <2>1 DEF New
<1>8. /\ f.from \in Nat /\ f.until \in Nat
    BY <1>2 DEF Fold
<1>9. CASE rows' = rows /\ DayDone
  <2>1. since' = since
      BY <1>3, <1>6, <1>9, BeginStays
  <2> QED
      BY <1>1, <1>9, <2>1 DEF DayDone, Foldable, MonthStart, DayStart, Near
<1>10. CASE rows' = rows /\ DayInProgress
  <2>1. /\ fold # None /\ f = fold /\ m < f.until
        /\ f.until = Never => f.pending # None /\ m < f.pending /\ f.from <= f.pending
      BY <1>4, <1>10 DEF DayInProgress
  <2>2. CASE hand = {}
      BY <1>1, <1>5, <2>1, <2>2 DEF DayInProgress, Fed
  <2>3. CASE hand # {}
    <3>1. fold'.pending = Max(hand) /\ fold'.from = f.from /\ fold'.until = f.until
        BY <1>1, <1>2, <2>3, FedIs
    <3>2. Max(hand) \in Slot /\ \A h \in hand : h <= Max(hand)
        BY <1>2, <2>3, LastInHand
    <3> DEFINE p == Max(hand)
    <3>3. f.until = Never => m < p /\ f.from <= p
      <4>1. HAVE f.until = Never
      <4>2. f.pending \in hand /\ f.pending <= p /\ f.pending \in Nat /\ p \in Nat
          BY <1>2, <1>4, <2>1, <3>2, <4>1
      <4> HIDE DEF p, m
      <4> QED
          BY <1>7, <1>8, <2>1, <4>1, <4>2
    <3>4. p # None
        BY <3>2, NoneAssumption
    <3> QED
        BY <1>5, <2>1, <3>1, <3>3, <3>4 DEF DayInProgress
  <2> QED
      BY <2>2, <2>3
<1>11. CASE m \in new.bars \cup new.filled
  <2>1. /\ m \in FeedBars(f, hand).bars \cup FeedBars(f, hand).filled
        /\ f.from <= m /\ m < f.until
      BY <1>11 DEF Clipped
  <2>2. hand # {} /\ m < Max(hand) /\ Max(hand) \in Nat /\ Max(hand) # None
    <3>1. hand # {}
        BY <1>2, <2>1, FeedFits
    <3>2. Max(hand) \in Slot
        BY <1>2, <3>1, LastInHand
    <3> QED
        BY <1>2, <2>1, <3>1, <3>2, FeedFits, NoneAssumption
  <2>3. fold'.pending = Max(hand) /\ fold'.from = f.from /\ fold'.until = f.until
      BY <1>1, <1>2, <2>2, FedIs
  <2>4. f.from <= Max(hand)
    <3> DEFINE p == Max(hand)
    <3>1. p \in Nat /\ m < p
        BY <2>2
    <3> HIDE DEF p, m
    <3>2. f.from <= p
        BY <1>7, <1>8, <2>1, <3>1
    <3> QED
        BY <3>2 DEF p
  <2> QED
      BY <1>5, <2>1, <2>2, <2>3, <2>4 DEF DayInProgress
<1>12. rows' = rows => DayDone \/ DayInProgress
    BY <1>6 DEF SInv, DaysWhole
<1> QED
    BY <1>7, <1>9, <1>10, <1>11, <1>12

\* A stretch in front of a candle file ends with its last minute.
LEMMA StretchEndsFull ==
    ASSUME IInv, SInv, StretchEnds, rows' # {}, fold.until \in Slot
    PROVE  fold.until - 1 <= Max(rows')
<1> USE ConstantsFit
<1> DEFINE hand == InHand(fold, {})
           new == Clipped(fold, FinishBars(fold))
           x == fold.until - 1
           m == Max(rows')
<1>1. /\ Ends /\ Persist(new) /\ pc = "files" /\ fold # None
    BY DEF StretchEnds, Ends
<1>2. Bounded(new) /\ AppendUpTo(new, Horizon) /\ Horizon \in Slot /\ pc # "idle"
    BY <1>1, EndSound DEF Persist, Slot
<1>3. /\ rows \subseteq rows'
      /\ \A y \in rows' \ rows : y \in New(new.bars \cup new.filled)
      /\ \A y \in New(new.bars \cup new.filled) : y <= Horizon => y \in rows'
    BY <1>2, AppendFits
<1>4. m \in Nat /\ (\A r \in rows' : r <= m) /\ (rows # {} => LastSaved = Max(rows) /\ LastSaved <= m)
    BY <1>2, TailAfter
<1>5. /\ fold \in Fold /\ fold.from \in Nat /\ fold.until \in Nat /\ fold.last \in Int
      /\ fold.until <= Horizon
      /\ fold.pending # None => fold.pending \in Nat
  <2>1. fold \in Fold
      BY <1>1 DEF IInv, TypeOK
  <2> QED
      BY <2>1 DEF Fold, Slot
<1>6. /\ run.from <= fold.from /\ fold.from < fold.until
      /\ rows # {} => fold.close
      /\ fold.pending # None => fold.last < fold.pending
      /\ CaughtUp(fold)
    BY <1>1 DEF SInv, FoldApart, FoldCaughtUp
<1>7. LastSaved \in Nat /\ run.from \in Nat /\ (rows = {} => LastSaved = run.from)
  <2>1. LastSaved \in Slot /\ run.from \in Slot /\ (rows = {} => LastSaved = run.from)
      BY <1>2, MemoryIs
  <2> QED
      BY <2>1
<1>8. fold.until # Never
    BY <1>5 DEF Never
<1>9. /\ FinishBars(fold).bars = hand /\ FinishBars(fold).filled = FlatBelow(fold, hand, fold.until)
      /\ hand = IF fold.pending = None THEN {} ELSE {fold.pending}
    BY <1>8 DEF FinishBars, InHand
<1>10. x \in Nat /\ fold.from <= x /\ x < fold.until /\ x <= Horizon /\ x + 1 = fold.until
    BY <1>5, <1>6
<1>11. SUFFICES x <= m
    OBVIOUS
<1> HIDE DEF m, hand, x
<1>12. ASSUME x \in FinishBars(fold).bars \cup FinishBars(fold).filled
       PROVE  x <= m
  <2>1. x \in new.bars \cup new.filled
      BY <1>10, <1>12 DEF Clipped
  <2> HIDE DEF new
  <2>2. CASE x > LastSaved \/ (rows = {} /\ x = LastSaved)
    <3>1. x \in rows'
        BY <1>3, <1>10, <2>1, <2>2 DEF New
    <3> QED
        BY <1>4, <3>1
  <2>3. CASE ~(x > LastSaved \/ (rows = {} /\ x = LastSaved))
    <3>1. x <= LastSaved
        BY <1>7, <1>10, <2>3
    <3>2. rows # {}
      <4>1. SUFFICES ASSUME rows = {} PROVE FALSE
          OBVIOUS
      <4>2. LastSaved = run.from /\ x # LastSaved
          BY <1>7, <2>3, <4>1
      <4> QED
          BY <1>5, <1>6, <1>7, <1>10, <3>1, <4>2
    <3> QED
        BY <1>4, <1>7, <1>10, <3>1, <3>2
  <2> QED
      BY <2>2, <2>3
<1>13. CASE fold.close /\ fold.last < x
  <2>1. x \in hand \cup FlatBelow(fold, hand, fold.until)
      BY <1>5, <1>10, <1>13 DEF FlatBelow
  <2>8. x \in FinishBars(fold).bars \cup FinishBars(fold).filled
      BY <1>9, <2>1
  <2> QED
      BY <1>12, <2>8
<1>14. CASE fold.close /\ ~(fold.last < x)
  <2>1. x <= fold.last /\ ~(fold.last < fold.from)
      BY <1>5, <1>10, <1>14
  <2>2. CASE rows = {} /\ fold.until <= fold.last
    <3>1. \A y \in new.bars \cup new.filled : FALSE
      <4>1. SUFFICES ASSUME NEW y \in new.bars \cup new.filled PROVE FALSE
          OBVIOUS
      <4>2. y \in hand \cup FlatBelow(fold, hand, fold.until) /\ y < fold.until
          BY <1>9 DEF Clipped
      <4>3. y \in Int /\ fold.last < y
        <5>1. CASE y \in hand
            BY <1>5, <1>6, <1>9, <5>1
        <5>2. CASE y \in FlatBelow(fold, hand, fold.until)
            BY <1>5, <1>14, <5>2 DEF FlatBelow
        <5> QED
            BY <4>2, <5>1, <5>2
      <4> QED
          BY <1>5, <2>2, <4>2, <4>3
    <3>2. New(new.bars \cup new.filled) = {}
        BY <3>1 DEF New
    <3> QED
        BY <1>3, <2>2, <3>2
  <2>3. CASE rows # {} /\ (fold.last <= Max(rows) \/ x <= Max(rows))
    <3> DEFINE a == Max(rows)
    <3>1. /\ a \in Nat /\ a <= m
          /\ fold.last <= a \/ x <= a
        BY <1>4, <1>7, <2>3
    <3> HIDE DEF a
    <3> QED
        BY <1>4, <1>5, <1>10, <2>1, <3>1
  <2> QED
      BY <1>6, <1>14, <2>1, <2>2, <2>3 DEF CaughtUp, x
<1>15. CASE ~fold.close
  <2>1. rows = {}
      BY <1>6, <1>15
  <2>2. PICK y \in new.bars \cup new.filled : TRUE
      BY <1>3, <2>1 DEF New
  <2>3. y \in hand \cup FlatBelow(fold, hand, fold.until) /\ y < fold.until
      BY <1>9 DEF Clipped
  <2>4. hand = {fold.pending} /\ fold.pending \in Nat
      BY <1>5, <1>9, <1>15, <2>3 DEF FlatBelow
  <2>5. Min(hand) = fold.pending
    <3>1. Min(hand) \in hand
      <4>1. hand \in SUBSET Nat /\ hand # {}
          BY <2>4
      <4> QED
          BY <4>1, FirstOf
    <3> QED
        BY <2>4, <3>1
  <2>6. fold.pending <= x
    <3>1. fold.pending <= y /\ y \in Int
        BY <1>5, <1>15, <2>3, <2>4, <2>5 DEF FlatBelow
    <3> QED
        BY <1>10, <2>3, <2>4, <3>1
  <2>7. x \in hand \cup FlatBelow(fold, hand, fold.until)
    <3>1. x \in fold.pending .. fold.until - 1
        BY <1>10, <2>4, <2>6
    <3> QED
        BY <1>15, <2>4, <2>5, <3>1 DEF FlatBelow
  <2>8. x \in FinishBars(fold).bars \cup FinishBars(fold).filled
      BY <1>9, <2>7
  <2> QED
      BY <1>12, <2>8
<1> QED
    BY <1>13, <1>14, <1>15

\* An open stretch ends with the last trade: it is the tail, and nothing of its
\* day is to come.
LEMMA OpenEnd ==
    ASSUME IInv, SInv, Whole, StretchEnds, rows' # {}, fold.until = Never,
           rows' = rows => DayInProgress,
           NEW t \in venue.traded, Foldable(t, Begin), t > Max(rows')
    PROVE  DayStart(t) > Max(rows')
<1> USE ConstantsFit
<1> DEFINE new == Clipped(fold, FinishBars(fold))
           m == Max(rows')
<1>1. /\ Ends /\ Persist(new) /\ pc = "files" /\ fold # None
    BY DEF StretchEnds, Ends
<1>2. Bounded(new) /\ AppendUpTo(new, Horizon) /\ Horizon \in Slot /\ pc # "idle"
    BY <1>1, EndSound DEF Persist, Slot
<1>3. /\ \A y \in New(new.bars \cup new.filled) : y <= Horizon => y \in rows'
    BY <1>2, AppendFits
<1>4. /\ m \in Nat /\ (\A r \in rows' : r <= m)
      /\ rows # {} => LastSaved = Max(rows)
      /\ \/ rows' = rows
         \/ m \in New(new.bars \cup new.filled) /\ (rows # {} => LastSaved < m)
    BY <1>2, TailAfter
<1>5. /\ FinishBars(fold).filled = {}
      /\ FinishBars(fold).bars = IF fold.pending = None THEN {} ELSE {fold.pending}
    BY DEF FinishBars, InHand
<1>6. /\ LastSaved \in Nat /\ run.now \in Nat /\ (rows = {} => LastSaved = run.from)
      /\ venue.traded \subseteq Slot /\ t \in Nat
  <2>1. LastSaved \in Slot /\ run.now \in Nat /\ (rows = {} => LastSaved = run.from)
      BY <1>2, MemoryIs
  <2> QED
      BY <2>1, VenueFits DEF IInv, TypeOK
<1>7. fold.from \in Nat
    BY <1>1 DEF IInv, TypeOK, Fold
<1>8. fold.pending # None =>
        /\ fold.pending \in venue.traded /\ fold.pending \in Nat /\ fold.pending <= Horizon
        /\ Settled(fold.pending, run.now)
  <2>1. fold.pending # None => fold.pending \in venue.traded /\ Settled(fold.pending, run.now)
      BY <1>1 DEF IInv, FoldFits
  <2>2. \A s \in venue.traded : s \in Nat /\ s <= Horizon
      BY <1>6 DEF Slot
  <2> QED
      BY <2>1, <2>2
<1>9. rows' # rows
  <2>1. SUFFICES ASSUME rows' = rows PROVE FALSE
      OBVIOUS
  <2>2. fold.pending # None /\ m < fold.pending /\ fold.from <= fold.pending
      BY <2>1 DEF DayInProgress
  <2>3. fold.pending < fold.until
      BY <1>8, <2>2 DEF Never
  <2>4. fold.pending \in new.bars \cup new.filled
      BY <1>5, <2>2, <2>3 DEF Clipped
  <2> HIDE DEF new, m
  <2>5. LastSaved = m
      BY <1>4, <2>1 DEF m
  <2>6. fold.pending \in rows'
      BY <1>3, <1>4, <1>8, <2>2, <2>4, <2>5 DEF New
  <2>7. fold.pending <= m
      BY <1>4, <2>6
  <2> QED
      BY <1>4, <1>8, <2>2, <2>7
<1>10. /\ fold.pending # None /\ m = fold.pending
       /\ LastSaved <= m
  <2>1. m \in New(new.bars \cup new.filled) /\ (rows # {} => LastSaved < m)
      BY <1>4, <1>9
  <2>2. m \in new.bars \cup new.filled
      BY <2>1 DEF New
  <2>3. m \in FinishBars(fold).bars \cup FinishBars(fold).filled
      BY <2>2 DEF Clipped
  <2>4. LastSaved <= m
      BY <1>4, <1>6, <2>1 DEF New
  <2> QED
      BY <1>5, <2>3, <2>4
<1> HIDE DEF m, new
<1>11. SUFFICES ASSUME DayStart(t) <= m PROVE FALSE
  <2>1. DayStart(t) \in Nat
      BY <1>6, StartsFit
  <2> QED
      BY <1>4, <2>1 DEF m
<1>12. m < t
    BY <1>4, <1>6 DEF m
<1>13. Settled(t, run.now)
  <2>1. /\ MonthStart(t) \in Nat /\ t < MonthStart(t) + Month /\ MonthStart(t) % Month = 0
        /\ DayStart(t) \in Nat /\ t < DayStart(t) + Day /\ DayStart(t) % Day = 0
        /\ MonthStart(t) <= DayStart(t)
      BY <1>6, StartsFit, MonthBeginsDay
  <2>2. DayStart(m) = DayStart(t)
    <3>1. m < DayStart(t) + Day
        BY <1>4, <1>6, <1>12, <2>1
    <3> QED
        BY <1>4, <1>11, <2>1, <3>1, FloorIs DEF DayStart
  <2>3. MonthStart(m) = MonthStart(t)
    <3>1. m < MonthStart(t) + Month /\ MonthStart(t) <= m
        BY <1>4, <1>6, <1>11, <1>12, <2>1
    <3> QED
        BY <1>4, <2>1, <3>1, FloorIs DEF MonthStart
  <2>4. Settled(m, run.now)
      BY <1>8, <1>10
  <2> QED
      BY <2>2, <2>3, <2>4 DEF Settled
<1>14. t > LastSaved
    BY <1>4, <1>6, <1>10, <1>12
<1>15. Awaited(t)
    BY <1>1 DEF Awaited
<1>16. ~InFold(t)
    BY <1>4, <1>6, <1>10, <1>12 DEF InFold
<1>17. PICK g \in plan : InEntry(t, g)
    BY <1>1, <1>13, <1>14, <1>15, <1>16 DEF SInv, TradesPlanned
<1>18. g.trades /\ g.date <= t
    BY <1>17 DEF InEntry, Rows
<1>19. m < g.date
    BY <1>1, <1>10, <1>18 DEF SInv, FoldApart
<1>20. g.date \in Nat /\ g.date % Day = 0
  <2>1. g.date \in Nat /\ FileFits(g.date, g.span, run.now)
      BY PlannedFits
  <2> QED
      BY <2>1, MonthsAreDays DEF FileFits
<1>21. g.date <= DayStart(t)
    BY <1>6, <1>18, <1>20, FloorIsLast DEF DayStart
<1>22. DayStart(t) \in Nat
    BY <1>6, StartsFit
<1> QED
    BY <1>4, <1>11, <1>19, <1>20, <1>21, <1>22

\* The end of a stretch leaves no day half folded.
LEMMA StretchEndsDays ==
    ASSUME IInv, SInv, StretchEnds
    PROVE  DaysWhole'
<1> USE ConstantsFit
<1> DEFINE new == Clipped(fold, FinishBars(fold))
           m == Max(rows')
<1>1. /\ Ends /\ Persist(new) /\ pc = "files" /\ fold # None
      /\ venue' = venue /\ cutShort' = cutShort
    BY DEF StretchEnds, Ends, world
<1>2. Bounded(new) /\ AppendUpTo(new, Horizon) /\ Horizon \in Slot /\ pc # "idle"
    BY <1>1, EndSound DEF Persist, Slot
<1>3. SUFFICES ASSUME Whole, rows' # {}, NEW t \in venue.traded, Foldable(t, Begin),
                      t > m, Near(t)
               PROVE  DayStart(t) > m
    BY <1>1, <1>2, BeginStays
    DEF DaysWhole, DayDone, Foldable, MonthStart, DayStart, Near, Whole
<1>4. CASE rows' = rows /\ DayDone
  <2>1. Begin = since
      BY <1>2, <1>3, <1>4, BeginStays
  <2> QED
      BY <1>3, <1>4, <2>1 DEF DayDone
<1>5. ASSUME rows' = rows => DayInProgress
      PROVE  DayStart(t) > m
  <2>1. m \in Nat /\ (rows' = rows \/ m \in New(new.bars \cup new.filled))
      BY <1>2, <1>3, TailAfter
  <2>2. m < fold.until
    <3>1. CASE rows' = rows
        BY <1>5, <3>1 DEF DayInProgress
    <3>2. CASE m \in New(new.bars \cup new.filled)
        BY <3>2 DEF New, Clipped
    <3> QED
        BY <2>1, <3>1, <3>2
  <2>3. CASE fold.until = Never
      BY <1>3, <1>5, <2>3, OpenEnd
  <2>4. CASE fold.until # Never
    <3> DEFINE u == fold.until
    <3>1. PICK d \in Slot, span \in {MonthlySpan, Day} :
               /\ Rows(venue.archived, d, run.now) # {}
               /\ u = Min(Rows(venue.archived, d, run.now))
        BY <1>1, <2>4 DEF IInv, FoldFits, HandOver
    <3>2. venue \in Venues /\ venue.traded \subseteq Slot
        BY VenueFits DEF IInv, TypeOK
    <3>3. u \in venue.archived /\ u \in Slot
        BY <3>1, <3>2, FirstRow
    <3>4. u - 1 <= m
        BY <1>3, <3>3, StretchEndsFull
    <3>5. t \in Nat /\ u \in Nat /\ Begin \in Nat
        BY <1>2, <3>2, <3>3, BeginFits
    <3>6. u < MonthStart(t) - Month \/ MonthStart(t) + Month <= u
        BY <1>3, <3>3, <3>5, FoldableApart
    <3>7. /\ MonthStart(t) \in Nat /\ DayStart(t) \in Nat
          /\ t < MonthStart(t) + Month /\ MonthStart(t) <= DayStart(t)
        BY <3>5, StartsFit, MonthBeginsDay
    <3> HIDE DEF u, m
    <3>8. u <= t
        BY <1>3, <2>1, <3>4, <3>5
    <3>9. u < DayStart(t)
        BY <3>5, <3>6, <3>7, <3>8
    <3>10. m < u
        BY <2>2 DEF u
    <3>11. DayStart(t) > m
        BY <2>1, <3>5, <3>7, <3>9, <3>10
    <3> QED
        BY <3>11 DEF m
  <2> QED
      BY <2>3, <2>4
<1>6. rows' = rows => DayDone \/ DayInProgress
    BY <1>3 DEF SInv, DaysWhole
<1> QED
    BY <1>4, <1>5, <1>6

-----------------------------------------------------------------------------
(* The steps keep the second invariant *)

\* What is stored of the stretches is still stored when the file stays.
LEMMA FoldedStays ==
    ASSUME Folded, rows' = rows, flat' = flat, since' = since, venue' = venue, Whole' => Whole
    PROVE  Folded'
    BY DEF Folded, Foldable, MonthStart

\* Without a fold nothing is said of one.
LEMMA NoFold ==
    ASSUME fold' = None
    PROVE  FoldApart' /\ FoldCaughtUp'
    BY DEF FoldApart, FoldCaughtUp

\* A run that is over has nothing planned.
LEMMA FinishFolds ==
    ASSUME SInv, Finish, clock' = clock, Folded', DaysWhole'
    PROVE  SInv'
<1>1. pc' = "idle" /\ plan' = {} /\ fold' = None
    BY DEF Finish
<1>2. KnownTime'
    BY <1>1 DEF SInv, KnownTime
<1>3. EntriesApart' /\ TradesPlanned'
    BY <1>1 DEF EntriesApart, TradesPlanned
<1> QED
    BY <1>1, <1>2, <1>3, NoFold DEF SInv

\* Within a run the time that is known and the entries stay.
LEMMA RunGoesOn ==
    ASSUME SInv, pc # "idle", run' = run, clock' = clock, plan' \subseteq plan
    PROVE  KnownTime' /\ EntriesApart'
    BY EntriesStayApart DEF SInv, KnownTime

\* A new run plans every minute that is to come.
LEMMA StartRunFolds ==
    ASSUME IInv, SInv, StartRun
    PROVE  SInv'
<1>1. PICK floor \in Floors :
        LET from == IF rows = {} THEN floor ELSE Max(rows)
        IN  run' = [from |-> from, now |-> clock] /\ plan' = Plan(from, clock)
    BY DEF StartRun
<1> DEFINE from == IF rows = {} THEN floor ELSE Max(rows)
<1>2. /\ pc = "idle" /\ rows' = rows /\ flat' = flat /\ fold' = fold /\ venue' = venue
      /\ since' = since /\ cutShort' = cutShort /\ clock' = clock
    BY DEF StartRun, file, world
<1>3. fold = None /\ TypeOK
    BY <1>2 DEF IInv, MemoryFits
<1>4. from \in Slot
  <2>1. rows # {} => Max(rows) \in Slot
      BY <1>3, LastInHand DEF TypeOK
  <2> QED
      BY <2>1, FloorsAssumption
<1>5. run'.now = clock /\ run'.from = from /\ plan' = Plan(from, clock)
    BY <1>1
<1> HIDE DEF from
<1>6. KnownTime'
    BY <1>2, <1>5 DEF SInv, KnownTime
<1>7. EntriesApart'
    BY <1>3, <1>4, <1>5, PlanApart DEF EntriesApart, SameStretch
<1>8. Folded' /\ DaysWhole'
    BY <1>2, FoldedStays, DayStays DEF SInv, Whole
<1> QED
    BY <1>2, <1>3, <1>6, <1>7, <1>8, NoFold, StartRunPlans DEF SInv

\* An entry that is passed over had nothing behind the tail.
LEMMA SkipEntryFolds ==
    ASSUME IInv, SInv, NEW e \in plan, SkipEntry(e)
    PROVE  SInv'
<1>1. /\ pc = "files" /\ plan' \subseteq plan
      /\ rows' = rows /\ flat' = flat /\ run' = run /\ fold' = fold /\ venue' = venue
      /\ since' = since /\ cutShort' = cutShort /\ clock' = clock
    BY DEF SkipEntry, Current, file, world
<1>2. Folded' /\ DaysWhole'
    BY <1>1, FoldedStays, DayStays DEF SInv, Whole
<1>3. FoldApart' /\ FoldCaughtUp'
    BY <1>1, FoldStaysApart DEF SInv
<1>4. KnownTime' /\ EntriesApart'
    BY <1>1, RunGoesOn
<1> QED
    BY <1>2, <1>3, <1>4, SkipEntryPlans DEF SInv

\* A trade file adds its minutes and keeps the last one in progress.
LEMMA FoldTradesFolds ==
    ASSUME IInv, SInv, NEW e \in plan, FoldTrades(e)
    PROVE  SInv'
<1> DEFINE new == Clipped(Active(e), FeedBars(Active(e), HandAt(e)))
<1>1. /\ Folds(e) /\ Persist(new) /\ pc = "files" /\ plan' \subseteq plan
      /\ run' = run /\ venue' = venue /\ cutShort' = cutShort /\ clock' = clock
    BY DEF FoldTrades, Folds, Current, world
<1>2. Bounded(new) /\ AppendUpTo(new, Horizon) /\ Horizon \in Slot /\ pc # "idle"
    BY <1>1, FoldedSound, ConstantsFit DEF Persist, Slot
<1>3. Whole => Complete(new)
    BY <1>1, FoldedComplete
<1>4. Folded'
  <2>1. Folded /\ (Whole' => Whole)
      BY <1>1 DEF SInv, Whole
  <2> HIDE DEF new
  <2> QED
      BY <1>1, <1>2, <1>3, <2>1, AppendFolds
<1>5. KnownTime' /\ EntriesApart'
    BY <1>1, <1>2, RunGoesOn
<1> QED
    BY <1>4, <1>5, FoldTradesPlans, FoldTradesApart, FoldTradesCatchesUp, FoldTradesDays DEF SInv

\* The end of a stretch closes it completely.
LEMMA StretchEndsFolds ==
    ASSUME IInv, SInv, StretchEnds
    PROVE  SInv'
<1> DEFINE new == Clipped(fold, FinishBars(fold))
<1>1. /\ Ends /\ Persist(new) /\ pc = "files" /\ fold' = None /\ plan' \subseteq plan
      /\ run' = run /\ venue' = venue /\ cutShort' = cutShort /\ clock' = clock
    BY DEF StretchEnds, Ends, world
<1>2. Bounded(new) /\ AppendUpTo(new, Horizon) /\ Horizon \in Slot /\ pc # "idle"
    BY <1>1, EndSound, ConstantsFit DEF Persist, Slot
<1>3. Whole => Complete(new)
    BY <1>1, EndComplete
<1>4. Folded'
  <2>1. Folded /\ (Whole' => Whole)
      BY <1>1 DEF SInv, Whole
  <2> HIDE DEF new
  <2> QED
      BY <1>1, <1>2, <1>3, <2>1, AppendFolds
<1>5. KnownTime' /\ EntriesApart'
    BY <1>1, <1>2, RunGoesOn
<1>6. FoldApart' /\ FoldCaughtUp'
    BY <1>1, NoFold
<1> QED
    BY <1>4, <1>5, <1>6, StretchEndsPlans, StretchEndsDays DEF SInv

\* A candle file follows a stretch that is done.
LEMMA AppendCandlesFolds ==
    ASSUME IInv, SInv, NEW e \in plan, AppendCandles(e)
    PROVE  SInv'
<1> DEFINE new == CandlesAt(e)
<1>1. /\ Takes(e) /\ Persist(new) /\ pc = "files" /\ fold = None /\ fold' = None
      /\ plan' \subseteq plan
      /\ run' = run /\ venue' = venue /\ cutShort' = cutShort /\ clock' = clock
    BY DEF AppendCandles, Takes, Current, world
<1>2. Bounded(new) /\ AppendUpTo(new, Horizon) /\ Horizon \in Slot /\ pc # "idle"
    BY <1>1, CandlesSound, ConstantsFit DEF Persist, Slot
<1>3. Whole => Complete(new)
    BY <1>1, CandlesComplete
<1>4. Whole' => Whole
    BY <1>1 DEF Whole
<1>5. \E d \in plan : Takes(d) /\ new = CandlesAt(d)
    BY <1>1
<1> HIDE DEF new
<1>6. Folded'
    BY <1>1, <1>2, <1>3, <1>4, AppendFolds DEF SInv
<1>7. DaysWhole'
    BY <1>1, <1>2, <1>4, <1>5, AppendLeavesDays
<1>8. KnownTime' /\ EntriesApart'
    BY <1>1, <1>2, RunGoesOn
<1>9. FoldApart' /\ FoldCaughtUp'
    BY <1>1, NoFold
<1> QED
    BY <1>6, <1>7, <1>8, <1>9, AppendCandlesPlans DEF SInv

\* Nothing of a stretch is left behind the last entry.
LEMMA FilesDoneFolds ==
    ASSUME IInv, SInv, FilesDone
    PROVE  SInv'
<1>1. /\ pc = "files" /\ pc' = "rest" /\ plan' = plan /\ fold = None /\ fold' = None
      /\ rows' = rows /\ flat' = flat /\ run' = run /\ venue' = venue
      /\ since' = since /\ cutShort' = cutShort /\ clock' = clock
    BY DEF FilesDone, Goto, file, world
<1>2. Folded' /\ DaysWhole'
    BY <1>1, FoldedStays, DayStays DEF SInv, Whole
<1>3. KnownTime' /\ EntriesApart'
    BY <1>1, RunGoesOn
<1>4. TradesPlanned'
    BY <1>1 DEF TradesPlanned
<1> QED
    BY <1>1, <1>2, <1>3, <1>4, NoFold DEF SInv

\* REST passes no minute of a stretch, or the history variable says so.
LEMMA AppendRestFolds ==
    ASSUME IInv, SInv, AppendRest
    PROVE  SInv'
<1> DEFINE new == Recent
<1>1. /\ pc = "rest" /\ Persist(new) /\ cutShort' = (cutShort \/ RestPasses) /\ Finish
      /\ venue' = venue /\ clock' = clock
    BY DEF AppendRest, world
<1>2. Bounded(new) /\ AppendUpTo(new, Horizon) /\ Horizon \in Slot /\ pc # "idle" /\ fold = None
    BY <1>1, RecentSound, ConstantsFit DEF Persist, Slot, IInv, MemoryFits
<1>3. Whole' => Whole /\ ~RestPasses
    BY <1>1 DEF Whole
<1>4. CASE RestPasses
    BY <1>1, <1>3, <1>4, FinishFolds DEF Folded, DaysWhole
<1>5. CASE ~RestPasses
  <2>1. Complete(new)
      BY <1>1, <1>5, RecentComplete
  <2>2. pc = "rest" /\ new = Recent
      BY <1>1
  <2> HIDE DEF new
  <2>3. Folded'
      BY <1>1, <1>2, <1>3, <2>1, AppendFolds DEF SInv
  <2>4. DaysWhole'
      BY <1>1, <1>2, <1>3, <2>2, AppendLeavesDays
  <2> QED
      BY <1>1, <2>3, <2>4, FinishFolds
<1> QED
    BY <1>4, <1>5

\* A run that ends inside a stretch is recorded.
LEMMA RunFailsFolds ==
    ASSUME IInv, SInv, RunFails
    PROVE  SInv'
<1>1. /\ cutShort' = (cutShort \/ InStretch) /\ Finish
      /\ rows' = rows /\ flat' = flat /\ since' = since /\ venue' = venue /\ clock' = clock
    BY DEF RunFails, file, world
<1>2. Whole' => Whole /\ ~InStretch
    BY <1>1 DEF Whole
<1>3. CASE InStretch
    BY <1>1, <1>2, <1>3, FinishFolds DEF Folded, DaysWhole
<1>4. CASE ~InStretch
  <2>1. fold = None
      BY <1>4 DEF InStretch
  <2>2. Folded' /\ DaysWhole'
      BY <1>1, <1>2, <2>1, FoldedStays, DayStays DEF SInv
  <2> QED
      BY <1>1, <2>2, FinishFolds
<1> QED
    BY <1>3, <1>4

\* So is one that is killed there; else it was at a candle file or at REST.
LEMMA CutAppendFolds ==
    ASSUME IInv, SInv, CutAppend
    PROVE  SInv'
<1>1. PICK new \in InFlight, hi \in Slot : AppendUpTo(new, hi)
    BY DEF CutAppend
<1>2. /\ cutShort' = (cutShort \/ InStretch \/ RestPasses) /\ Finish
      /\ venue' = venue /\ clock' = clock
    BY DEF CutAppend
<1>3. Whole' => Whole /\ ~InStretch /\ ~RestPasses
    BY <1>2 DEF Whole
<1>4. CASE ~Whole'
    BY <1>2, <1>4, FinishFolds DEF Folded, DaysWhole
<1>5. CASE Whole'
  <2>1. Bounded(new) /\ pc # "idle"
      BY InFlightSound
  <2>2. /\ Complete(new) /\ fold = None
        /\ \/ \E e \in plan : Takes(e) /\ new = CandlesAt(e)
           \/ pc = "rest" /\ new = Recent
      BY <1>3, <1>5, InFlightComplete
  <2>3. Folded'
      BY <1>1, <1>2, <1>3, <1>5, <2>1, <2>2, AppendFolds DEF SInv
  <2>4. DaysWhole'
      BY <1>1, <1>2, <1>3, <1>5, <2>1, <2>2, AppendLeavesDays
  <2> QED
      BY <1>2, <2>3, <2>4, FinishFolds
<1> QED
    BY <1>4, <1>5

\* An empty file owes nothing.
LEMMA DeleteCsvFolds ==
    ASSUME IInv, SInv, DeleteCsv
    PROVE  SInv'
<1>1. /\ pc = "idle" /\ rows' = {} /\ pc' = pc /\ run' = run /\ plan' = plan /\ fold' = fold
      /\ clock' = clock
    BY DEF DeleteCsv, memory
<1>2. fold' = None /\ plan' = {}
    BY <1>1 DEF IInv, MemoryFits
<1>3. Folded' /\ DaysWhole' /\ TradesPlanned'
    BY <1>1 DEF Folded, DaysWhole, TradesPlanned
<1>4. KnownTime' /\ EntriesApart'
    BY <1>1, <1>2 DEF SInv, KnownTime, EntriesApart
<1> QED
    BY <1>2, <1>3, <1>4, NoFold DEF SInv

\* Time and the network do not touch what a run has in hand.
LEMMA WorldFolds ==
    ASSUME IInv, SInv, UNCHANGED <<file, memory, venue, since, cutShort>>, clock <= clock',
           clock' \in Slot
    PROVE  SInv'
<1>1. /\ rows' = rows /\ flat' = flat /\ pc' = pc /\ run' = run /\ plan' = plan
      /\ fold' = fold /\ venue' = venue /\ since' = since /\ cutShort' = cutShort
    BY DEF file, memory
<1>2. Folded' /\ DaysWhole'
    BY <1>1, FoldedStays, DayStays DEF SInv, Whole
<1>3. FoldApart' /\ FoldCaughtUp' /\ EntriesApart'
    BY <1>1, FoldStaysApart, EntriesStayApart DEF SInv
<1>4. KnownTime'
  <2>1. clock \in Nat /\ clock' \in Nat /\ FirstClock \in Nat
      BY FloorsAssumption, ConstantsFit DEF IInv, TypeOK
  <2> QED
      BY <1>1, <2>1 DEF SInv, KnownTime
<1>5. TradesPlanned'
    BY <1>1 DEF SInv, TradesPlanned, Whole, Foldable, Begin, LastSaved, Settled, Awaited,
       InFold, InEntry, Rows, MonthStart, DayStart
<1> QED
    BY <1>2, <1>3, <1>4, <1>5 DEF SInv

\* A new file owes nothing either.
LEMMA InitFolds == Init => SInv
<1> SUFFICES ASSUME Init PROVE SInv
    OBVIOUS
<1>1. pc = "idle" /\ rows = {} /\ plan = {} /\ fold = None /\ clock = FirstClock
    BY DEF Init
<1>2. FirstClock \in Nat
    BY FloorsAssumption, ConstantsFit
<1> QED
    BY <1>1, <1>2 DEF SInv, KnownTime, EntriesApart, FoldApart, FoldCaughtUp, Folded,
       TradesPlanned, DaysWhole

\* Every step keeps the second invariant.
LEMMA NextFolds == IInv /\ SInv /\ [Next]_vars => SInv'
<1> SUFFICES ASSUME IInv, SInv, [Next]_vars PROVE SInv'
    OBVIOUS
<1>1. clock \in Nat /\ clock \in Slot /\ Horizon \in Nat
    BY ConstantsFit DEF IInv, TypeOK
<1>2. CASE Worker
    BY <1>2, StartRunFolds, StretchEndsFolds, FilesDoneFolds, AppendRestFolds,
       SkipEntryFolds, FoldTradesFolds, AppendCandlesFolds DEF Worker
<1>3. CASE RunFails
    BY <1>3, RunFailsFolds
<1>4. CASE CutAppend
    BY <1>4, CutAppendFolds
<1>5. CASE DeleteCsv
    BY <1>5, DeleteCsvFolds
<1>6. CASE Tick
  <2>1. clock <= clock' /\ clock' \in Slot
      BY <1>1, <1>6 DEF Tick, Slot
  <2> QED
      BY <1>6, <2>1, WorldFolds DEF Tick
<1>7. CASE Heal
  <2>1. clock' = clock
      BY <1>7 DEF Heal
  <2> QED
      BY <1>1, <1>7, <2>1, WorldFolds DEF Heal
<1>8. CASE UNCHANGED vars
  <2>1. clock' = clock
      BY <1>8 DEF vars, world
  <2> QED
      BY <1>1, <1>8, <2>1, WorldFolds DEF vars, world
<1> QED
    BY <1>2, <1>3, <1>4, <1>5, <1>6, <1>7, <1>8 DEF Next

\* The second invariant holds beside the first one: what is stored up to the
\* tail, in hand and still planned covers every minute of a stretch.
THEOREM StretchInvariance == Spec => [](IInv /\ SInv)
<1>1. Init => IInv /\ SInv
    BY InitInvariant, InitFolds
<1>2. IInv /\ SInv /\ [Next]_vars => IInv' /\ SInv'
    BY NextInvariant, NextFolds
<1> QED
    BY <1>1, <1>2, PTL DEF Spec

\* A month without candle files is stored minute by minute from the trades, for
\* every calendar, archive and venue within the assumptions, as long as no run
\* ended inside a stretch and REST did not pass one
\* (okx_downloader.cpp:834-843).
THEOREM StretchesFolded == Spec => []StretchFolded
<1>1. IInv /\ SInv => StretchFolded
  <2>1. SUFFICES ASSUME IInv, SInv, ~cutShort, rows # {}, ~venue.funding,
                        NEW t \in venue.traded, Foldable(t, since), t < Max(rows)
                 PROVE  t \in rows \ flat
      BY DEF StretchFolded
  <2>2. t \in Nat /\ Max(rows) \in Nat
    <3>1. Max(rows) \in Slot
        BY <2>1, LastInHand DEF IInv, TypeOK
    <3>2. t \in Slot
        BY <2>1, VenueFits DEF IInv, TypeOK
    <3> QED
        BY <3>1, <3>2, ConstantsFit
  <2>3. t <= Max(rows)
      BY <2>1, <2>2
  <2> QED
      BY <2>1, <2>3 DEF SInv, Folded, Whole
<1> QED
    BY <1>1, StretchInvariance, PTL
=============================================================================
