------------------------- MODULE CandleFiles_proofs -------------------------
(***************************************************************************)
(* Proofs about CandleAggregator and CandleFiles for every source, target, *)
(* width of a bar, clock and number of downloads and faults: the rows that *)
(* are kept are as many as could be, what a bar is made of, and when one   *)
(* may go away.                                                            *)
(***************************************************************************)
EXTENDS CandleFiles, NumberSets_proofs

-----------------------------------------------------------------------------
(* selectLongestIncreasingTimestamps: the scan *)

\* What tails and before hold after n timestamps; level[i] is the length of the
\* longest increasing subsequence that ends at i.
ScanFits(times, n, scan, level) ==
    LET tails == scan.tails
        before == scan.before
    IN  /\ tails \in Seq(1 .. n)
        /\ before \in Seq(0 .. n) /\ Len(before) = n
        /\ level \in [1 .. n -> 1 .. Len(tails)]
        /\ \A p \in 1 .. Len(tails) : level[tails[p]] = p
        /\ \A p, q \in 1 .. Len(tails) : p < q => times[tails[p]] < times[tails[q]]
        /\ \A i \in 1 .. n : times[tails[level[i]]] <= times[i]
        /\ \A i \in 1 .. n :
              \/ before[i] = 0 /\ level[i] = 1
              \/ /\ before[i] \in 1 .. i - 1
                 /\ level[before[i]] = level[i] - 1
                 /\ times[before[i]] < times[i]
        /\ \A i, j \in 1 .. n : i < j /\ times[i] < times[j] => level[i] < level[j]

\* lower_bound: the tails below a timestamp are the first ones.
LEMMA PositionFits ==
    ASSUME NEW times \in Seq(Int), NEW n \in Nat, n <= Len(times),
           NEW tails \in Seq(1 .. n),
           \A p, q \in 1 .. Len(tails) : p < q => times[tails[p]] < times[tails[q]],
           NEW i \in 1 .. Len(times)
    PROVE  /\ Position(times, tails, i) \in 1 .. Len(tails) + 1
           /\ \A p \in 1 .. Len(tails) :
                 times[tails[p]] < times[i] <=> p < Position(times, tails, i)
<1> DEFINE L == Len(tails)
           low == {k \in 1 .. L : times[tails[k]] < times[i]}
<1>1. L \in Nat /\ DOMAIN tails = 1 .. L
    OBVIOUS
<1>2. \A p \in 1 .. L : tails[p] \in 1 .. Len(times) /\ times[tails[p]] \in Int
    OBVIOUS
<1>3. Position(times, tails, i) = Cardinality(low) + 1
    BY <1>1 DEF Position
<1>4. times[i] \in Int
    OBVIOUS
<1>5. \A p, q \in 1 .. L : p < q /\ q \in low => p \in low
  <2>1. TAKE p, q \in 1 .. L
  <2>2. HAVE p < q /\ q \in low
  <2>3. times[tails[p]] < times[tails[q]] /\ times[tails[q]] < times[i]
      BY <2>2
  <2>4. times[tails[p]] < times[i]
    <3>1. times[tails[p]] \in Int /\ times[tails[q]] \in Int
        BY <1>2
    <3>2. \A x, y, z \in Int : x < y /\ y < z => x < z
        OBVIOUS
    <3> QED
        BY <1>4, <2>3, <3>1, <3>2
  <2> QED
      BY <2>4
<1>6. CASE low = {}
  <2>1. Position(times, tails, i) = 1
    <3> HIDE DEF low
    <3> QED
        BY <1>3, <1>6, FS_EmptySet
  <2>2. \A p \in 1 .. L : ~(times[tails[p]] < times[i])
      BY <1>6
  <2> QED
      BY <1>1, <2>1, <2>2
<1>7. CASE low # {}
  <2>1. low \in SUBSET (0 .. L)
      OBVIOUS
  <2> DEFINE m == Max(low)
  <2>2. m \in low /\ \A y \in low : y <= m
    <3> HIDE DEF low
    <3> QED
        BY <1>1, <1>7, <2>1, LastOf
  <2>3. m \in 1 .. L
      BY <2>2
  <2> HIDE DEF m
  <2>4. low = 1 .. m
    <3>1. \A p \in 1 .. L : p \in low <=> p <= m
        BY <1>1, <1>5, <2>2, <2>3
    <3>2. low \subseteq 1 .. L
        OBVIOUS
    <3> QED
        BY <1>1, <2>3, <3>1, <3>2
  <2>5. Cardinality(1 .. m) = m
      BY <2>3, FS_Interval
  <2>6. Position(times, tails, i) = m + 1
      BY <1>3, <2>4, <2>5
  <2>7. \A p \in 1 .. L : times[tails[p]] < times[i] <=> p \in 1 .. m
      BY <2>4
  <2> QED
      BY <1>1, <2>3, <2>6, <2>7
<1> QED
    BY <1>6, <1>7

\* The next timestamp keeps the scan fitting.
LEMMA ExtendFits ==
    ASSUME NEW times \in Seq(Int), NEW n \in Nat, n + 1 <= Len(times),
           NEW scan, NEW level, ScanFits(times, n, scan, level)
    PROVE  \E next : ScanFits(times, n + 1, Extend(times, scan, n + 1), next)
<1> DEFINE tails == scan.tails
           before == scan.before
           m == n + 1
           pos == Position(times, tails, m)
           L == Len(tails)
           tails2 == IF pos > L THEN Append(tails, m) ELSE [tails EXCEPT ![pos] = m]
           before2 == Append(before, IF pos = 1 THEN 0 ELSE tails[pos - 1])
           level2 == [i \in 1 .. m |-> IF i = m THEN pos ELSE level[i]]
<1>1. /\ tails \in Seq(1 .. n) /\ L \in Nat
      /\ before \in Seq(0 .. n) /\ Len(before) = n
      /\ level \in [1 .. n -> 1 .. L]
      /\ \A p \in 1 .. L : level[tails[p]] = p
      /\ \A p, q \in 1 .. L : p < q => times[tails[p]] < times[tails[q]]
      /\ \A i \in 1 .. n : times[tails[level[i]]] <= times[i]
  <2>1. /\ tails \in Seq(1 .. n)
        /\ before \in Seq(0 .. n) /\ Len(before) = n
        /\ level \in [1 .. n -> 1 .. L]
        /\ \A p \in 1 .. L : level[tails[p]] = p
        /\ \A p, q \in 1 .. L : p < q => times[tails[p]] < times[tails[q]]
        /\ \A i \in 1 .. n : times[tails[level[i]]] <= times[i]
      BY DEF ScanFits
  <2>2. L \in Nat
    <3> HIDE DEF tails
    <3> QED
        BY <2>1
  <2> QED
      BY <2>1, <2>2
<1>2. /\ \A i \in 1 .. n :
            \/ before[i] = 0 /\ level[i] = 1
            \/ /\ before[i] \in 1 .. i - 1
               /\ level[before[i]] = level[i] - 1
               /\ times[before[i]] < times[i]
      /\ \A i, j \in 1 .. n : i < j /\ times[i] < times[j] => level[i] < level[j]
    BY DEF ScanFits
<1>3. Extend(times, scan, m) = [tails |-> tails2, before |-> before2]
    BY DEF Extend
<1>4. m \in 1 .. Len(times) /\ \A i \in 1 .. m : times[i] \in Int
    OBVIOUS
<1>5. /\ pos \in 1 .. L + 1
      /\ \A p \in 1 .. L : times[tails[p]] < times[m] <=> p < pos
  <2> HIDE DEF tails, pos, L
  <2>1. n <= Len(times) /\ Len(tails) = L
      BY DEF L
  <2> QED
      BY <1>1, <1>4, <2>1, PositionFits DEF pos, L
<1> HIDE DEF pos, L, tails, before
<1>0. \A p \in 1 .. L : tails[p] \in 1 .. n
  <2>1. tails \in Seq(1 .. n) /\ Len(tails) = L
      BY <1>1 DEF L
  <2> QED
      BY <2>1
<1> DEFINE L2 == IF pos > L THEN L + 1 ELSE L
<1>6. /\ tails2 \in Seq(1 .. m) /\ Len(tails2) = L2
      /\ \A p \in 1 .. L2 : tails2[p] = IF p = pos THEN m ELSE tails[p]
  <2>1. tails \in Seq(1 .. m) /\ Len(tails) = L
      BY <1>1 DEF L
  <2>2. CASE pos > L
    <3>1. pos = L + 1
        BY <1>1, <1>5, <2>2
    <3> QED
        BY <1>1, <2>1, <2>2, <3>1
  <2>3. CASE ~(pos > L)
      BY <1>1, <1>5, <2>1, <2>3
  <2> QED
      BY <2>2, <2>3
<1> HIDE DEF tails2
<1>7. /\ before2 \in Seq(0 .. m) /\ Len(before2) = m
      /\ \A i \in 1 .. m : before2[i] = IF i < m THEN before[i]
                                        ELSE IF pos = 1 THEN 0 ELSE tails[pos - 1]
  <2>1. before \in Seq(0 .. m)
      BY <1>1
  <2>2. (IF pos = 1 THEN 0 ELSE tails[pos - 1]) \in 0 .. m
    <3>1. CASE pos = 1
        BY <3>1
    <3>2. CASE pos # 1
      <4>1. pos - 1 \in 1 .. L
          BY <1>1, <1>5, <3>2
      <4>2. tails[pos - 1] \in 1 .. n
          BY <1>0, <4>1
      <4> QED
          BY <3>2, <4>2
    <3> QED
        BY <3>1, <3>2
  <2> QED
      BY <1>1, <2>1, <2>2
<1> HIDE DEF before2
<1>8. L2 \in Nat /\ L <= L2 /\ pos \in 1 .. L2
    BY <1>1, <1>5
<1>9. \A p \in 1 .. L : tails[p] \in 1 .. n /\ times[tails[p]] \in Int
  <2>1. TAKE p \in 1 .. L
  <2>2. tails[p] \in 1 .. n
      BY <1>0
  <2>3. tails[p] \in 1 .. m
      BY <2>2
  <2> QED
      BY <1>4, <2>2, <2>3
<1>10. \A p \in 1 .. L2 : p # pos => p \in 1 .. L
    BY <1>1, <1>5
<1> HIDE DEF L2
<1>11. level2 \in [1 .. m -> 1 .. L2]
  <2>1. \A i \in 1 .. m : i = m \/ i \in 1 .. n
      OBVIOUS
  <2>2. \A i \in 1 .. n : level[i] \in 1 .. L
      BY <1>1
  <2>3. 1 .. L \subseteq 1 .. L2
      BY <1>1, <1>8
  <2> QED
      BY <1>8, <2>1, <2>2, <2>3
<1>12. /\ level2[m] = pos
       /\ \A i \in 1 .. n : level2[i] = level[i] /\ i # m /\ i \in 1 .. m
    OBVIOUS
<1>13. \A i \in 1 .. m : i = m \/ i \in 1 .. n
    OBVIOUS
<1> HIDE DEF level2
<1>14. \A p \in 1 .. L2 : level2[tails2[p]] = p
  <2>1. TAKE p \in 1 .. L2
  <2>2. CASE p = pos
      BY <1>6, <1>12, <2>2
  <2>3. CASE p # pos
    <3>1. p \in 1 .. L /\ tails2[p] = tails[p] /\ tails[p] \in 1 .. n
        BY <1>6, <1>9, <1>10, <2>3
    <3> QED
        BY <1>1, <1>12, <3>1
  <2> QED
      BY <2>2, <2>3
<1>15. ASSUME NEW p \in 1 .. L2, NEW q \in 1 .. L2, p < q
       PROVE  times[tails2[p]] < times[tails2[q]]
  <2>1. CASE p # pos /\ q # pos
      BY <1>1, <1>6, <1>10, <1>15, <2>1
  <2>2. CASE p = pos
    <3>0. q # pos
        BY <1>15, <2>2
    <3>1. q # pos /\ q \in 1 .. L
        BY <1>10, <3>0
    <3>5. p \in 1 .. L
        BY <1>1, <1>8, <1>15, <2>2, <3>1
    <3>2. times[tails2[p]] = times[m] /\ times[tails2[q]] = times[tails[q]]
        BY <1>6, <2>2, <3>1
    <3>3. ~(times[tails[p]] < times[m])
        BY <1>5, <2>2, <3>5
    <3>4. times[tails[p]] < times[tails[q]]
        BY <1>1, <1>15, <3>1, <3>5
    <3> QED
        BY <1>4, <1>9, <3>1, <3>5, <3>2, <3>3, <3>4
  <2>3. CASE p # pos /\ q = pos
    <3>1. p \in 1 .. L
        BY <1>10, <2>3
    <3> QED
        BY <1>5, <1>6, <1>15, <2>3, <3>1
  <2> QED
      BY <2>1, <2>2, <2>3
<1>16. \A i \in 1 .. m : times[tails2[level2[i]]] <= times[i]
  <2>1. TAKE i \in 1 .. m
  <2>2. CASE i = m
      BY <1>4, <1>6, <1>8, <1>12, <2>2
  <2>3. CASE i \in 1 .. n
    <3>1. /\ level2[i] = level[i] /\ level[i] \in 1 .. L /\ level[i] \in 1 .. L2
          /\ times[tails[level[i]]] <= times[i]
        BY <1>1, <1>8, <1>12, <2>3
    <3>2. CASE level[i] = pos
      <4>1. ~(times[tails[pos]] < times[m]) /\ times[tails[pos]] \in Int
          BY <1>5, <1>9, <3>1, <3>2
      <4>2. times[tails2[level2[i]]] = times[m] /\ times[tails[pos]] <= times[i]
          BY <1>6, <3>1, <3>2
      <4> QED
          BY <1>4, <4>1, <4>2
    <3>3. CASE level[i] # pos
        BY <1>6, <3>1, <3>3
    <3> QED
        BY <3>2, <3>3
  <2> QED
      BY <1>13, <2>2, <2>3
<1>17. \A i \in 1 .. m :
          \/ before2[i] = 0 /\ level2[i] = 1
          \/ /\ before2[i] \in 1 .. i - 1
             /\ level2[before2[i]] = level2[i] - 1
             /\ times[before2[i]] < times[i]
  <2>1. TAKE i \in 1 .. m
  <2>2. CASE i = m
    <3>1. CASE pos = 1
        BY <1>7, <1>12, <2>2, <3>1
    <3>2. CASE pos # 1
      <4>1. pos - 1 \in 1 .. L /\ pos - 1 < pos
          BY <1>1, <1>5, <3>2
      <4>2. before2[m] = tails[pos - 1] /\ tails[pos - 1] \in 1 .. n
          BY <1>7, <1>9, <3>2, <4>1
      <4>3. times[tails[pos - 1]] < times[m] /\ level[tails[pos - 1]] = pos - 1
          BY <1>1, <1>5, <4>1
      <4> QED
          BY <1>12, <2>2, <4>2, <4>3
    <3> QED
        BY <3>1, <3>2
  <2>3. CASE i \in 1 .. n
    <3>1. before2[i] = before[i] /\ level2[i] = level[i]
        BY <1>7, <1>12, <2>3
    <3>2. CASE before[i] = 0 /\ level[i] = 1
        BY <3>1, <3>2
    <3>3. CASE /\ before[i] \in 1 .. i - 1
               /\ level[before[i]] = level[i] - 1
               /\ times[before[i]] < times[i]
      <4>1. before[i] \in 1 .. n
          BY <2>3, <3>3
      <4> QED
          BY <1>12, <3>1, <3>3, <4>1
    <3> QED
        BY <1>2, <2>3, <3>2, <3>3
  <2> QED
      BY <1>13, <2>2, <2>3
<1>18. ASSUME NEW i \in 1 .. m, NEW j \in 1 .. m, i < j, times[i] < times[j]
       PROVE  level2[i] < level2[j]
  <2>1. i \in 1 .. n
      BY <1>18
  <2>2. CASE j \in 1 .. n
      BY <1>2, <1>12, <1>18, <2>1, <2>2
  <2>3. CASE j = m
    <3>1. level[i] \in 1 .. L /\ times[tails[level[i]]] <= times[i]
        BY <1>1, <2>1
    <3>2. times[tails[level[i]]] < times[m]
        BY <1>4, <1>9, <1>18, <2>3, <3>1
    <3> QED
        BY <1>5, <1>12, <2>1, <2>3, <3>1, <3>2
  <2> QED
      BY <1>13, <2>2, <2>3
<1> DEFINE s2 == [tails |-> tails2, before |-> before2]
<1>19. ScanFits(times, m, s2, level2)
  <2>1. s2.tails = tails2 /\ s2.before = before2
      OBVIOUS
  <2> HIDE DEF s2, m
  <2> QED
      BY <1>6, <1>7, <1>11, <1>14, <1>15, <1>16, <1>17, <1>18, <2>1 DEF ScanFits
<1> QED
    BY <1>3, <1>19

\* Scans is the function its definition describes.
LEMMA ScansUnfold ==
    ASSUME NEW times \in Seq(Int)
    PROVE  Scans(times) = [n \in 0 .. Len(times) |->
                             IF n = 0 THEN {[tails |-> <<>>, before |-> <<>>]}
                             ELSE {Extend(times, scan, n) : scan \in Scans(times)[n - 1]}]
<1> DEFINE L == Len(times)
           First == {[tails |-> <<>>, before |-> <<>>]}
           After(S, n) == {Extend(times, scan, n) : scan \in S}
           P == {k \in Nat : \E g : g = [n \in 0 .. k |-> IF n = 0 THEN First
                                                          ELSE After(g[n - 1], n)]}
<1>1. L \in Nat
    OBVIOUS
<1> HIDE DEF First, After
<1>2. 0 \in P
  <2> DEFINE g == [n \in 0 .. 0 |-> First]
  <2>1. g = [n \in 0 .. 0 |-> IF n = 0 THEN First ELSE After(g[n - 1], n)]
      OBVIOUS
  <2> QED
      BY <2>1
<1>3. \A k \in P : k + 1 \in P
  <2>1. TAKE k \in P
  <2>2. PICK g : g = [n \in 0 .. k |-> IF n = 0 THEN First ELSE After(g[n - 1], n)]
      OBVIOUS
  <2> DEFINE h == [n \in 0 .. k + 1 |-> IF n = k + 1 THEN After(g[k], n) ELSE g[n]]
  <2>3. \A n \in 0 .. k + 1 : h[n] = IF n = 0 THEN First ELSE After(h[n - 1], n)
    <3>1. TAKE n \in 0 .. k + 1
    <3>2. CASE n = k + 1
      <4>1. h[n] = After(g[k], n) /\ h[n - 1] = g[k] /\ n # 0
          BY <3>2
      <4> QED
          BY <4>1
    <3>3. CASE n # k + 1
      <4>1. n \in 0 .. k /\ (n # 0 => n - 1 \in 0 .. k /\ n - 1 # k + 1)
          BY <3>3
      <4>2. h[n] = g[n] /\ (n # 0 => h[n - 1] = g[n - 1])
          BY <3>3, <4>1
      <4>3. g[n] = IF n = 0 THEN First ELSE After(g[n - 1], n)
          BY <2>2, <4>1
      <4> QED
          BY <4>2, <4>3
    <3> QED
        BY <3>2, <3>3
  <2>4. h = [n \in 0 .. k + 1 |-> IF n = 0 THEN First ELSE After(h[n - 1], n)]
    <3>1. h = [n \in 0 .. k + 1 |-> h[n]]
        OBVIOUS
    <3> HIDE DEF h
    <3> QED
        BY <2>3, <3>1
  <2> HIDE DEF h
  <2>5. k + 1 \in Nat
      OBVIOUS
  <2> QED
      BY <2>4, <2>5
<1>4. P = Nat
  <2>1. P \in SUBSET Nat
      OBVIOUS
  <2> HIDE DEF P
  <2> QED
      BY <1>2, <1>3, <2>1, Induction
<1>5. \E g : g = [n \in 0 .. L |-> IF n = 0 THEN First ELSE After(g[n - 1], n)]
  <2>1. L \in P
      BY <1>1, <1>4
  <2> QED
      BY <2>1
<1>6. Scans(times) = CHOOSE g : g = [n \in 0 .. L |-> IF n = 0 THEN First
                                                      ELSE After(g[n - 1], n)]
    BY DEF Scans, First, After
<1>7. Scans(times) = [n \in 0 .. L |-> IF n = 0 THEN First
                                       ELSE After(Scans(times)[n - 1], n)]
    BY <1>5, <1>6
<1> QED
    BY <1>7 DEF First, After

\* After all timestamps there is one scan, and it fits.
LEMMA PatienceFits ==
    ASSUME NEW times \in Seq(Int)
    PROVE  \E scan, level : /\ Patience(times) = {scan}
                            /\ ScanFits(times, Len(times), scan, level)
<1> DEFINE L == Len(times)
           P == {n \in Nat : n <= L => \E scan, level :
                    Scans(times)[n] = {scan} /\ ScanFits(times, n, scan, level)}
<1>1. L \in Nat
    OBVIOUS
<1>2. /\ Scans(times)[0] = {[tails |-> <<>>, before |-> <<>>]}
      /\ \A n \in 1 .. L :
            Scans(times)[n] = {Extend(times, scan, n) : scan \in Scans(times)[n - 1]}
  <2> DEFINE First == {[tails |-> <<>>, before |-> <<>>]}
             After(S, n) == {Extend(times, scan, n) : scan \in S}
  <2>1. Scans(times) = [n \in 0 .. L |-> IF n = 0 THEN First
                                         ELSE After(Scans(times)[n - 1], n)]
      BY ScansUnfold
  <2> HIDE DEF First, After
  <2>2. Scans(times)[0] = First
      BY <1>1, <2>1
  <2>3. \A n \in 1 .. L : Scans(times)[n] = After(Scans(times)[n - 1], n)
      BY <1>1, <2>1
  <2> QED
      BY <2>2, <2>3 DEF First, After
<1>3. 0 \in P
  <2> DEFINE scan == [tails |-> <<>>, before |-> <<>>]
             level == [i \in 1 .. 0 |-> 0]
  <2>1. scan.tails = <<>> /\ scan.before = <<>>
      OBVIOUS
  <2>2. Len(<<>>) = 0 /\ \A S : <<>> \in Seq(S)
      OBVIOUS
  <2>3. level \in [1 .. 0 -> 1 .. 0]
      OBVIOUS
  <2> HIDE DEF scan, level
  <2>4. ScanFits(times, 0, scan, level)
      BY <2>1, <2>2, <2>3 DEF ScanFits
  <2>5. Scans(times)[0] = {scan}
      BY <1>2 DEF scan
  <2> QED
      BY <2>4, <2>5
<1>4. \A n \in P : n + 1 \in P
  <2>1. TAKE n \in P
  <2>2. SUFFICES ASSUME n + 1 <= L
                 PROVE  \E scan, level : /\ Scans(times)[n + 1] = {scan}
                                         /\ ScanFits(times, n + 1, scan, level)
      OBVIOUS
  <2>3. n \in Nat /\ n <= L /\ n + 1 \in 1 .. L /\ (n + 1) - 1 = n
      BY <1>1, <2>2
  <2>4. PICK scan, level : Scans(times)[n] = {scan} /\ ScanFits(times, n, scan, level)
      BY <2>3
  <2>5. Scans(times)[n + 1] = {Extend(times, s, n + 1) : s \in Scans(times)[n]}
      BY <1>2, <2>3
  <2>6. Scans(times)[n + 1] = {Extend(times, scan, n + 1)}
      BY <2>4, <2>5
  <2>7. \E next : ScanFits(times, n + 1, Extend(times, scan, n + 1), next)
      BY <2>2, <2>3, <2>4, ExtendFits
  <2> QED
      BY <2>6, <2>7
<1>5. P = Nat
  <2>1. P \in SUBSET Nat
      OBVIOUS
  <2> HIDE DEF P
  <2> QED
      BY <1>3, <1>4, <2>1, Induction
<1>6. L \in P
    BY <1>1, <1>5
<1> QED
    BY <1>1, <1>6 DEF Patience

-----------------------------------------------------------------------------
(* selectLongestIncreasingTimestamps: the chain *)

\* Chains is the function its definition describes: a predecessor is earlier.
LEMMA ChainsUnfold ==
    ASSUME NEW n \in Nat, NEW before \in Seq(0 .. n), Len(before) = n,
           \A i \in 1 .. n : before[i] \in 0 .. i - 1
    PROVE  Chains(before) = [i \in 0 .. n |-> IF i = 0 THEN {}
                                              ELSE {i} \cup Chains(before)[before[i]]]
<1> DEFINE P == {k \in Nat : k <= n => \E g : g = [i \in 0 .. k |-> IF i = 0 THEN {}
                                                       ELSE {i} \cup g[before[i]]]}
<1>1. 0 \in P
  <2> DEFINE g == [i \in 0 .. 0 |-> {}]
  <2>1. g = [i \in 0 .. 0 |-> IF i = 0 THEN {} ELSE {i} \cup g[before[i]]]
      OBVIOUS
  <2> QED
      BY <2>1
<1>2. \A k \in P : k + 1 \in P
  <2>1. TAKE k \in P
  <2>2. SUFFICES ASSUME k + 1 <= n
                 PROVE  \E g : g = [i \in 0 .. k + 1 |-> IF i = 0 THEN {}
                                                         ELSE {i} \cup g[before[i]]]
      OBVIOUS
  <2>3. k \in Nat /\ k <= n /\ k + 1 \in 1 .. n
      BY <2>2
  <2>4. PICK g : g = [i \in 0 .. k |-> IF i = 0 THEN {} ELSE {i} \cup g[before[i]]]
      BY <2>3
  <2> DEFINE h == [i \in 0 .. k + 1 |-> IF i = k + 1 THEN {i} \cup g[before[i]] ELSE g[i]]
  <2>5. \A i \in 0 .. k + 1 : h[i] = IF i = 0 THEN {} ELSE {i} \cup h[before[i]]
    <3>1. TAKE i \in 0 .. k + 1
    <3>2. i # 0 => before[i] \in 0 .. k /\ before[i] # k + 1 /\ before[i] \in 0 .. k + 1
      <4>1. i # 0 => i \in 1 .. n /\ i - 1 <= k
          BY <2>3
      <4> QED
          BY <2>3, <4>1
    <3>3. i # 0 => h[before[i]] = g[before[i]]
        BY <3>2
    <3>4. CASE i = k + 1
        BY <2>3, <3>3, <3>4
    <3>5. CASE i # k + 1
      <4>1. i \in 0 .. k
          BY <2>3, <3>5
      <4>2. h[i] = g[i]
          BY <3>5
      <4>3. g[i] = IF i = 0 THEN {} ELSE {i} \cup g[before[i]]
          BY <2>4, <4>1
      <4> QED
          BY <3>3, <4>2, <4>3
    <3> QED
        BY <3>4, <3>5
  <2>6. h = [i \in 0 .. k + 1 |-> IF i = 0 THEN {} ELSE {i} \cup h[before[i]]]
    <3>1. h = [i \in 0 .. k + 1 |-> h[i]]
        OBVIOUS
    <3> HIDE DEF h
    <3> QED
        BY <2>5, <3>1
  <2> HIDE DEF h
  <2> QED
      BY <2>6
<1>3. P = Nat
  <2>1. P \in SUBSET Nat
      OBVIOUS
  <2> HIDE DEF P
  <2> QED
      BY <1>1, <1>2, <2>1, Induction
<1>4. \E g : g = [i \in 0 .. n |-> IF i = 0 THEN {} ELSE {i} \cup g[before[i]]]
  <2>1. n \in P
      BY <1>3
  <2> QED
      BY <2>1
<1>5. Chains(before) = CHOOSE g : g = [i \in 0 .. n |-> IF i = 0 THEN {}
                                                        ELSE {i} \cup g[before[i]]]
    BY DEF Chains
<1> QED
    BY <1>4, <1>5

\* The chain of i goes up to i, its times increase, and it is as long as i's level.
LEMMA ChainFits ==
    ASSUME NEW times \in Seq(Int), NEW n \in Nat, n <= Len(times),
           NEW scan, NEW level, ScanFits(times, n, scan, level)
    PROVE  \A i \in 1 .. n :
              LET chain == Chains(scan.before)[i]
              IN  /\ i \in chain /\ chain \subseteq 1 .. i
                  /\ Increasing(times, chain)
                  /\ IsFiniteSet(chain) /\ Cardinality(chain) = level[i]
<1> DEFINE before == scan.before
           chain == Chains(before)
           Fits(i) == /\ i \in chain[i] /\ chain[i] \subseteq 1 .. i
                      /\ Increasing(times, chain[i])
                      /\ IsFiniteSet(chain[i]) /\ Cardinality(chain[i]) = level[i]
           P == {i \in Nat : i \in 1 .. n => Fits(i)}
<1>1. /\ before \in Seq(0 .. n) /\ Len(before) = n
      /\ \A i \in 1 .. n :
            \/ before[i] = 0 /\ level[i] = 1
            \/ /\ before[i] \in 1 .. i - 1
               /\ level[before[i]] = level[i] - 1
               /\ times[before[i]] < times[i]
    BY DEF ScanFits
<1>2. \A i \in 1 .. n : level[i] \in Nat /\ times[i] \in Int
  <2>1. level \in [1 .. n -> 1 .. Len(scan.tails)] /\ scan.tails \in Seq(1 .. n)
      BY DEF ScanFits
  <2>2. Len(scan.tails) \in Nat
      BY <2>1
  <2> HIDE DEF ScanFits
  <2> QED
      BY <2>1, <2>2
<1> HIDE DEF before
<1>3. /\ chain[0] = {}
      /\ \A i \in 1 .. n : chain[i] = {i} \cup chain[before[i]]
  <2>1. \A i \in 1 .. n : before[i] \in 0 .. i - 1
    <3>1. TAKE i \in 1 .. n
    <3>2. before[i] = 0 \/ before[i] \in 1 .. i - 1
        BY <1>1
    <3> QED
        BY <3>2
  <2>2. chain = [i \in 0 .. n |-> IF i = 0 THEN {} ELSE {i} \cup chain[before[i]]]
      BY <1>1, <2>1, ChainsUnfold
  <2> HIDE DEF chain
  <2>3. \A i \in 0 .. n : chain[i] = IF i = 0 THEN {} ELSE {i} \cup chain[before[i]]
      BY <2>2
  <2>4. 0 \in 0 .. n /\ \A i \in 1 .. n : i \in 0 .. n /\ i # 0
      OBVIOUS
  <2> QED
      BY <2>3, <2>4
<1> HIDE DEF chain
<1>4. \A i \in Nat : (\A k \in 0 .. i - 1 : k \in P) => i \in P
  <2>1. TAKE i \in Nat
  <2>2. HAVE \A k \in 0 .. i - 1 : k \in P
  <2>3. SUFFICES ASSUME i \in 1 .. n PROVE Fits(i)
      OBVIOUS
  <2>4. chain[i] = {i} \cup chain[before[i]]
      BY <1>3, <2>3
  <2>5. CASE before[i] = 0 /\ level[i] = 1
    <3>1. chain[i] = {i}
        BY <1>3, <2>4, <2>5
    <3>2. IsFiniteSet({i}) /\ Cardinality({i}) = 1
        BY FS_Singleton
    <3>3. Increasing(times, {i})
        BY DEF Increasing
    <3> QED
        BY <2>3, <2>5, <3>1, <3>2, <3>3
  <2>6. CASE /\ before[i] \in 1 .. i - 1
             /\ level[before[i]] = level[i] - 1
             /\ times[before[i]] < times[i]
    <3> DEFINE b == before[i]
    <3>1. b \in 1 .. n /\ b < i
        BY <2>3, <2>6
    <3>2. Fits(b)
        BY <2>2, <2>6, <3>1
    <3> HIDE DEF b, Fits, P
    <3>3. /\ b \in chain[b] /\ chain[b] \subseteq 1 .. b
          /\ Increasing(times, chain[b])
          /\ IsFiniteSet(chain[b]) /\ Cardinality(chain[b]) = level[b]
        BY <3>2 DEF Fits
    <3>4. chain[i] = chain[b] \cup {i} /\ ~(i \in chain[b])
        BY <2>4, <3>1, <3>3 DEF b
    <3>5. IsFiniteSet(chain[i]) /\ Cardinality(chain[i]) = level[b] + 1
      <4>1. /\ IsFiniteSet(chain[b] \cup {i})
            /\ Cardinality(chain[b] \cup {i}) = Cardinality(chain[b]) + 1
          BY <3>3, <3>4, FS_AddElement
      <4> QED
          BY <3>3, <3>4, <4>1
    <3>6. Cardinality(chain[i]) = level[i]
        BY <1>2, <2>3, <2>6, <3>5 DEF b
    <3>7. chain[i] \subseteq 1 .. i /\ i \in chain[i]
        BY <2>3, <3>1, <3>3, <3>4
    <3>8. Increasing(times, chain[i])
      <4>1. SUFFICES ASSUME NEW k \in chain[i], NEW l \in chain[i], k < l
                     PROVE  times[k] < times[l]
          BY DEF Increasing
      <4>2. CASE l # i
        <5>1. l \in chain[b] /\ l < i
            BY <3>1, <3>3, <3>4, <4>2
        <5>2. k # i
            BY <2>3, <3>1, <3>3, <4>1, <5>1
        <5> QED
            BY <3>3, <3>4, <4>1, <5>1, <5>2 DEF Increasing
      <4>3. CASE l = i
        <5>1. k \in chain[b] /\ k \in 1 .. n
            BY <2>3, <3>1, <3>3, <3>4, <4>1, <4>3
        <5>2. k < b \/ k = b
            BY <3>1, <3>3, <5>1
        <5>3. k < b => times[k] < times[b]
            BY <3>3, <5>1 DEF Increasing
        <5>4. times[b] < times[i]
            BY <2>6 DEF b
        <5>5. times[k] \in Int /\ times[b] \in Int /\ times[i] \in Int
            BY <1>2, <2>3, <3>1, <5>1
        <5> QED
            BY <4>3, <5>2, <5>3, <5>4, <5>5
      <4> QED
          BY <4>2, <4>3
    <3> QED
        BY <3>5, <3>6, <3>7, <3>8 DEF Fits
  <2> QED
      BY <1>1, <2>3, <2>5, <2>6
<1>5. P = Nat
  <2>1. P \in SUBSET Nat
      OBVIOUS
  <2> HIDE DEF P
  <2> QED
      BY <1>4, <2>1, StrongInduction
<1>6. \A i \in 1 .. n : Fits(i)
  <2>1. TAKE i \in 1 .. n
  <2>2. i \in P
      BY <1>5
  <2> QED
      BY <2>2
<1> QED
    BY <1>6 DEF chain, before

\* No increasing subsequence is longer than the one the scan ends with.
LEMMA KeepFits ==
    ASSUME NEW times \in Seq(Int)
    PROVE  Keep(times) \in LongestIncreasing(times)
<1> DEFINE L == Len(times)
<1>1. L \in Nat /\ DOMAIN times = 1 .. L
    OBVIOUS
<1>2. PICK scan, level : Patience(times) = {scan} /\ ScanFits(times, L, scan, level)
    BY PatienceFits
<1> DEFINE tails == scan.tails
           M == Len(tails)
<1>3. /\ tails \in Seq(1 .. L) /\ level \in [1 .. L -> 1 .. M]
      /\ \A p \in 1 .. M : level[tails[p]] = p
      /\ \A i, j \in 1 .. L : i < j /\ times[i] < times[j] => level[i] < level[j]
    BY <1>2 DEF ScanFits
<1> HIDE DEF tails
<1>4. M \in Nat
    BY <1>3
<1>5. Keep(times) = Chain(scan)
    BY <1>2 DEF Keep
<1>6. /\ Keep(times) \subseteq 1 .. L /\ Increasing(times, Keep(times))
      /\ Cardinality(Keep(times)) = M
  <2>1. CASE tails = <<>>
    <3>1. Keep(times) = {} /\ M = 0
        BY <1>5, <2>1 DEF Chain, tails
    <3>2. Cardinality({}) = 0
        BY FS_EmptySet
    <3> QED
        BY <3>1, <3>2 DEF Increasing
  <2>2. CASE tails # <<>>
    <3>1. M \in 1 .. M /\ Last(tails) = tails[M]
        BY <1>3, <1>4, <2>2 DEF Last
    <3>2. tails[M] \in 1 .. L
        BY <1>3, <3>1
    <3>3. Keep(times) = Chains(scan.before)[tails[M]]
        BY <1>5, <2>2, <3>1 DEF Chain, tails
    <3>4. L \in Nat /\ L <= Len(times)
        BY <1>1
    <3> HIDE DEF L
    <3>5. LET chain == Chains(scan.before)[tails[M]]
          IN  /\ tails[M] \in chain /\ chain \subseteq 1 .. tails[M]
              /\ Increasing(times, chain)
              /\ IsFiniteSet(chain) /\ Cardinality(chain) = level[tails[M]]
        BY <1>2, <3>2, <3>4, ChainFits
    <3>6. Keep(times) \subseteq 1 .. L
        BY <3>2, <3>3, <3>4, <3>5
    <3> QED
        BY <1>3, <3>1, <3>3, <3>5, <3>6
  <2> QED
      BY <2>1, <2>2
<1>7. ASSUME NEW T \in SUBSET (1 .. L), Increasing(times, T)
      PROVE  Cardinality(T) <= M
  <2> DEFINE f == [i \in T |-> level[i]]
  <2>1. IsFiniteSet(T)
    <3> HIDE DEF L
    <3>1. IsFiniteSet(1 .. L)
        BY <1>1, FS_Interval
    <3> QED
        BY <3>1, FS_Subset
  <2>2. IsFiniteSet(1 .. M) /\ Cardinality(1 .. M) = M
    <3> HIDE DEF M
    <3> QED
        BY <1>4, FS_Interval
  <2>3. f \in [T -> 1 .. M]
      BY <1>3
  <2>4. \A i, j \in T : i < j => level[i] < level[j]
      BY <1>3, <1>7 DEF Increasing
  <2>5. \A i, j \in T : f[i] = f[j] => i = j
    <3>1. TAKE i, j \in T
    <3>2. i < j \/ j < i \/ i = j
        OBVIOUS
    <3>3. level[i] \in 1 .. M /\ level[j] \in 1 .. M
        BY <1>3
    <3>4. level[i] \in Int /\ level[j] \in Int
        BY <3>3
    <3>5. level[i] = level[j] \/ f[i] # f[j]
        OBVIOUS
    <3> QED
        BY <2>4, <3>2, <3>4, <3>5, <3>2, <3>3
  <2>6. f \in Injection(T, 1 .. M)
      BY <2>3, <2>5 DEF Injection, IsInjective
  <2> HIDE DEF f
  <2> QED
      BY <2>1, <2>2, <2>6, FS_Injection
<1> QED
  <2>1. Keep(times) \in {S \in SUBSET DOMAIN times : Increasing(times, S)}
      BY <1>1, <1>6
  <2> HIDE DEF M
  <2>2. \A T \in {S \in SUBSET DOMAIN times : Increasing(times, S)} :
           Cardinality(T) <= Cardinality(Keep(times))
      BY <1>1, <1>6, <1>7
  <2> QED
      BY <2>1, <2>2 DEF LongestIncreasing

-----------------------------------------------------------------------------
(* Buckets, lines and candidates *)

\* bucketStartForTimestamp: the bucket of a slot is the one whose slots have it.
LEMMA BucketFits ==
    ASSUME NEW s \in Int, NEW b \in Int
    PROVE  /\ BucketOf(s) \in Int
           /\ BucketOf(s) = b <=> s \in BucketSlots(b)
           /\ 0 <= s => 0 <= BucketOf(s)
<1> DEFINE B == BucketBars
           q == s \div B
<1>1. B \in Nat \ {0}
    BY BucketAssumption
<1> HIDE DEF B
<1>2. q \in Int /\ B * q <= s /\ s < B * q + B
    BY <1>1
<1>3. B * b <= s /\ s < B * b + B => q = b
    BY <1>1
<1>4. s \in BucketSlots(b) <=> B * b <= s /\ s < B * b + B
    BY <1>1 DEF BucketSlots, B
<1>5. 0 <= s => 0 <= q
    BY <1>1
<1> QED
    BY <1>2, <1>3, <1>4, <1>5 DEF BucketOf, B

\* A line has a slot, and one of no kind a slot below all others.
LEMMA LineFits ==
    ASSUME NEW lines \in Seq(Line), NEW i \in DOMAIN lines
    PROVE  /\ lines[i] \in Line /\ lines[i].slot \in Int
           /\ \/ lines[i].kind \in Wide
              \/ lines[i].kind = "torn"
              \/ lines[i].kind \in {"blind", "misaligned"} /\ lines[i].slot < 0
           /\ Time(lines[i]) \in Int /\ SlotAfter(lines[i]) \in Int
<1>1. lines[i] \in Line
    OBVIOUS
<1>2. lines[i].kind = "misaligned" => lines[i].after \in Int
    BY <1>1 DEF Line, Blind
<1>3. /\ lines[i].slot \in Int
      /\ \/ lines[i].kind \in Wide
         \/ lines[i].kind = "torn"
         \/ lines[i].kind \in {"blind", "misaligned"} /\ lines[i].slot < 0
    BY <1>1 DEF Line, Blind, Wide
<1> QED
    BY <1>1, <1>2, <1>3 DEF Time, SlotAfter

\* The slots of the competing lines, in the order of the file.
LEMMA TimesFit ==
    ASSUME NEW lines \in Seq(Line), NEW at \in Nat
    PROVE  LET order == Candidates(lines, at)
               times == Times(lines, at)
               N == Cardinality(Competing(lines, at))
           IN  /\ N \in Nat /\ times \in Seq(Int) /\ DOMAIN times = 1 .. N
               /\ order \in [1 .. N -> Competing(lines, at)]
               /\ \A i \in Competing(lines, at) : \E n \in 1 .. N : order[n] = i
               /\ \A m, n \in 1 .. N : m < n => order[m] < order[n]
               /\ \A n \in 1 .. N : times[n] = lines[order[n]].slot
<1> DEFINE S == Competing(lines, at)
           N == Cardinality(S)
           order == Candidates(lines, at)
           times == Times(lines, at)
<1>1. S \in SUBSET DOMAIN lines
    BY DEF Competing
<1> HIDE DEF S
<1>2. IsFiniteSet(S) /\ S \subseteq Int
  <2>1. DOMAIN lines = 1 .. Len(lines) /\ Len(lines) \in Nat
      OBVIOUS
  <2>2. IsFiniteSet(1 .. Len(lines))
      BY <2>1, FS_Interval
  <2> QED
      BY <1>1, <2>1, <2>2, FS_Subset
<1>3. /\ N \in Nat
      /\ InOrder(S) \in [1 .. N -> S]
      /\ \A i \in S : \E n \in 1 .. N : InOrder(S)[n] = i
      /\ \A m, n \in 1 .. N : m < n => InOrder(S)[m] < InOrder(S)[n]
    BY <1>2, InOrderFits
<1>4. order = InOrder(S)
    BY DEF Candidates, S
<1>5. times = [k \in DOMAIN order |-> lines[order[k]].slot]
    BY DEF Times
<1> HIDE DEF N, order, times
<1>6. /\ order \in [1 .. N -> S] /\ DOMAIN order = 1 .. N
    BY <1>3, <1>4
<1>7. \A n \in 1 .. N : lines[order[n]].slot \in Int
    BY <1>1, <1>6, LineFits
<1>8. times \in [1 .. N -> Int] /\ DOMAIN times = 1 .. N
    BY <1>5, <1>6, <1>7
<1>9. times \in Seq(Int)
    BY <1>3, <1>8
<1>10. \A n \in 1 .. N : times[n] = lines[order[n]].slot
    BY <1>5, <1>6
<1> QED
    BY <1>3, <1>4, <1>6, <1>8, <1>9, <1>10 DEF N, S, order, times

\* What the second pass finds again.
KeptRows(lines, at) == {Candidates(lines, at)[k] : k \in Keep(Times(lines, at))}

\* The rows that are kept are in order, and none could be added: whatever else
\* competes breaks the order together with one of them.
KeptFit(lines, at, kept) ==
    /\ kept \subseteq Competing(lines, at)
    /\ \A i, j \in kept : i < j => lines[i].slot < lines[j].slot
    /\ \A j \in Competing(lines, at) \ kept : \E i \in kept :
          \/ i < j /\ lines[i].slot >= lines[j].slot
          \/ j < i /\ lines[j].slot >= lines[i].slot

LEMMA KeptRowsFit ==
    ASSUME NEW lines \in Seq(Line), NEW at \in Nat
    PROVE  KeptFit(lines, at, KeptRows(lines, at))
<1> DEFINE S == Competing(lines, at)
           N == Cardinality(S)
           order == Candidates(lines, at)
           times == Times(lines, at)
           K == Keep(times)
           kept == KeptRows(lines, at)
<1>1. /\ N \in Nat /\ times \in Seq(Int) /\ DOMAIN times = 1 .. N
      /\ order \in [1 .. N -> S]
      /\ \A i \in S : \E n \in 1 .. N : order[n] = i
      /\ \A m, n \in 1 .. N : m < n => order[m] < order[n]
      /\ \A n \in 1 .. N : times[n] = lines[order[n]].slot
    BY TimesFit
<1>2. kept = {order[k] : k \in K}
    BY DEF KeptRows
<1>3. S \subseteq Int /\ \A i \in S : lines[i].slot \in Int
    BY LineFits DEF Competing
<1> HIDE DEF S, N, order, times, kept
<1>4. K \in LongestIncreasing(times)
    BY <1>1, KeepFits
<1> HIDE DEF K
<1>5. /\ K \in SUBSET (1 .. N) /\ Increasing(times, K)
      /\ \A T \in SUBSET (1 .. N) : Increasing(times, T) => Cardinality(T) <= Cardinality(K)
    BY <1>1, <1>4 DEF LongestIncreasing
<1>6. \A m \in 1 .. N : order[m] \in S /\ order[m] \in Int /\ times[m] \in Int
    BY <1>1, <1>3
<1>7. \A m, n \in 1 .. N : order[m] < order[n] => m < n
  <2>1. TAKE m, n \in 1 .. N
  <2>2. HAVE order[m] < order[n]
  <2>3. m < n \/ m = n \/ n < m
      OBVIOUS
  <2>4. n < m => order[n] < order[m]
      BY <1>1
  <2>5. order[m] \in Int /\ order[n] \in Int
      BY <1>6
  <2> QED
      BY <2>2, <2>3, <2>4, <2>5
<1>8. kept \subseteq S
    BY <1>1, <1>2, <1>5
<1>9. ASSUME NEW i \in kept, NEW j \in kept, i < j
      PROVE  lines[i].slot < lines[j].slot
  <2>1. PICK m \in K : i = order[m]
      BY <1>2
  <2>2. PICK n \in K : j = order[n]
      BY <1>2
  <2>3. m \in 1 .. N /\ n \in 1 .. N /\ m < n
      BY <1>5, <1>7, <1>9, <2>1, <2>2
  <2>4. times[m] < times[n]
      BY <1>5, <2>1, <2>2, <2>3 DEF Increasing
  <2> QED
      BY <1>1, <2>1, <2>2, <2>3, <2>4
<1>10. ASSUME NEW j \in S \ kept
       PROVE  \E i \in kept : \/ i < j /\ lines[i].slot >= lines[j].slot
                              \/ j < i /\ lines[j].slot >= lines[i].slot
  <2>1. PICK n \in 1 .. N : order[n] = j
      BY <1>1
  <2>2. n \notin K
      BY <1>2, <1>10, <2>1
  <2>3. ~Increasing(times, K \cup {n})
    <3>1. IsFiniteSet(K) /\ Cardinality(K) \in Nat
      <4>1. IsFiniteSet(1 .. N)
          BY <1>1, FS_Interval
      <4> QED
          BY <1>5, <4>1, FS_Subset, FS_CardinalityType
    <3>2. Cardinality(K \cup {n}) = Cardinality(K) + 1
        BY <2>2, <3>1, FS_AddElement
    <3>3. K \cup {n} \in SUBSET (1 .. N)
        BY <1>5
    <3>4. Increasing(times, K \cup {n}) => Cardinality(K \cup {n}) <= Cardinality(K)
        BY <1>5, <3>3
    <3> QED
        BY <3>1, <3>2, <3>4
  <2>4. PICK a, b \in K \cup {n} : a < b /\ ~(times[a] < times[b])
      BY <2>3 DEF Increasing
  <2>5. a = n \/ b = n
      BY <1>5, <2>4 DEF Increasing
  <2>6. a \in 1 .. N /\ b \in 1 .. N /\ a # b
      BY <1>5, <2>4
  <2>7. order[a] < order[b] /\ lines[order[a]].slot >= lines[order[b]].slot
    <3>1. times[a] = lines[order[a]].slot /\ times[b] = lines[order[b]].slot
        BY <1>1, <2>6
    <3>2. times[a] \in Int /\ times[b] \in Int
        BY <1>6, <2>6
    <3>3. times[a] >= times[b]
        BY <2>4, <3>2
    <3> QED
        BY <1>1, <2>4, <2>6, <3>1, <3>3
  <2>8. CASE a = n
    <3>1. order[b] \in kept
        BY <1>2, <2>4, <2>6, <2>8
    <3> QED
        BY <2>1, <2>7, <2>8, <3>1
  <2>9. CASE b = n
    <3>1. order[a] \in kept
        BY <1>2, <2>4, <2>6, <2>9
    <3> QED
        BY <2>1, <2>7, <2>9, <3>1
  <2> QED
      BY <2>5, <2>8, <2>9
<1> QED
    BY <1>8, <1>9, <1>10 DEF KeptFit, kept, S

-----------------------------------------------------------------------------
(* What one run of aggregateFile makes of its source *)

\* A source of which no line is ahead of the time it was written at.
LinesFit(lines, written) ==
    /\ lines \in Seq(Line)
    /\ \A i \in DOMAIN lines : lines[i].slot <= written

\* Which lines compete, where none is ahead of the clock.
LEMMA CompetingIs ==
    ASSUME NEW at \in Nat, NEW written \in Nat, written <= at,
           NEW lines, LinesFit(lines, written),
           NEW i \in DOMAIN lines
    PROVE  /\ Safe(lines[i].slot, at) <=> 0 <= lines[i].slot
           /\ i \in Competing(lines, at) <=> lines[i].kind \in Wide /\ 0 <= lines[i].slot
<1>1. lines[i].slot \in Int /\ lines[i].slot <= written
    BY LineFits DEF LinesFit
<1>2. Safe(lines[i].slot, at) <=> 0 <= lines[i].slot
    BY <1>1, BucketAssumption DEF Safe
<1> QED
    BY <1>2 DEF Competing

\* The kept rows, as rows of the file.
LEMMA KeptIs ==
    ASSUME NEW at \in Nat, NEW written \in Nat, written <= at,
           NEW lines, LinesFit(lines, written),
           NEW kept, KeptFit(lines, at, kept)
    PROVE  /\ \A i \in kept : /\ i \in DOMAIN lines /\ lines[i].kind \in Wide
                              /\ lines[i].slot \in Nat /\ lines[i].slot <= written
                              /\ BucketOf(lines[i].slot) \in Nat
           /\ \A i \in Competing(lines, at) \ kept : OutOfOrder(lines, i)
<1>1. ASSUME NEW i \in kept
      PROVE  /\ i \in DOMAIN lines /\ lines[i].kind \in Wide
             /\ lines[i].slot \in Nat /\ lines[i].slot <= written
             /\ BucketOf(lines[i].slot) \in Nat
  <2>1. i \in DOMAIN lines /\ i \in Competing(lines, at)
      BY DEF KeptFit, Competing
  <2>2. lines[i].kind \in Wide /\ 0 <= lines[i].slot
      BY <2>1, CompetingIs
  <2>3. lines[i].slot \in Int /\ lines[i].slot <= written
      BY <2>1, LineFits DEF LinesFit
  <2>4. BucketOf(lines[i].slot) \in Int /\ 0 <= BucketOf(lines[i].slot)
      BY <2>2, <2>3, BucketFits
  <2> QED
      BY <2>1, <2>2, <2>3, <2>4
<1>2. ASSUME NEW i \in Competing(lines, at) \ kept
      PROVE  OutOfOrder(lines, i)
  <2>1. PICK k \in kept : \/ k < i /\ lines[k].slot >= lines[i].slot
                          \/ i < k /\ lines[i].slot >= lines[k].slot
      BY DEF KeptFit
  <2>2. k \in DOMAIN lines /\ lines[k].kind \in Wide /\ 0 <= lines[k].slot
      BY <1>1
  <2> QED
      BY <2>1, <2>2 DEF OutOfOrder
<1> QED
    BY <1>1, <1>2

\* A bucket that gets a bar had all its lines kept.
LEMMA RenderedIs ==
    ASSUME NEW at \in Nat, NEW written \in Nat, written <= at,
           NEW lines, LinesFit(lines, written),
           NEW kept, KeptFit(lines, at, kept),
           NEW b \in Rendered(lines, kept, at, written, partial)
    PROVE  BarReflects(RowsOf(lines, kept, b), lines, b, written)
<1> DEFINE own == LinesOf(lines, b)
           rows == RowsOf(lines, kept, b)
<1>1. /\ b \in Observed(lines, kept)
      /\ \/ BucketEnd(b) <= written
         \/ \E later \in Observed(lines, kept) : b < later
      /\ b \notin Marked(lines, kept, at)
      /\ Valid(rows) /\ (partial \/ Complete(rows, b))
    BY DEF Rendered, Emitted
<1>2. \A i \in kept : /\ i \in DOMAIN lines /\ lines[i].kind \in Wide
                      /\ lines[i].slot \in Nat /\ lines[i].slot <= written
                      /\ BucketOf(lines[i].slot) \in Nat
    BY KeptIs
<1>3. b \in Nat
    BY <1>1, <1>2 DEF Observed
<1>4. \A i \in DOMAIN lines : BucketOf(lines[i].slot) = b <=> i \in own
  <2>1. TAKE i \in DOMAIN lines
  <2>2. lines[i].slot \in Int /\ b \in Int
      BY <1>3, LineFits DEF LinesFit
  <2>3. BucketOf(lines[i].slot) = b <=> lines[i].slot \in BucketSlots(b)
      BY <2>2, BucketFits
  <2> QED
      BY <2>3 DEF LinesOf
<1>5. \A s \in BucketSlots(b) : 0 <= s
    BY <1>3, BucketAssumption DEF BucketSlots
<1>6. own \subseteq DOMAIN lines
    BY DEF LinesOf
<1>7. ASSUME NEW i \in own PROVE i \in kept
  <2>1. i \in DOMAIN lines /\ 0 <= lines[i].slot /\ BucketOf(lines[i].slot) = b
      BY <1>4, <1>5, <1>6 DEF LinesOf
  <2>2. lines[i].slot \in Int
      BY <2>1, LineFits DEF LinesFit
  <2>3. Safe(lines[i].slot, at)
      BY <2>1, CompetingIs
  <2>4. lines[i].kind # "torn"
    <3>1. b \notin TornBuckets(lines, at)
        BY <1>1 DEF Marked
    <3> QED
        BY <2>1, <2>3, <3>1 DEF TornBuckets
  <2>5. lines[i].kind \in Wide
      BY <2>1, <2>2, <2>4, LineFits DEF LinesFit
  <2>6. i \in Competing(lines, at)
      BY <2>1, <2>5, CompetingIs
  <2>7. b \notin Rejected(lines, kept, at)
      BY <1>1 DEF Marked
  <2> QED
      BY <2>1, <2>6, <2>7 DEF Rejected
<1>8. own = {k \in kept : BucketOf(lines[k].slot) = b}
    BY <1>2, <1>4, <1>6, <1>7
<1>9. rows = {lines[i] : i \in own}
    BY <1>8 DEF RowsOf
<1>10. \A i \in own : lines[i].kind \in Numeric
    BY <1>1, <1>9 DEF Valid
<1>11. \A i, j \in own : i < j => lines[i].slot < lines[j].slot
    BY <1>7 DEF KeptFit
<1>12. ASSUME Complete(rows, b) PROVE Cardinality(own) = BucketBars
  <2> DEFINE f == [i \in own |-> lines[i].slot]
             T == BucketSlots(b)
  <2>1. {lines[i].slot : i \in own} = T
      BY <1>9, <1>12 DEF Complete
  <2>2. f \in [own -> T]
      BY <2>1
  <2>3. \A i, j \in own : f[i] = f[j] => i = j
    <3>1. TAKE i, j \in own
    <3>2. i \in Int /\ j \in Int /\ lines[i].slot \in Int /\ lines[j].slot \in Int
        BY <1>6, LineFits DEF LinesFit
    <3>3. i < j \/ j < i \/ i = j
        BY <3>2
    <3>4. f[i] = lines[i].slot /\ f[j] = lines[j].slot
        OBVIOUS
    <3> QED
        BY <1>11, <3>2, <3>3, <3>4
  <2>4. f \in Injection(own, T)
      BY <2>2, <2>3 DEF Injection, IsInjective
  <2>5. \A t \in T : \E i \in own : f[i] = t
      BY <2>1
  <2>6. f \in Surjection(own, T)
      BY <2>2, <2>5 DEF Surjection
  <2>7. IsFiniteSet(T) /\ Cardinality(T) = BucketBars
    <3>1. b * BucketBars \in Int /\ (b + 1) * BucketBars - 1 = b * BucketBars + (BucketBars - 1)
        BY <1>3, BucketAssumption
    <3>2. T = b * BucketBars .. b * BucketBars + (BucketBars - 1)
        BY <3>1 DEF BucketSlots
    <3> DEFINE lo == b * BucketBars
               hi == lo + (BucketBars - 1)
    <3>3. lo \in Int /\ hi \in Int /\ lo <= hi /\ hi - lo + 1 = BucketBars
        BY <3>1, BucketAssumption
    <3> HIDE DEF lo, hi
    <3>4. IsFiniteSet(lo .. hi) /\ Cardinality(lo .. hi) = BucketBars
        BY <3>3, FS_Interval
    <3> QED
        BY <3>2, <3>4 DEF lo, hi
  <2> HIDE DEF f, T, own
  <2> QED
      BY <2>4, <2>6, <2>7, FS_Injection
<1>13. BucketEnd(b) <= written
  <2>1. CASE BucketEnd(b) <= written
      BY <2>1
  <2>2. ASSUME NEW later \in Observed(lines, kept), b < later
        PROVE  BucketEnd(b) <= written
    <3>1. PICK k \in kept : later = BucketOf(lines[k].slot)
        BY DEF Observed
    <3>2. later \in Nat /\ lines[k].slot \in Nat /\ lines[k].slot <= written
        BY <1>2, <3>1
    <3>3. lines[k].slot \in BucketSlots(later)
        BY <3>1, <3>2, BucketFits
    <3>4. later * BucketBars <= lines[k].slot /\ later * BucketBars \in Nat
        BY <3>2, <3>3, BucketAssumption DEF BucketSlots
    <3>5. (b + 1) * BucketBars <= later * BucketBars /\ (b + 1) * BucketBars \in Nat
        BY <1>3, <2>2, <3>2, BucketAssumption
    <3> QED
        BY <3>2, <3>4, <3>5 DEF BucketEnd
  <2> QED
      BY <1>1, <2>1, <2>2
<1> QED
    BY <1>1, <1>9, <1>10, <1>11, <1>12, <1>13 DEF BarReflects

\* A bucket that was seen and found incomplete is defective in the file.
LEMMA IncompleteIs ==
    ASSUME NEW at \in Nat, NEW written \in Nat, written <= at,
           NEW lines, LinesFit(lines, written),
           NEW kept, KeptFit(lines, at, kept),
           NEW b \in Observed(lines, kept) \cap Incomplete(lines, kept, at, written)
    PROVE  Defective(lines, b)
<1> DEFINE own == LinesOf(lines, b)
           rows == RowsOf(lines, kept, b)
<1>1. /\ \A i \in kept : /\ i \in DOMAIN lines /\ lines[i].kind \in Wide
                         /\ lines[i].slot \in Nat /\ lines[i].slot <= written
                         /\ BucketOf(lines[i].slot) \in Nat
      /\ \A i \in Competing(lines, at) \ kept : OutOfOrder(lines, i)
    BY KeptIs
<1>2. b \in Nat
    BY <1>1 DEF Observed
<1>3. \A i \in DOMAIN lines : BucketOf(lines[i].slot) = b <=> i \in own
  <2>1. TAKE i \in DOMAIN lines
  <2>2. lines[i].slot \in Int /\ b \in Int
      BY <1>2, LineFits DEF LinesFit
  <2>3. BucketOf(lines[i].slot) = b <=> lines[i].slot \in BucketSlots(b)
      BY <2>2, BucketFits
  <2> QED
      BY <2>3 DEF LinesOf
<1>4. \E i \in own : lines[i].kind \in Wide
    BY <1>1, <1>3 DEF Observed
<1>5. \A i \in own : i \in DOMAIN lines /\ 0 <= lines[i].slot
  <2>1. \A s \in BucketSlots(b) : 0 <= s
      BY <1>2, BucketAssumption DEF BucketSlots
  <2> QED
      BY <2>1 DEF LinesOf
<1> DEFINE Goal == \/ {lines[i].slot : i \in own} # BucketSlots(b)
                   \/ \E i \in own : lines[i].kind \notin Numeric \/ OutOfOrder(lines, i)
                   \/ DamageAt(lines, b)
<1> SUFFICES Goal
    BY <1>4 DEF Defective
<1>6. CASE b \in Rejected(lines, kept, at)
  <2>1. PICK i \in Competing(lines, at) \ kept : BucketOf(lines[i].slot) = b
      BY <1>6 DEF Rejected
  <2>2. i \in own /\ OutOfOrder(lines, i)
      BY <1>1, <1>3, <2>1 DEF Competing
  <2> QED
      BY <2>2
<1>7. CASE b \in TornBuckets(lines, at)
  <2>1. PICK j \in DOMAIN lines : lines[j].kind = "torn" /\ BucketOf(lines[j].slot) = b
      BY <1>7 DEF TornBuckets
  <2> QED
      BY <1>3, <2>1 DEF Numeric
<1>8. CASE b \in LocatedBuckets(lines, kept, at)
  <2>1. PICK k \in kept : /\ b = BucketOf(lines[k].slot + 1)
                          /\ \E j \in Stray(lines, at) :
                                k < j /\ \A m \in kept : m <= k \/ j < m
      BY <1>8 DEF LocatedBuckets
  <2>2. PICK j \in Stray(lines, at) : k < j /\ \A m \in kept : m <= k \/ j < m
      BY <2>1
  <2>3. k \in DOMAIN lines /\ lines[k].kind \in Wide /\ lines[k].slot + 1 \in BucketSlots(b)
      BY <1>1, <1>2, <2>1, BucketFits
  <2>4. j \in DOMAIN lines /\ lines[j].slot < 0
    <3>1. j \in DOMAIN lines
        BY DEF Stray
    <3>2. lines[j].slot \in Int
        BY <3>1, LineFits DEF LinesFit
    <3>3. lines[j].kind = "blind" => lines[j].slot < 0
        BY <3>1, LineFits DEF LinesFit, Wide
    <3>4. ~Safe(lines[j].slot, at) => lines[j].slot < 0
        BY <3>1, <3>2, CompetingIs
    <3> QED
        BY <3>1, <3>3, <3>4 DEF Stray
  <2>5. ASSUME NEW m \in k + 1 .. j - 1
        PROVE  \/ lines[m].kind \notin Wide
               \/ lines[m].slot < 0
               \/ OutOfOrder(lines, m)
    <3>1. k \in Int /\ j \in Int /\ m \in DOMAIN lines
        BY <2>3, <2>4 DEF LinesFit
    <3>2. m \notin kept
        BY <2>2, <3>1
    <3>3. lines[m].slot \in Int
        BY <3>1, LineFits DEF LinesFit
    <3>4. lines[m].kind \in Wide /\ 0 <= lines[m].slot => m \in Competing(lines, at)
        BY <3>1, CompetingIs
    <3> QED
        BY <1>1, <3>2, <3>3, <3>4
  <2>6. DamageAt(lines, b)
      BY <2>2, <2>3, <2>4, <2>5 DEF DamageAt
  <2> QED
      BY <2>6
<1>9. CASE ~Valid(rows)
  <2>1. PICK i \in kept : BucketOf(lines[i].slot) = b /\ lines[i].kind \notin Numeric
      BY <1>9 DEF Valid, RowsOf
  <2>2. i \in own
      BY <1>1, <1>3, <2>1
  <2> QED
      BY <2>1, <2>2
<1>10. CASE ~Complete(rows, b)
  <2>1. SUFFICES ASSUME \A i \in own : lines[i].kind \in Numeric /\ ~OutOfOrder(lines, i)
                 PROVE  {lines[i].slot : i \in own} # BucketSlots(b)
      OBVIOUS
  <2>2. \A i \in own : i \in kept
    <3>1. TAKE i \in own
    <3>2. lines[i].kind \in Wide
        BY <2>1 DEF Numeric, Wide
    <3>3. i \in Competing(lines, at)
        BY <1>5, <3>2, CompetingIs
    <3> QED
        BY <1>1, <2>1, <3>3
  <2>3. own = {i \in kept : BucketOf(lines[i].slot) = b}
      BY <1>1, <1>3, <1>5, <2>2
  <2>4. {row.slot : row \in rows} = {lines[i].slot : i \in own}
      BY <2>3 DEF RowsOf
  <2> QED
      BY <1>10, <2>4 DEF Complete
<1> QED
  <2>1. \/ b \in Marked(lines, kept, at)
        \/ ~(Valid(rows) /\ Complete(rows, b))
      BY DEF Incomplete
  <2> HIDE DEF rows, Goal
  <2> QED
      BY <1>6, <1>7, <1>8, <1>9, <1>10, <2>1 DEF Marked

\* What a run that read the file as it was written may put in place of a target.
LEMMA RebuiltFits ==
    ASSUME NEW at \in Nat, NEW written \in Nat, written <= at,
           NEW lines, LinesFit(lines, written),
           NEW kept, KeptFit(lines, at, kept), NEW old
    PROVE  LET bars == Rebuilt(old, lines, kept, at, written, partial) IN
           /\ bars # old =>
                \A b \in DOMAIN bars : BarReflects(bars[b], lines, b, written)
           /\ \A b \in DOMAIN old \ DOMAIN bars : Defective(lines, b)
<1> DEFINE bars == Rebuilt(old, lines, kept, at, written, partial)
           ours == Bars(lines, kept, at, written, partial)
<1>1. CASE bars = old
    BY <1>1
<1>2. CASE bars # old
  <2>1. bars = ours /\ MayReplace(old, lines, kept, at, written, partial)
      BY <1>2 DEF Rebuilt
  <2>2. /\ DOMAIN ours = Rendered(lines, kept, at, written, partial)
        /\ \A b \in DOMAIN ours : ours[b] = RowsOf(lines, kept, b)
      BY DEF Bars
  <2>3. \A b \in DOMAIN ours : BarReflects(ours[b], lines, b, written)
      BY <2>2, RenderedIs
  <2>4. \A b \in DOMAIN old \ DOMAIN ours : Defective(lines, b)
    <3>1. TAKE b \in DOMAIN old \ DOMAIN ours
    <3>2. b \in Observed(lines, kept) \cap Incomplete(lines, kept, at, written)
        BY <2>1, <2>2 DEF MayReplace
    <3> QED
        BY <3>2, IncompleteIs
  <2> HIDE DEF bars, ours
  <2> QED
      BY <2>1, <2>3, <2>4 DEF bars
<1> QED
    BY <1>1, <1>2

-----------------------------------------------------------------------------
(* The invariant *)

\* What the download leaves and has still to write is not ahead of the clock.
SourceFits ==
    /\ LinesFit(source.lines, stamp.at)
    /\ LinesFit(toWrite, now)

\* What an aggregation remembers of the file it opened; as long as the version
\* is the same, so are the lines.
AggFits ==
    agg.pc # "idle" =>
        /\ agg.stamp.version \in Nat /\ agg.stamp.version <= stamp.version
        /\ agg.stamp.at \in FirstClock .. now
        /\ LinesFit(agg.seen, agg.stamp.at)
        /\ stamp = agg.stamp => agg.seen = source.lines
        /\ agg.pc \in {"first", "second"} => agg.at \in agg.stamp.at .. now
        /\ agg.pc = "second" => agg.times \in Seq(Int)

\* What may take the target's place, unless the recheck finds a change.
RecheckFits ==
    agg.pc = "recheck" /\ stamp = agg.stamp =>
        /\ agg.bars # target =>
              \A b \in DOMAIN agg.bars :
                  BarReflects(agg.bars[b], agg.seen, b, agg.stamp.at)
        /\ \A b \in DOMAIN target \ DOMAIN agg.bars : Defective(agg.seen, b)

IInv == TypeOK /\ SourceFits /\ AggFits /\ RecheckFits

\* A source stays one when the clock goes on.
LEMMA LaterFits ==
    ASSUME NEW lines, NEW a \in Nat, NEW b \in Nat, a <= b, LinesFit(lines, a)
    PROVE  LinesFit(lines, b)
  <1>1. \A i \in DOMAIN lines : lines[i].slot \in Int /\ lines[i].slot <= a
      BY LineFits DEF LinesFit
  <1> QED
      BY <1>1 DEF LinesFit

\* The first lines of a source, and two sources on end.
LEMMA PartsFit ==
    ASSUME NEW w \in Nat, NEW lines, LinesFit(lines, w), NEW more, LinesFit(more, w)
    PROVE  /\ \A n \in 0 .. Len(lines) : LinesFit(SubSeq(lines, 1, n), w)
           /\ LinesFit(Front(lines), w)
           /\ \A n \in DOMAIN lines : LinesFit(SubSeq(lines, n, Len(lines)), w)
           /\ LinesFit(lines \o more, w)
<1>1. /\ lines \in Seq(Line) /\ \A i \in 1 .. Len(lines) : lines[i].slot <= w
      /\ more \in Seq(Line) /\ \A i \in 1 .. Len(more) : more[i].slot <= w
    BY DEF LinesFit
<1>2. Len(lines) \in Nat /\ Len(more) \in Nat
    BY <1>1
<1>3. ASSUME NEW n \in 0 .. Len(lines) PROVE LinesFit(SubSeq(lines, 1, n), w)
  <2> DEFINE s == SubSeq(lines, 1, n)
  <2>1. s \in Seq(Line) /\ Len(s) = n /\ \A i \in 1 .. n : s[i] = lines[i]
      BY <1>1
  <2>2. \A i \in 1 .. n : i \in 1 .. Len(lines)
      BY <1>2
  <2> HIDE DEF s
  <2>3. \A i \in DOMAIN s : s[i].slot <= w
      BY <1>1, <2>1, <2>2
  <2> QED
      BY <2>1, <2>3 DEF LinesFit, s
<1>4. LinesFit(Front(lines), w)
  <2>1. CASE Len(lines) = 0
    <3>1. Front(lines) = <<>>
        BY <1>1, <2>1 DEF Front
    <3> QED
        BY <3>1 DEF LinesFit
  <2>2. CASE Len(lines) # 0
    <3>1. Len(lines) - 1 \in 0 .. Len(lines)
        BY <1>2, <2>2
    <3> QED
        BY <1>3, <3>1 DEF Front
  <2> QED
      BY <2>1, <2>2
<1>5. ASSUME NEW n \in DOMAIN lines PROVE LinesFit(SubSeq(lines, n, Len(lines)), w)
  <2> DEFINE s == SubSeq(lines, n, Len(lines))
             N == Len(lines) - n + 1
  <2>0. n \in 1 .. Len(lines)
      BY <1>1
  <2>1. s \in Seq(Line) /\ Len(s) = N /\ \A i \in 1 .. N : s[i] = lines[n + i - 1]
      BY <1>1, <2>0
  <2>2. \A i \in 1 .. N : n + i - 1 \in 1 .. Len(lines)
      BY <1>2, <2>0
  <2> HIDE DEF s, N
  <2>3. \A i \in DOMAIN s : s[i].slot <= w
      BY <1>1, <2>1, <2>2
  <2> QED
      BY <2>1, <2>3 DEF LinesFit, s
<1>6. LinesFit(lines \o more, w)
  <2> DEFINE s == lines \o more
             N == Len(lines) + Len(more)
  <2>1. /\ s \in Seq(Line) /\ Len(s) = N
        /\ \A i \in 1 .. N : s[i] = IF i <= Len(lines) THEN lines[i] ELSE more[i - Len(lines)]
      BY <1>1
  <2>2. \A i \in 1 .. N : IF i <= Len(lines) THEN i \in 1 .. Len(lines)
                                             ELSE i - Len(lines) \in 1 .. Len(more)
      BY <1>2
  <2> HIDE DEF s, N
  <2>3. \A i \in DOMAIN s : s[i].slot <= w
      BY <1>1, <2>1, <2>2
  <2> QED
      BY <2>1, <2>3 DEF LinesFit, s
<1> QED
    BY <1>3, <1>4, <1>5, <1>6

\* What a repair writes are lines the file had.
LEMMA CanonicalFits ==
    ASSUME NEW w \in Nat, NEW lines, LinesFit(lines, w)
    PROVE  LinesFit(Canonical(lines), w)
<1> DEFINE F == Firsts(lines)
           times == {Time(lines[i]) : i \in F}
           sorted == InOrder(times)
           N == Cardinality(times)
<1>1. F \in SUBSET DOMAIN lines
    BY DEF Firsts
<1> HIDE DEF F
<1>2. IsFiniteSet(times) /\ times \subseteq Int
  <2>1. IsFiniteSet(F)
    <3>1. DOMAIN lines = 1 .. Len(lines) /\ Len(lines) \in Nat
        BY DEF LinesFit
    <3>2. IsFiniteSet(1 .. Len(lines))
        BY <3>1, FS_Interval
    <3> QED
        BY <1>1, <3>1, <3>2, FS_Subset
  <2> DEFINE f == [i \in F |-> Time(lines[i])]
  <2>2. f \in Surjection(F, times)
      BY DEF Surjection
  <2> HIDE DEF f
  <2>3. IsFiniteSet(times)
    <3> HIDE DEF times
    <3> QED
        BY <2>1, <2>2, FS_Surjection
  <2>4. times \subseteq Int
      BY <1>1, LineFits DEF LinesFit
  <2> QED
      BY <2>3, <2>4
<1>3. sorted \in [1 .. N -> times] /\ N \in Nat
  <2> HIDE DEF times
  <2> QED
      BY <1>2, InOrderFits
<1> HIDE DEF N, sorted
<1> DEFINE at(k) == CHOOSE i \in F : Time(lines[i]) = sorted[k]
<1>4. \A k \in 1 .. N : at(k) \in F
  <2>1. TAKE k \in 1 .. N
  <2>2. sorted[k] \in times
      BY <1>3
  <2>3. \E i \in F : Time(lines[i]) = sorted[k]
      BY <2>2
  <2> QED
      BY <2>3
<1>5. Canonical(lines) = [k \in 1 .. N |-> lines[at(k)]]
  <2>1. DOMAIN sorted = 1 .. N
      BY <1>3
  <2> QED
      BY <2>1 DEF Canonical, sorted, F
<1> HIDE DEF at
<1>6. \A k \in 1 .. N : lines[at(k)] \in Line /\ lines[at(k)].slot <= w
    BY <1>1, <1>4 DEF LinesFit
<1>7. Canonical(lines) \in Seq(Line)
    BY <1>3, <1>5, <1>6
<1> QED
    BY <1>5, <1>6, <1>7 DEF LinesFit

LEMMA InitInvariant == Init => IInv
<1> SUFFICES ASSUME Init PROVE IInv
    OBVIOUS
<1>1. PICK old \in SUBSET OldTargets :
         target = [b \in old |-> {WholeLine(s) : s \in BucketSlots(b)}]
    BY DEF Init
<1>2. \A b \in DOMAIN target : target[b] \subseteq Line
  <2>1. TAKE b \in DOMAIN target
  <2>2. b \in Nat /\ target[b] = {WholeLine(s) : s \in BucketSlots(b)}
      BY <1>1, FilesAssumption
  <2>3. \A s \in Int : WholeLine(s) \in Line
      BY DEF WholeLine, Line
  <2>4. BucketSlots(b) \subseteq Int
      BY <2>2, BucketAssumption DEF BucketSlots
  <2> QED
      BY <2>2, <2>3, <2>4
<1>3. /\ source.lines \in OldFiles /\ source.open = FALSE
      /\ now = FirstClock /\ stamp.version = 0 /\ stamp.at = FirstClock
      /\ toWrite = <<>> /\ agg.pc = "idle"
    BY DEF Init, Idle
<1>4. source.lines \in Seq(Line) /\ \A i \in DOMAIN source.lines : source.lines[i].slot <= stamp.at
    BY <1>3, FilesAssumption
<1>5. SourceFits
  <2>1. toWrite \in Seq(Line) /\ DOMAIN toWrite = {}
      BY <1>3
  <2> QED
      BY <1>4, <2>1 DEF SourceFits, LinesFit
<1>6. TypeOK
  <2>1. FirstClock \in FirstClock .. Horizon /\ FirstClock \in FirstClock .. FirstClock
      BY FilesAssumption
  <2>2. 0 \in 0 .. MaxDownloads /\ 0 \in 0 .. MaxFaults /\ 0 \in Nat
      BY FilesAssumption
  <2>3. /\ locked \in BOOLEAN /\ partial \in BOOLEAN
        /\ downloads = 0 /\ faults = 0
      BY DEF Init
  <2>4. toWrite \in Seq(Line)
      BY <1>3
  <2> QED
      BY <1>2, <1>3, <1>4, <2>1, <2>2, <2>3, <2>4 DEF TypeOK
<1> QED
    BY <1>3, <1>5, <1>6 DEF IInv, AggFits, RecheckFits

\* What a step may do to the lock and the counters.
CountersFit ==
    /\ locked' \in BOOLEAN
    /\ downloads' \in 0 .. MaxDownloads /\ faults' \in 0 .. MaxFaults

\* A write makes a new version: what an aggregation will find at its recheck.
LEMMA WriteKeeps ==
    ASSUME IInv, CountersFit,
           NEW lines, NEW open \in BOOLEAN, Touch([lines |-> lines, open |-> open]),
           LinesFit(lines, now), LinesFit(toWrite', now),
           UNCHANGED <<now, target, agg, partial>>
    PROVE  IInv'
<1>1. /\ stamp'.version = stamp.version + 1 /\ stamp'.at = now
      /\ source'.lines = lines /\ source'.open = open
    BY DEF Touch
<1>2. /\ stamp.version \in Nat /\ now \in FirstClock .. Horizon
      /\ stamp'.version \in Nat /\ stamp'.at \in FirstClock .. now
    BY <1>1, FilesAssumption DEF IInv, TypeOK
<1>3. ASSUME agg.pc # "idle"
      PROVE  agg.stamp # stamp' /\ agg.stamp.version <= stamp'.version
  <2>1. agg.stamp.version \in Nat /\ agg.stamp.version <= stamp.version
      BY <1>3 DEF IInv, AggFits
  <2>2. agg.stamp.version # stamp'.version
      BY <1>1, <1>2, <2>1
  <2> QED
      BY <1>1, <1>2, <2>1, <2>2
<1>4. AggFits'
    BY <1>3 DEF IInv, AggFits
<1>5. RecheckFits'
    BY <1>3 DEF RecheckFits
<1>6. SourceFits'
    BY <1>1 DEF SourceFits
<1>7. TypeOK'
    BY <1>1, <1>2 DEF IInv, TypeOK, CountersFit, LinesFit
<1> QED
    BY <1>4, <1>5, <1>6, <1>7 DEF IInv

\* Steps of a download that leave the source alone.
LEMMA RestKeeps ==
    ASSUME IInv, CountersFit, LinesFit(toWrite', now),
           UNCHANGED <<now, source, stamp, target, agg, partial>>
    PROVE  IInv'
<1>1. TypeOK'
    BY DEF IInv, TypeOK, CountersFit, LinesFit
<1>2. SourceFits'
    BY DEF IInv, SourceFits
<1>3. AggFits'
    BY DEF IInv, AggFits
<1>4. RecheckFits'
    BY DEF IInv, RecheckFits, BarReflects
<1> QED
    BY <1>1, <1>2, <1>3, <1>4 DEF IInv

\* The steps of an aggregation leave what the download works on alone.
LEMMA AggKeeps ==
    ASSUME IInv, UNCHANGED <<now, source, stamp, locked, toWrite, partial,
                             downloads, faults>>,
           agg'.pc \in {"idle", "first", "second", "recheck"},
           \A b \in DOMAIN target' : target'[b] \subseteq Line,
           AggFits', RecheckFits'
    PROVE  IInv'
<1>1. TypeOK'
    BY DEF IInv, TypeOK
<1>2. SourceFits'
    BY DEF IInv, SourceFits
<1> QED
    BY <1>1, <1>2 DEF IInv

\* The tail line is a line, or none.
LEMMA TailLineFits ==
    ASSUME IInv
    PROVE  TailLine \in 0 .. Len(source.lines)
<1> DEFINE valid == {i \in DOMAIN source.lines :
                        /\ source.lines[i].kind \in Wide \cup {"misaligned"}
                        /\ i < Len(source.lines) \/ ~source.open}
           L == Len(source.lines)
<1>1. L \in Nat /\ DOMAIN source.lines = 1 .. L
    BY DEF IInv, TypeOK
<1>2. valid \in SUBSET (0 .. L)
    BY <1>1
<1>3. TailLine = IF valid = {} THEN 0 ELSE Max(valid)
    BY DEF TailLine
<1> HIDE DEF valid, L
<1>4. CASE valid = {}
    BY <1>1, <1>3, <1>4 DEF L
<1>5. CASE valid # {}
    BY <1>1, <1>2, <1>3, <1>5, LastOf DEF L
<1> QED
    BY <1>4, <1>5

LEMMA ResumeKeeps == IInv /\ Resume => IInv'
<1> SUFFICES ASSUME IInv, Resume PROVE IInv'
    OBVIOUS
<1> DEFINE next == IF TailLine = 0 THEN 0 ELSE SlotAfter(source.lines[TailLine])
<1>1. CountersFit
    BY FilesAssumption DEF Resume, CountersFit, IInv, TypeOK
<1>2. now \in Nat /\ stamp.at \in Nat /\ stamp.at <= now
    BY FilesAssumption DEF IInv, TypeOK
<1>3. LinesFit(source.lines, now)
    BY <1>2, LaterFits DEF IInv, SourceFits
<1>4. TailLine \in 0 .. Len(source.lines)
    BY TailLineFits
<1>5. next \in Int
  <2>1. TailLine # 0 => TailLine \in DOMAIN source.lines
      BY <1>3, <1>4 DEF LinesFit
  <2> QED
      BY <1>3, <2>1, LineFits DEF LinesFit
<1> DEFINE n == IF next < now THEN now - next ELSE 0
<1>6. toWrite' = [k \in 1 .. n |-> WholeLine(next + k - 1)]
    BY DEF Resume
<1>7. LinesFit(toWrite', now)
  <2> HIDE DEF next
  <2>1. n \in Nat /\ \A k \in 1 .. n : next + k - 1 \in Int /\ next + k - 1 <= now
      BY <1>2, <1>5
  <2> HIDE DEF n
  <2>2. \A s \in Int : WholeLine(s) \in Line /\ WholeLine(s).slot = s
      BY DEF WholeLine, Line
  <2>3. toWrite' \in Seq(Line) /\ DOMAIN toWrite' = 1 .. n
      BY <1>6, <2>1, <2>2
  <2>4. \A k \in 1 .. n : toWrite'[k].slot <= now
      BY <1>6, <2>1, <2>2
  <2> QED
      BY <2>3, <2>4 DEF LinesFit
<1>8. UNCHANGED <<now, target, agg, partial>>
    BY DEF Resume
<1>9. CASE TailLine < Len(source.lines)
  <2>1. Touch([lines |-> SubSeq(source.lines, 1, TailLine), open |-> FALSE])
      BY <1>9 DEF Resume
  <2>2. LinesFit(SubSeq(source.lines, 1, TailLine), now)
      BY <1>2, <1>3, <1>4, PartsFit
  <2> QED
      BY <1>1, <1>7, <1>8, <2>1, <2>2, WriteKeeps
<1>10. CASE ~(TailLine < Len(source.lines))
  <2>1. UNCHANGED <<source, stamp>>
      BY <1>10 DEF Resume
  <2> QED
      BY <1>1, <1>7, <1>8, <2>1, RestKeeps
<1> QED
    BY <1>9, <1>10

LEMMA FlushKeeps == IInv /\ Flush => IInv'
<1> SUFFICES ASSUME IInv, Flush PROVE IInv'
    OBVIOUS
<1>0. PICK n \in DOMAIN toWrite : \E cut \in CutShort(toWrite[n]) :
         /\ Touch([lines |-> source.lines \o SubSeq(toWrite, 1, n - 1) \o <<cut>>,
                   open |-> TRUE])
         /\ toWrite' = SubSeq(toWrite, n, Len(toWrite))
    BY DEF Flush
<1>1. PICK cut \in CutShort(toWrite[n]) :
         /\ Touch([lines |-> source.lines \o SubSeq(toWrite, 1, n - 1) \o <<cut>>,
                   open |-> TRUE])
         /\ toWrite' = SubSeq(toWrite, n, Len(toWrite))
    BY <1>0
<1>2. /\ CountersFit /\ UNCHANGED <<now, target, agg, partial>>
    BY DEF Flush, CountersFit, IInv, TypeOK
<1>3. now \in Nat /\ stamp.at \in Nat /\ stamp.at <= now
    BY FilesAssumption DEF IInv, TypeOK
<1>4. LinesFit(source.lines, now) /\ LinesFit(toWrite, now)
    BY <1>3, LaterFits DEF IInv, SourceFits
<1>5. n - 1 \in 0 .. Len(toWrite)
    BY <1>4 DEF LinesFit
<1>6. LinesFit(<<cut>>, now)
  <2>1. toWrite[n] \in Line /\ toWrite[n].slot \in Int /\ toWrite[n].slot <= now
      BY <1>4, LineFits DEF LinesFit
  <2>2. cut \in Line /\ cut.slot <= now
      BY <1>3, <2>1 DEF CutShort, Blind, Line
  <2> QED
      BY <2>2 DEF LinesFit
<1>7. LinesFit(SubSeq(toWrite, 1, n - 1), now) /\ LinesFit(SubSeq(toWrite, n, Len(toWrite)), now)
    BY <1>3, <1>4, <1>5, PartsFit
<1>8. LinesFit(source.lines \o SubSeq(toWrite, 1, n - 1), now)
    BY <1>3, <1>4, <1>7, PartsFit
<1> DEFINE all == source.lines \o SubSeq(toWrite, 1, n - 1)
<1> HIDE DEF all
<1>9. LinesFit(all \o <<cut>>, now)
    BY <1>3, <1>6, <1>8, PartsFit DEF all
<1> DEFINE lines == all \o <<cut>>
<1>10. Touch([lines |-> lines, open |-> TRUE]) /\ LinesFit(lines, now)
    BY <1>1, <1>9 DEF all
<1> HIDE DEF lines
<1> QED
    BY <1>1, <1>2, <1>7, <1>10, WriteKeeps

LEMMA FinishKeeps == IInv /\ Finish => IInv'
<1> SUFFICES ASSUME IInv, Finish PROVE IInv'
    OBVIOUS
<1>1. CountersFit /\ UNCHANGED <<now, target, agg, partial>> /\ toWrite' = <<>>
    BY DEF Finish, CountersFit, IInv, TypeOK
<1>2. now \in Nat /\ stamp.at \in Nat /\ stamp.at <= now
    BY FilesAssumption DEF IInv, TypeOK
<1>3. LinesFit(source.lines, now) /\ LinesFit(toWrite, now)
    BY <1>2, LaterFits DEF IInv, SourceFits
<1>4. LinesFit(toWrite', now)
    BY <1>1 DEF LinesFit
<1>5. CASE toWrite = <<>>
  <2>1. UNCHANGED <<source, stamp>>
      BY <1>5 DEF Finish
  <2> QED
      BY <1>1, <1>4, <2>1, RestKeeps
<1>6. CASE toWrite # <<>>
  <2> DEFINE old == IF source.open THEN Front(source.lines) ELSE source.lines
             lines == old \o toWrite
  <2>1. Touch([lines |-> lines, open |-> FALSE])
      BY <1>6 DEF Finish
  <2>2. LinesFit(old, now)
      BY <1>2, <1>3, PartsFit
  <2> HIDE DEF old
  <2>3. LinesFit(lines, now)
      BY <1>2, <1>3, <2>2, PartsFit
  <2> HIDE DEF lines
  <2> QED
      BY <1>1, <1>4, <2>1, <2>3, WriteKeeps
<1> QED
    BY <1>5, <1>6

LEMMA RepairKeeps == IInv /\ Repair => IInv'
<1> SUFFICES ASSUME IInv, Repair PROVE IInv'
    OBVIOUS
<1>1. CountersFit /\ UNCHANGED <<now, target, agg, partial, toWrite>>
    BY DEF Repair, CountersFit, IInv, TypeOK
<1>2. now \in Nat /\ stamp.at \in Nat /\ stamp.at <= now
    BY FilesAssumption DEF IInv, TypeOK
<1>3. LinesFit(source.lines, now) /\ LinesFit(toWrite', now)
    BY <1>1, <1>2, LaterFits DEF IInv, SourceFits
<1> DEFINE lines == Canonical(source.lines)
<1>4. Touch([lines |-> lines, open |-> FALSE])
    BY DEF Repair
<1>5. LinesFit(lines, now)
    BY <1>2, <1>3, CanonicalFits
<1> HIDE DEF lines
<1> QED
    BY <1>1, <1>3, <1>4, <1>5, WriteKeeps

LEMMA OpenKeeps == IInv /\ Open => IInv'
<1> SUFFICES ASSUME IInv, Open PROVE IInv'
    OBVIOUS
<1>1. /\ agg'.pc = "first" /\ agg'.at = now /\ agg'.stamp = stamp
      /\ agg'.seen = source.lines
      /\ UNCHANGED <<now, source, stamp, target, locked, toWrite, partial,
                     downloads, faults>>
    BY DEF Open
<1>2. AggFits'
    BY <1>1, FilesAssumption DEF IInv, TypeOK, SourceFits, AggFits
<1>3. RecheckFits'
    BY <1>1 DEF RecheckFits
<1>4. \A b \in DOMAIN target' : target'[b] \subseteq Line
    BY <1>1 DEF IInv, TypeOK
<1> QED
    BY <1>1, <1>2, <1>3, <1>4, AggKeeps

LEMMA FirstPassKeeps == IInv /\ FirstPass => IInv'
<1> SUFFICES ASSUME IInv, FirstPass PROVE IInv'
    OBVIOUS
<1>1. /\ agg.pc = "first" /\ agg'.pc = "second" /\ agg'.at = agg.at
      /\ agg'.stamp = agg.stamp /\ agg'.seen = agg.seen
      /\ agg'.times = Times(source.lines, agg.at)
      /\ UNCHANGED <<now, source, stamp, target, locked, toWrite, partial,
                     downloads, faults>>
    BY DEF FirstPass
<1>2. source.lines \in Seq(Line) /\ agg.at \in Nat
    BY <1>1, FilesAssumption DEF IInv, TypeOK, AggFits
<1>3. agg'.times \in Seq(Int)
    BY <1>1, <1>2, TimesFit
<1>4. AggFits'
    BY <1>1, <1>3 DEF IInv, AggFits
<1>5. RecheckFits'
    BY <1>1 DEF RecheckFits
<1>6. \A b \in DOMAIN target' : target'[b] \subseteq Line
    BY <1>1 DEF IInv, TypeOK
<1> QED
    BY <1>1, <1>4, <1>5, <1>6, AggKeeps

LEMMA SecondPassKeeps == IInv /\ SecondPass => IInv'
<1> SUFFICES ASSUME IInv, SecondPass PROVE IInv'
    OBVIOUS
<1>1. /\ agg.pc = "second"
      /\ UNCHANGED <<now, source, stamp, target, locked, toWrite, partial,
                     downloads, faults>>
    BY DEF SecondPass
<1>2. \A b \in DOMAIN target' : target'[b] \subseteq Line
    BY <1>1 DEF IInv, TypeOK
<1>3. CASE Times(source.lines, agg.at) # agg.times
  <2>1. agg'.pc = "idle"
      BY <1>3 DEF SecondPass, Idle
  <2>2. AggFits' /\ RecheckFits'
      BY <2>1 DEF AggFits, RecheckFits
  <2> QED
      BY <1>1, <1>2, <2>1, <2>2, AggKeeps
<1>4. CASE Times(source.lines, agg.at) = agg.times
  <2> DEFINE kept == KeptRows(source.lines, agg.at)
             bars == Rebuilt(target, source.lines, kept, agg.at, agg.stamp.at, partial)
  <2>1. /\ agg'.pc = "recheck" /\ agg'.stamp = agg.stamp /\ agg'.seen = agg.seen
        /\ agg'.bars = bars
      BY <1>4 DEF SecondPass, KeptRows
  <2>2. /\ agg.at \in Nat /\ agg.stamp.at \in Nat /\ agg.stamp.at <= agg.at
        /\ LinesFit(agg.seen, agg.stamp.at)
        /\ stamp = agg.stamp => agg.seen = source.lines
      BY <1>1, FilesAssumption DEF IInv, TypeOK, AggFits
  <2>3. KeptFit(source.lines, agg.at, kept)
      BY <2>2, KeptRowsFit DEF IInv, TypeOK
  <2> HIDE DEF kept
  <2>4. ASSUME stamp = agg.stamp
        PROVE  /\ bars # target =>
                    \A b \in DOMAIN bars :
                        BarReflects(bars[b], agg.seen, b, agg.stamp.at)
               /\ \A b \in DOMAIN target \ DOMAIN bars : Defective(agg.seen, b)
    <3>1. agg.seen = source.lines /\ LinesFit(source.lines, agg.stamp.at)
        BY <2>2, <2>4
    <3> QED
        BY <2>2, <2>3, <3>1, RebuiltFits
  <2> HIDE DEF bars
  <2>5. AggFits'
      BY <1>1, <2>1 DEF IInv, AggFits
  <2>6. RecheckFits'
      BY <1>1, <2>1, <2>4 DEF RecheckFits, BarReflects
  <2> QED
      BY <1>1, <1>2, <2>1, <2>5, <2>6, AggKeeps
<1> QED
    BY <1>3, <1>4

LEMMA CommitKeeps == IInv /\ Commit => IInv'
<1> SUFFICES ASSUME IInv, Commit PROVE IInv'
    OBVIOUS
<1>1. /\ agg.pc = "recheck" /\ agg'.pc = "idle"
      /\ target' = IF stamp = agg.stamp THEN agg.bars ELSE target
      /\ UNCHANGED <<now, source, stamp, locked, toWrite, partial, downloads, faults>>
    BY DEF Commit, Idle
<1>2. \A b \in DOMAIN target' : target'[b] \subseteq Line
  <2>1. CASE target' = target
      BY <2>1 DEF IInv, TypeOK
  <2>2. CASE target' # target
    <3>1. stamp = agg.stamp /\ target' = agg.bars /\ agg.bars # target
        BY <1>1, <2>2
    <3>2. /\ \A b \in DOMAIN agg.bars :
                BarReflects(agg.bars[b], agg.seen, b, agg.stamp.at)
          /\ agg.seen \in Seq(Line)
        BY <1>1, <3>1 DEF IInv, AggFits, RecheckFits, LinesFit
    <3>3. \A b : {agg.seen[i] : i \in LinesOf(agg.seen, b)} \subseteq Line
        BY <3>2 DEF LinesOf
    <3> QED
        BY <3>1, <3>2, <3>3 DEF BarReflects
  <2> QED
      BY <2>1, <2>2
<1>3. AggFits' /\ RecheckFits'
    BY <1>1 DEF AggFits, RecheckFits
<1> QED
    BY <1>1, <1>2, <1>3, AggKeeps

LEMMA NextInvariant == IInv /\ [Next]_vars => IInv'
<1> SUFFICES ASSUME IInv, [Next]_vars PROVE IInv'
    OBVIOUS
<1>1. CASE Tick
  <2>1. /\ now' = now + 1 /\ now < Horizon
        /\ UNCHANGED <<source, stamp, target, locked, toWrite, agg,
                       partial, downloads, faults>>
      BY <1>1 DEF Tick
  <2>2. now \in Nat /\ now' \in Nat /\ now <= now' /\ Horizon \in Nat /\ FirstClock \in Nat
      BY <2>1, FilesAssumption DEF IInv, TypeOK
  <2>3. TypeOK'
      BY <2>1, <2>2 DEF IInv, TypeOK
  <2>4. LinesFit(toWrite, now')
      BY <2>2, LaterFits DEF IInv, SourceFits
  <2>5. SourceFits'
      BY <2>1, <2>4 DEF IInv, SourceFits
  <2>6. AggFits'
      BY <2>1, <2>2 DEF IInv, AggFits
  <2>7. RecheckFits'
      BY <2>1 DEF IInv, RecheckFits, BarReflects
  <2> QED
      BY <2>3, <2>5, <2>6, <2>7 DEF IInv
<1>2. CASE Resume
    BY <1>2, ResumeKeeps
<1>3. CASE Flush
    BY <1>3, FlushKeeps
<1>4. CASE Finish
    BY <1>4, FinishKeeps
<1>5. CASE Repair
    BY <1>5, RepairKeeps
<1>6. CASE Open
    BY <1>6, OpenKeeps
<1>7. CASE FirstPass
    BY <1>7, FirstPassKeeps
<1>8. CASE SecondPass
    BY <1>8, SecondPassKeeps
<1>9. CASE Commit
    BY <1>9, CommitKeeps
<1>10. CASE Die
  <2>0. faults' \in 0 .. MaxFaults
      BY <1>10, FilesAssumption DEF Die, IInv, TypeOK
  <2>1. /\ CountersFit /\ toWrite' = <<>>
        /\ UNCHANGED <<now, source, stamp, target, agg, partial>>
      BY <1>10, <2>0 DEF Die, CountersFit, IInv, TypeOK
  <2>2. LinesFit(toWrite', now)
      BY <2>1 DEF LinesFit
  <2> QED
      BY <2>1, <2>2, RestKeeps
<1>11. CASE UNCHANGED vars
  <2>1. /\ CountersFit /\ toWrite' = toWrite
        /\ UNCHANGED <<now, source, stamp, target, agg, partial>>
      BY <1>11 DEF vars, CountersFit, IInv, TypeOK
  <2>2. LinesFit(toWrite', now)
      BY <2>1 DEF IInv, SourceFits
  <2> QED
      BY <2>1, <2>2, RestKeeps
<1> QED
    BY <1>1, <1>2, <1>3, <1>4, <1>5, <1>6, <1>7, <1>8, <1>9, <1>10, <1>11 DEF Next

-----------------------------------------------------------------------------
(* What holds of every run *)

\* The invariant of a candle file and what is made of it holds in every state.
THEOREM Invariance == Spec => []IInv
<1>1. Init => IInv
    BY InitInvariant
<1>2. IInv /\ [Next]_vars => IInv'
    BY NextInvariant
<1> QED
    BY <1>1, <1>2, PTL DEF Spec

\* The variables keep their types, whatever form old files have.
THEOREM TypeCorrectness == Spec => []TypeOK
<1>1. IInv => TypeOK
    BY DEF IInv
<1> QED
    BY <1>1, Invariance, PTL

\* selectLongestIncreasingTimestamps (candle_aggregator.cpp): no larger set of
\* rows in order could have been kept, for a file of any length.
THEOREM LongestIsKept == Spec => []LongestKept
<1>1. IInv => LongestKept
    BY KeepFits DEF IInv, AggFits, LongestKept
<1> QED
    BY <1>1, Invariance, PTL

\* README.md:404: whoever writes to the source meanwhile, a bar that is put into
\* the target is made of all the lines of its bucket in one state of the source.
THEOREM BarsReflect == Spec => BarsReflectSource
<1>1. IInv /\ [Next]_vars =>
        (target' # target =>
            \A b \in DOMAIN target' :
                BarReflects(target'[b], agg.seen, b, agg.stamp.at))
  <2> SUFFICES ASSUME IInv, [Next]_vars, target' # target
               PROVE  \A b \in DOMAIN target' :
                         BarReflects(target'[b], agg.seen, b, agg.stamp.at)
      OBVIOUS
  <2>1. Commit
      BY DEF Next, vars, Tick, Resume, Flush, Finish, Repair, Open, FirstPass,
             SecondPass, Die
  <2>2. agg.pc = "recheck" /\ stamp = agg.stamp /\ target' = agg.bars
      BY <2>1 DEF Commit
  <2> QED
      BY <2>2 DEF IInv, RecheckFits
<1> QED
    BY <1>1, Invariance, PTL DEF Spec, BarsReflectSource

\* README.md:424: no run of the aggregator takes a bar away whose bucket has no
\* row left in the source, or has them all in order.
THEOREM OldBarsStay == Spec => OldBarsSurvive
<1>1. IInv /\ [Next]_vars =>
        \A b \in DOMAIN target \ DOMAIN target' : Defective(agg.seen, b)
  <2> SUFFICES ASSUME IInv, [Next]_vars, target' # target
               PROVE  \A b \in DOMAIN target \ DOMAIN target' : Defective(agg.seen, b)
      OBVIOUS
  <2>1. Commit
      BY DEF Next, vars, Tick, Resume, Flush, Finish, Repair, Open, FirstPass,
             SecondPass, Die
  <2>2. agg.pc = "recheck" /\ stamp = agg.stamp /\ target' = agg.bars
      BY <2>1 DEF Commit
  <2> QED
      BY <2>2 DEF IInv, RecheckFits
<1> QED
    BY <1>1, Invariance, PTL DEF Spec, OldBarsSurvive

=============================================================================
