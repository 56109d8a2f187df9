------------------------- MODULE NumberSets_proofs -------------------------
(***************************************************************************)
(* Facts about sets of numbers that several proofs rest on: induction, the *)
(* first and the last member of a set, and a set read in order.            *)
(***************************************************************************)
EXTENDS NumberSets, Sequences, FiniteSetsExt, FiniteSetTheorems, WellFoundedInduction, TLAPS

-----------------------------------------------------------------------------
(* First and last members.  Min and Max choose a member that must be shown *)
(* to exist: the naturals are well founded.                                *)

\* Every non-empty set of naturals has a first member: the first row of a CSV,
\* of a page or of a staged batch.
LEMMA FirstOf ==
    ASSUME NEW S \in SUBSET Nat, S # {}
    PROVE  Min(S) \in S /\ \A y \in S : Min(S) <= y
<1>1. IsWellFoundedOn(OpToRel(<, Nat), Nat)
    BY NatLessThanWellFounded
<1>2. PICK x \in S : \A y \in S : ~ (<<y, x>> \in OpToRel(<, Nat))
    BY <1>1, WFMin
<1>3. \A y \in S : x <= y
  <2>1. TAKE y \in S
  <2>2. ~ (<<y, x>> \in OpToRel(<, Nat))
      BY <1>2
  <2>3. y \in Nat /\ x \in Nat
      OBVIOUS
  <2> QED
      BY <2>2, <2>3 DEF OpToRel
<1> QED
    BY <1>2, <1>3 DEF Min

\* Every bounded one has a last member: the tail of a CSV.
LEMMA LastOf ==
    ASSUME NEW hi \in Nat, NEW S \in SUBSET (0 .. hi), S # {}
    PROVE  Max(S) \in S /\ \A y \in S : y <= Max(S)
<1> DEFINE T == {hi - s : s \in S}
<1>1. T \in SUBSET Nat /\ T # {}
  <2>1. \A s \in 0 .. hi : hi - s \in Nat
      OBVIOUS
  <2>2. PICK s \in S : TRUE
      OBVIOUS
  <2>3. hi - s \in T
      BY <2>2
  <2> QED
      BY <2>1, <2>3
<1>2. Min(T) \in T /\ \A y \in T : Min(T) <= y
    BY <1>1, FirstOf
<1>3. PICK x \in S : Min(T) = hi - x
    BY <1>2
<1>4. \A y \in S : x >= y
  <2>1. TAKE y \in S
  <2>2. hi - x <= hi - y
      BY <1>2, <1>3
  <2>3. x \in 0 .. hi /\ y \in 0 .. hi
      OBVIOUS
  <2> QED
      BY <2>2, <2>3
<1>5. \E z \in S : \A y \in S : z >= y
    BY <1>4
<1>6. Max(S) \in S /\ \A y \in S : Max(S) >= y
    BY <1>5 DEF Max
<1> QED
    BY <1>6

\* The larger of two numbers.
LEMMA MaxOfTwo ==
    ASSUME NEW a \in Int, NEW b \in Int
    PROVE  /\ Max({a, b}) \in {a, b}
           /\ a <= Max({a, b}) /\ b <= Max({a, b})
<1>1. \E z \in {a, b} : \A y \in {a, b} : z >= y
  <2>1. CASE a >= b
      BY <2>1
  <2>2. CASE ~(a >= b)
      BY <2>2
  <2> QED
      BY <2>1, <2>2
<1>2. Max({a, b}) \in {a, b} /\ \A y \in {a, b} : Max({a, b}) >= y
    BY <1>1 DEF Max
<1> QED
    BY <1>2

-----------------------------------------------------------------------------
(* Induction, for a set P that stands for a property *)

LEMMA Induction ==
    ASSUME NEW P \in SUBSET Nat, 0 \in P, \A n \in P : n + 1 \in P
    PROVE  P = Nat
<1>1. SUFFICES ASSUME Nat \ P # {} PROVE FALSE
    OBVIOUS
<1> DEFINE x == Min(Nat \ P)
<1>2. x \in Nat \ P /\ \A y \in Nat \ P : x <= y
  <2> DEFINE T == Nat \ P
  <2>1. T \in SUBSET Nat /\ T # {}
      BY <1>1
  <2> HIDE DEF T
  <2>2. Min(T) \in T /\ \A y \in T : Min(T) <= y
      BY <2>1, FirstOf
  <2> QED
      BY <2>2 DEF T
<1> HIDE DEF x
<1>3. x - 1 \in Nat /\ ~(x <= x - 1)
    BY <1>2
<1>4. x - 1 \in P
    BY <1>2, <1>3
<1> QED
    BY <1>2, <1>4

\* The same with all smaller numbers at hand.
LEMMA StrongInduction ==
    ASSUME NEW P \in SUBSET Nat, \A n \in Nat : (\A m \in 0 .. n - 1 : m \in P) => n \in P
    PROVE  P = Nat
<1> DEFINE Q == {n \in Nat : \A m \in 0 .. n - 1 : m \in P}
<1>1. Q \in SUBSET Nat /\ 0 \in Q
    OBVIOUS
<1>2. \A n \in Q : n + 1 \in Q
  <2>1. TAKE n \in Q
  <2>2. n \in P
      OBVIOUS
  <2>3. \A m \in 0 .. n : m \in P
    <3>1. TAKE m \in 0 .. n
    <3>2. m \in 0 .. n - 1 \/ m = n
        OBVIOUS
    <3> QED
        BY <2>2, <3>2
  <2> QED
      BY <2>3
<1> HIDE DEF Q
<1>3. Q = Nat
    BY <1>1, <1>2, Induction
<1> QED
    BY <1>3 DEF Q

-----------------------------------------------------------------------------
(* Sets in order *)

\* A larger member has more below it, and a rank is less than the cardinality.
LEMMA RankGrows ==
    ASSUME NEW S, IsFiniteSet(S), S \subseteq Int
    PROVE  /\ Cardinality(S) \in Nat
           /\ \A i \in S : Rank(S, i) \in 0 .. Cardinality(S) - 1
           /\ \A i, k \in S : i < k => Rank(S, i) < Rank(S, k)
<1> DEFINE Below(i) == {j \in S : j < i}
<1>1. Cardinality(S) \in Nat
    BY FS_CardinalityType
<1>2. \A i \in S : IsFiniteSet(Below(i)) /\ Cardinality(Below(i)) \in Nat
  <2>1. TAKE i \in S
  <2>2. Below(i) \in SUBSET S
      OBVIOUS
  <2> HIDE DEF Below
  <2> QED
      BY <2>2, FS_Subset, FS_CardinalityType
<1>3. ASSUME NEW i \in S PROVE Cardinality(Below(i)) < Cardinality(S)
  <2>1. Below(i) \in SUBSET (S \ {i})
      OBVIOUS
  <2>2. IsFiniteSet(S \ {i}) /\ Cardinality(S \ {i}) = Cardinality(S) - 1
      BY FS_RemoveElement
  <2> HIDE DEF Below
  <2>3. Cardinality(Below(i)) <= Cardinality(S \ {i})
      BY <2>1, <2>2, FS_Subset
  <2> QED
      BY <1>1, <1>2, <2>2, <2>3
<1>4. ASSUME NEW i \in S, NEW k \in S, i < k PROVE Cardinality(Below(i)) < Cardinality(Below(k))
  <2>1. Below(i) \in SUBSET (Below(k) \ {i}) /\ i \in Below(k)
    <3>1. \A j \in S : j < i => j < k /\ j # i
        BY <1>4
    <3> QED
        BY <1>4, <3>1
  <2>2. /\ IsFiniteSet(Below(k) \ {i})
        /\ Cardinality(Below(k) \ {i}) = Cardinality(Below(k)) - 1
    <3> HIDE DEF Below
    <3> QED
        BY <1>2, <2>1, FS_RemoveElement
  <2> HIDE DEF Below
  <2>3. Cardinality(Below(i)) <= Cardinality(Below(k) \ {i})
      BY <2>1, <2>2, FS_Subset
  <2> QED
      BY <1>2, <2>2, <2>3
<1> QED
  <2>1. \A i \in S : Rank(S, i) = Cardinality(Below(i))
      BY DEF Rank
  <2> HIDE DEF Below
  <2> QED
      BY <1>1, <1>2, <1>3, <1>4, <2>1

\* InOrder enumerates the set, each member once, smallest first.
LEMMA InOrderFits ==
    ASSUME NEW S, IsFiniteSet(S), S \subseteq Int
    PROVE  /\ Cardinality(S) \in Nat
           /\ InOrder(S) \in [1 .. Cardinality(S) -> S]
           /\ \A i \in S : \E n \in 1 .. Cardinality(S) : InOrder(S)[n] = i
           /\ \A m, n \in 1 .. Cardinality(S) : m < n => InOrder(S)[m] < InOrder(S)[n]
<1> DEFINE N == Cardinality(S)
           place == [i \in S |-> Rank(S, i) + 1]
<1>1. /\ N \in Nat
      /\ \A i \in S : Rank(S, i) \in 0 .. N - 1
      /\ \A i, k \in S : i < k => Rank(S, i) < Rank(S, k)
    BY RankGrows
<1> HIDE DEF N
<1>2. \A i, k \in S : Rank(S, i) = Rank(S, k) => i = k
  <2>1. TAKE i, k \in S
  <2>2. i < k \/ k < i \/ i = k
      OBVIOUS
  <2>3. Rank(S, i) \in Int /\ Rank(S, k) \in Int
      BY <1>1
  <2> QED
      BY <1>1, <2>2, <2>3
<1>3. place \in Injection(S, 1 .. N)
  <2>1. place \in [S -> 1 .. N]
      BY <1>1
  <2>2. \A i, k \in S : place[i] = place[k] => i = k
      BY <1>1, <1>2
  <2> QED
      BY <2>1, <2>2 DEF Injection, IsInjective
<1>4. IsFiniteSet(1 .. N) /\ Cardinality(1 .. N) = N
    BY <1>1, FS_Interval
<1>5. place \in Surjection(S, 1 .. N)
  <2> HIDE DEF place
  <2> QED
      BY <1>3, <1>4, FS_Injection DEF N
<1>6. \A n \in 1 .. N : \E i \in S : Rank(S, i) = n - 1
  <2>1. TAKE n \in 1 .. N
  <2>2. PICK i \in S : place[i] = n
      BY <1>5 DEF Surjection
  <2>3. Rank(S, i) + 1 = n /\ Rank(S, i) \in Int
      BY <1>1, <2>2
  <2> QED
      BY <2>3
<1>7. /\ InOrder(S) = [n \in 1 .. N |-> CHOOSE i \in S : Rank(S, i) = n - 1]
      /\ DOMAIN InOrder(S) = 1 .. N
    BY DEF InOrder, N
<1>8. \A n \in 1 .. N : InOrder(S)[n] \in S /\ Rank(S, InOrder(S)[n]) = n - 1
    BY <1>6, <1>7
<1>9. \A i \in S : \E n \in 1 .. N : InOrder(S)[n] = i
  <2>1. TAKE i \in S
  <2>2. Rank(S, i) + 1 \in 1 .. N /\ Rank(S, InOrder(S)[Rank(S, i) + 1]) = Rank(S, i)
      BY <1>1, <1>8
  <2> QED
      BY <1>2, <1>8, <2>2
<1>10. ASSUME NEW m \in 1 .. N, NEW n \in 1 .. N, m < n
       PROVE  InOrder(S)[m] < InOrder(S)[n]
  <2> DEFINE a == InOrder(S)[m]
             b == InOrder(S)[n]
  <2>1. a \in S /\ b \in S /\ Rank(S, a) = m - 1 /\ Rank(S, b) = n - 1
      BY <1>8
  <2> HIDE DEF a, b
  <2>2. a < b \/ b < a \/ a = b
      BY <2>1
  <2>3. ~(b < a) /\ a # b
      BY <1>1, <1>10, <2>1
  <2> QED
      BY <2>2, <2>3 DEF a, b
<1>11. InOrder(S) \in [1 .. N -> S]
    BY <1>7, <1>8
<1> QED
    BY <1>1, <1>9, <1>10, <1>11 DEF N

\* What is picked from a list are the elements at the places given.
LEMMA PickedFits ==
    ASSUME NEW T, NEW list \in Seq(T), NEW S \in SUBSET (DOMAIN list)
    PROVE  /\ Picked(list, S) \in Seq(T)
           /\ Len(Picked(list, S)) = Cardinality(S)
           /\ \A i \in S : \E n \in DOMAIN Picked(list, S) : Picked(list, S)[n] = list[i]
           /\ \A n \in DOMAIN Picked(list, S) : \E i \in S : Picked(list, S)[n] = list[i]
<1>1. IsFiniteSet(S) /\ S \subseteq Int
  <2>1. DOMAIN list = 1 .. Len(list) /\ Len(list) \in Nat
      OBVIOUS
  <2>2. IsFiniteSet(DOMAIN list)
      BY <2>1, FS_Interval
  <2> QED
      BY <2>1, <2>2, FS_Subset
<1>2. /\ Cardinality(S) \in Nat
      /\ InOrder(S) \in [1 .. Cardinality(S) -> S]
      /\ \A i \in S : \E n \in 1 .. Cardinality(S) : InOrder(S)[n] = i
    BY <1>1, InOrderFits
<1>3. /\ Picked(list, S) = [n \in 1 .. Cardinality(S) |-> list[InOrder(S)[n]]]
      /\ DOMAIN Picked(list, S) = 1 .. Cardinality(S)
    BY DEF Picked
<1>4. \A n \in 1 .. Cardinality(S) : InOrder(S)[n] \in S /\ list[InOrder(S)[n]] \in T
    BY <1>2
<1>5. Picked(list, S) \in Seq(T) /\ Len(Picked(list, S)) = Cardinality(S)
    BY <1>2, <1>3, <1>4
<1> QED
    BY <1>2, <1>3, <1>4, <1>5

=============================================================================
