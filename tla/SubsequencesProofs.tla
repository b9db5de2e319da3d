------------------------- MODULE SubsequencesProofs -------------------------
(***************************************************************************)
(* What the operators of Subsequences compute, for every sequence.         *)
(***************************************************************************)
EXTENDS Subsequences, FiniteSetTheorems, FunctionTheorems, NaturalsInduction,
        WellFoundedInduction, TLAPS

-----------------------------------------------------------------------------
(****************************** Well-ordering ******************************)

\* A set of natural numbers has a smallest element.
LEMMA Smallest ==
  ASSUME NEW S, S \subseteq Nat, S # {}
  PROVE  \E i \in S : \A j \in S : i <= j
<1> DEFINE Less == {p \in Nat \X Nat : p[1] < p[2]}
<1>1. OpToRel(<, Nat) = Less
  BY SMT DEF OpToRel
<1>2. IsWellFoundedOn(OpToRel(<, Nat), Nat)
  BY NatLessThanWellFounded
<1>3. IsWellFoundedOn(Less, Nat)
  BY <1>1, <1>2, Zenon
<1> HIDE DEF Less
<1>4. PICK i \in S : \A j \in S : ~ (<<j, i>> \in Less)
  BY <1>3, WFMin, Zenon
<1>5. ASSUME NEW j \in S PROVE i <= j
  <2>1. i \in Nat /\ j \in Nat /\ <<j, i>> \notin Less
    BY <1>4
  <2> QED
    BY <2>1 DEF Less
<1> QED
  BY <1>5

\* What holds of 0, and of a number's successor when it holds of it, holds of all.
LEMMA AllNumbers ==
  ASSUME NEW S, 0 \in S, \A i \in Nat : i \in S => i + 1 \in S
  PROVE  Nat \subseteq S
<1> SUFFICES ASSUME Nat \ S # {} PROVE FALSE
  OBVIOUS
<1>1. PICK i \in Nat \ S : \A j \in Nat \ S : i <= j
  BY Smallest
<1>2. i # 0 /\ i - 1 \in Nat
  BY <1>1
<1>3. i - 1 \in S
  BY <1>1, <1>2
<1> QED
  BY <1>1, <1>2, <1>3

\* A bounded set of numbers has a largest element.
LEMMA Largest ==
  ASSUME NEW n \in Nat, NEW S, S \subseteq 0 .. n, S # {}
  PROVE  \E i \in S : \A j \in S : j <= i
<1> DEFINE T == {n - i : i \in S}
<1>1. T \subseteq Nat /\ T # {}
  <2>1. \A i \in S : i \in 0 .. n
    OBVIOUS
  <2>2. \A i \in S : n - i \in Nat
    BY <2>1
  <2> QED
    BY <2>2
<1>2. PICK k \in T : \A l \in T : k <= l
  BY <1>1, Smallest
<1>3. PICK i \in S : k = n - i
  OBVIOUS
<1>4. ASSUME NEW j \in S PROVE j <= i
  <2>1. n - j \in T
    OBVIOUS
  <2>2. n - i <= n - j
    BY <1>2, <1>3, <2>1
  <2> QED
    BY <2>2
<1> QED
  BY <1>4
-----------------------------------------------------------------------------
(******************************* Subsequence *******************************)

\* The k-th smallest elements are the elements, in ascending order.
THEOREM NthElement ==
  ASSUME NEW n \in Nat, NEW S, S \subseteq 1 .. n
  PROVE  /\ Cardinality(S) \in 0 .. n
         /\ \A k \in 1 .. Cardinality(S) : Nth(S, k) \in S
         /\ \A k, l \in 1 .. Cardinality(S) : k < l => Nth(S, k) < Nth(S, l)
         /\ \A i \in S : \E k \in 1 .. Cardinality(S) : Nth(S, k) = i
<1> DEFINE Upto(i) == {j \in S : j <= i}
           m == Cardinality(S)
           rank == [i \in S |-> Cardinality(Upto(i))]
<1>1. IsFiniteSet(1 .. n) /\ Cardinality(1 .. n) = n
  BY FS_Interval
<1>2. IsFiniteSet(S) /\ m \in 0 .. n
  <2>1. S \in SUBSET (1 .. n)
    OBVIOUS
  <2>2. IsFiniteSet(S) /\ m <= n
    BY <1>1, <2>1, FS_Subset
  <2>3. m \in Nat
    BY <2>2, FS_CardinalityType
  <2> HIDE DEF m
  <2> QED
    BY <2>2, <2>3
<1>3. ASSUME NEW i \in S
      PROVE  IsFiniteSet(Upto(i)) /\ Cardinality(Upto(i)) \in 1 .. m
  <2>1. IsFiniteSet(Upto(i)) /\ Cardinality(Upto(i)) \in Nat /\ Cardinality(Upto(i)) <= m
    BY <1>2, FS_Subset, FS_CardinalityType
  <2>2. Upto(i) # {}
    OBVIOUS
  <2>3. Cardinality(Upto(i)) # 0
    BY <2>1, <2>2, FS_EmptySet
  <2> QED
    BY <1>2, <2>1, <2>3
<1>4. ASSUME NEW i \in S, NEW j \in S, i < j
      PROVE  rank[i] < rank[j]
  <2>1. Upto(i) \in SUBSET Upto(j) /\ Upto(i) # Upto(j)
    <3>1. \A h \in S : h \in Int
      OBVIOUS
    <3>2. i \in Int /\ j \in Int /\ \A h \in S : h <= i => h <= j
      BY <1>4, <3>1
    <3>3. j \in Upto(j) /\ j \notin Upto(i)
      BY <1>4, <3>2
    <3> QED
      BY <3>2, <3>3
  <2>2. /\ IsFiniteSet(Upto(j))
        /\ Cardinality(Upto(i)) \in Int /\ Cardinality(Upto(j)) \in Int
    BY <1>2, <1>3
  <2>3. Cardinality(Upto(i)) <= Cardinality(Upto(j)) /\ Cardinality(Upto(i)) # Cardinality(Upto(j))
    BY <2>1, <2>2, FS_Subset
  <2> QED
    BY <2>2, <2>3
<1>5. rank \in [S -> 1 .. m]
  BY <1>3
<1>6. \A i, j \in S : rank[i] = rank[j] => i = j
  <2> SUFFICES ASSUME NEW i \in S, NEW j \in S, rank[i] = rank[j], i # j PROVE FALSE
    OBVIOUS
  <2>1. rank[i] \in Int /\ rank[j] \in Int
    BY <1>2, <1>5
  <2>2. CASE i < j
    BY <1>4, <2>1, <2>2
  <2>3. CASE j < i
    BY <1>4, <2>1, <2>3
  <2> QED
    BY <2>2, <2>3
<1>7. rank \in Surjection(S, 1 .. m)
  <2>1. rank \in Injection(S, 1 .. m)
    BY <1>5, <1>6 DEF Injection, IsInjective
  <2>2. IsFiniteSet(1 .. m) /\ Cardinality(1 .. m) = m
    BY <1>2, FS_Interval
  <2> HIDE DEF rank
  <2> QED
    BY <1>2, <2>1, <2>2, FS_Injection
<1>8. ASSUME NEW k \in 1 .. m
      PROVE  Nth(S, k) \in S /\ rank[Nth(S, k)] = k
  <2>1. \E i \in S : Cardinality(Upto(i)) = k
    BY <1>7 DEF Surjection
  <2> QED
    BY <2>1 DEF Nth
<1>9. ASSUME NEW k \in 1 .. m, NEW l \in 1 .. m, k < l
      PROVE  Nth(S, k) < Nth(S, l)
  <2>1. /\ Nth(S, k) \in S /\ rank[Nth(S, k)] = k
        /\ Nth(S, l) \in S /\ rank[Nth(S, l)] = l
    BY <1>8
  <2> HIDE DEF rank
  <2>2. k \in Int /\ l \in Int /\ Nth(S, k) \in Int /\ Nth(S, l) \in Int
    <3>1. \A h \in S : h \in Int
      OBVIOUS
    <3>2. Nth(S, k) \in Int /\ Nth(S, l) \in Int
      BY <2>1, <3>1
    <3>3. m \in Int
      BY <1>2
    <3> HIDE DEF m
    <3>4. k \in Int /\ l \in Int
      BY <3>3
    <3> QED
      BY <3>2, <3>4
  <2>3. Nth(S, k) # Nth(S, l)
    BY <1>9, <2>1, <2>2
  <2>4. CASE Nth(S, l) < Nth(S, k)
    <3>1. rank[Nth(S, l)] < rank[Nth(S, k)]
      BY <1>4, <2>1, <2>4
    <3> QED
      BY <1>9, <2>1, <2>2, <3>1
  <2> QED
    BY <2>2, <2>3, <2>4
<1>10. ASSUME NEW i \in S
       PROVE  \E k \in 1 .. m : Nth(S, k) = i
  <2>1. rank[i] \in 1 .. m
    BY <1>5
  <2>2. Nth(S, rank[i]) \in S /\ rank[Nth(S, rank[i])] = rank[i]
    BY <1>8, <2>1
  <2> HIDE DEF rank
  <2>3. Nth(S, rank[i]) = i
    BY <1>6, <2>2
  <2> QED
    BY <2>1, <2>3
<1> QED
  BY <1>2, <1>8, <1>9, <1>10

\* A subsequence has the elements at the chosen indices, in their order.
THEOREM SubsequenceElements ==
  ASSUME NEW T, NEW s \in Seq(T), NEW S, S \subseteq DOMAIN s
  PROVE  /\ Subsequence(s, S) \in Seq(T)
         /\ Len(Subsequence(s, S)) = Cardinality(S)
         /\ DOMAIN Subsequence(s, S) = 1 .. Cardinality(S)
         /\ \A k \in 1 .. Cardinality(S) : /\ Nth(S, k) \in S
                                          /\ Subsequence(s, S)[k] = s[Nth(S, k)]
         /\ \A k, l \in 1 .. Cardinality(S) : k < l => Nth(S, k) < Nth(S, l)
         /\ \A i \in S : \E k \in 1 .. Cardinality(S) : Nth(S, k) = i
<1>1. Len(s) \in Nat /\ S \subseteq 1 .. Len(s)
  OBVIOUS
<1>2. /\ Cardinality(S) \in 0 .. Len(s)
      /\ \A k \in 1 .. Cardinality(S) : Nth(S, k) \in S
      /\ \A k, l \in 1 .. Cardinality(S) : k < l => Nth(S, k) < Nth(S, l)
      /\ \A i \in S : \E k \in 1 .. Cardinality(S) : Nth(S, k) = i
  BY <1>1, NthElement
<1>3. Cardinality(S) \in Nat
  BY <1>1, <1>2
<1>4. \A k \in 1 .. Cardinality(S) : s[Nth(S, k)] \in T
  BY <1>1, <1>2
<1>5. Subsequence(s, S) \in [1 .. Cardinality(S) -> T]
  BY <1>4 DEF Subsequence
<1> QED
  BY <1>2, <1>3, <1>5 DEF Subsequence
-----------------------------------------------------------------------------
(********************************** Sums ***********************************)

\* f has the sums of the beginnings of s.
Sums(f, s) ==
  /\ f \in [0 .. Len(s) -> Nat]
  /\ f[0] = 0
  /\ \A i \in 1 .. Len(s) : f[i] = f[i - 1] + s[i]

\* Such sums exist.
LEMMA SumsExist ==
  ASSUME NEW s \in Seq(Nat)
  PROVE  \E f : Sums(f, s)
<1> DEFINE Upto(f, n) == /\ f \in [0 .. n -> Nat]
                         /\ f[0] = 0
                         /\ \A i \in 1 .. n : f[i] = f[i - 1] + s[i]
           S == {n \in Nat : n <= Len(s) => \E f : Upto(f, n)}
<1>1. 0 \in S
  <2>1. Upto([i \in 0 .. 0 |-> 0], 0)
    OBVIOUS
  <2> QED
    BY <2>1
<1>2. ASSUME NEW n \in Nat, n \in S PROVE n + 1 \in S
  <2> HIDE DEF Upto
  <2> SUFFICES ASSUME n + 1 <= Len(s) PROVE \E f : Upto(f, n + 1)
    OBVIOUS
  <2>1. PICK f : Upto(f, n)
    BY <1>2
  <2> USE DEF Upto
  <2> DEFINE g == [i \in 0 .. n + 1 |-> IF i = n + 1 THEN f[n] + s[n + 1] ELSE f[i]]
  <2>2. s[n + 1] \in Nat /\ f[n] \in Nat
    BY <2>1
  <2>3. g \in [0 .. n + 1 -> Nat]
    BY <2>1, <2>2
  <2>4. g[0] = 0
    BY <2>1
  <2>5. ASSUME NEW i \in 1 .. n + 1 PROVE g[i] = g[i - 1] + s[i]
    <3>1. CASE i = n + 1
      BY <3>1
    <3>2. CASE i # n + 1
      BY <2>1, <3>2
    <3> QED
      BY <3>1, <3>2
  <2> HIDE DEF g
  <2>6. Upto(g, n + 1)
    BY <2>3, <2>4, <2>5
  <2> QED
    BY <2>6
<1>3. Len(s) \in S
  <2> HIDE DEF S
  <2>1. Nat \subseteq S
    BY <1>1, <1>2, AllNumbers
  <2> QED
    BY <2>1
<1> QED
  BY <1>3 DEF Sums

\* The sums of the beginnings of s and of a longer sequence agree.
LEMMA SumsAgree ==
  ASSUME NEW s \in Seq(Nat), NEW t \in Seq(Nat), NEW f, NEW g, Sums(f, s), Sums(g, t),
         NEW m \in Nat, m <= Len(s), m <= Len(t), \A i \in 1 .. m : s[i] = t[i]
  PROVE  \A i \in 0 .. m : f[i] = g[i]
<1> DEFINE S == {n \in Nat : n <= m => f[n] = g[n]}
<1>1. 0 \in S
  BY DEF Sums
<1>2. ASSUME NEW n \in Nat, n \in S PROVE n + 1 \in S
  <2> SUFFICES ASSUME n + 1 <= m PROVE f[n + 1] = g[n + 1]
    OBVIOUS
  <2>1. f[n] = g[n] /\ s[n + 1] = t[n + 1]
    BY <1>2
  <2>2. f[n + 1] = f[n] + s[n + 1] /\ g[n + 1] = g[n] + t[n + 1]
    BY DEF Sums
  <2> QED
    BY <2>1, <2>2
<1>3. Nat \subseteq S
  <2> HIDE DEF S
  <2> QED
    BY <1>1, <1>2, AllNumbers
<1> QED
  BY <1>3

\* SumOf is the last of these sums.
LEMMA SumIsLast ==
  ASSUME NEW s \in Seq(Nat), NEW f, Sums(f, s)
  PROVE  SumOf(s) = f[Len(s)]
<1> DEFINE Def(h) == h = [i \in 0 .. Len(s) |-> IF i = 0 THEN 0 ELSE h[i - 1] + s[i]]
           sum == CHOOSE h : Def(h)
<1>1. Def(f)
  <2>1. \A i \in 0 .. Len(s) : f[i] = IF i = 0 THEN 0 ELSE f[i - 1] + s[i]
    BY DEF Sums
  <2>2. f = [i \in 0 .. Len(s) |-> f[i]]
    BY DEF Sums
  <2> QED
    BY <2>1, <2>2
<1>2. Def(sum)
  BY <1>1
<1>3. SumOf(s) = sum[Len(s)]
  BY DEF SumOf
<1> HIDE DEF sum
<1> DEFINE S == {n \in Nat : n <= Len(s) => sum[n] = f[n]}
<1>4. 0 \in S
  BY <1>2 DEF Sums
<1>5. ASSUME NEW n \in Nat, n \in S PROVE n + 1 \in S
  <2> SUFFICES ASSUME n + 1 <= Len(s) PROVE sum[n + 1] = f[n + 1]
    OBVIOUS
  <2>1. n + 1 \in 0 .. Len(s) /\ n + 1 # 0 /\ n + 1 - 1 = n
    OBVIOUS
  <2>2. sum[n + 1] = sum[n] + s[n + 1]
    BY <1>2, <2>1
  <2>3. f[n + 1] = f[n] + s[n + 1]
    BY <2>1 DEF Sums
  <2> QED
    BY <1>5, <2>2, <2>3
<1>6. Nat \subseteq S
  <2> HIDE DEF S
  <2> QED
    BY <1>4, <1>5, AllNumbers
<1> QED
  BY <1>3, <1>6

\* A sum is a number, and that of nothing is 0.
THEOREM SumNumber ==
  ASSUME NEW s \in Seq(Nat)
  PROVE  SumOf(s) \in Nat /\ (s = <<>> => SumOf(s) = 0)
<1>1. PICK f : Sums(f, s)
  BY SumsExist
<1>2. SumOf(s) = f[Len(s)]
  BY <1>1, SumIsLast
<1>3. Len(s) \in Nat /\ (s = <<>> => Len(s) = 0)
  OBVIOUS
<1> QED
  BY <1>1, <1>2, <1>3 DEF Sums

\* A number at the end is added.
THEOREM SumAppend ==
  ASSUME NEW s \in Seq(Nat), NEW n \in Nat
  PROVE  SumOf(Append(s, n)) = SumOf(s) + n
<1> DEFINE t == Append(s, n)
<1>1. t \in Seq(Nat) /\ Len(t) = Len(s) + 1 /\ Len(s) \in Nat
      /\ t[Len(s) + 1] = n /\ \A i \in 1 .. Len(s) : s[i] = t[i]
  OBVIOUS
<1> HIDE DEF t
<1>2. PICK f : Sums(f, s)
  BY SumsExist
<1>3. PICK g : Sums(g, t)
  BY <1>1, SumsExist
<1>4. f[Len(s)] = g[Len(s)]
  <2> DEFINE m == Len(s)
  <2>1. m \in Nat /\ m <= Len(s) /\ m <= Len(t) /\ t \in Seq(Nat)
    BY <1>1
  <2>2. \A i \in 1 .. m : s[i] = t[i]
    BY <1>1
  <2> HIDE DEF m
  <2>3. \A i \in 0 .. m : f[i] = g[i]
    BY <1>2, <1>3, <2>1, <2>2, SumsAgree
  <2> QED
    BY <2>1, <2>3 DEF m
<1>5. g[Len(s) + 1] = g[Len(s)] + n
  BY <1>1, <1>3 DEF Sums
<1>6. SumOf(s) = f[Len(s)] /\ SumOf(t) = g[Len(s) + 1]
  BY <1>1, <1>2, <1>3, SumIsLast
<1> QED
  BY <1>4, <1>5, <1>6 DEF t

\* A sum of no more is no more.
THEOREM SumOrder ==
  ASSUME NEW s \in Seq(Nat), NEW t \in Seq(Nat), Len(s) <= Len(t),
         \A i \in 1 .. Len(s) : s[i] <= t[i]
  PROVE  SumOf(s) <= SumOf(t)
<1>1. PICK f : Sums(f, s)
  BY SumsExist
<1>2. PICK g : Sums(g, t)
  BY SumsExist
<1> DEFINE S == {n \in Nat : n <= Len(t) => f[IF n <= Len(s) THEN n ELSE Len(s)] <= g[n]}
<1>3. 0 \in S
  BY <1>1, <1>2 DEF Sums
<1>4. ASSUME NEW n \in Nat, n \in S PROVE n + 1 \in S
  <2> SUFFICES ASSUME n + 1 <= Len(t)
               PROVE  f[IF n + 1 <= Len(s) THEN n + 1 ELSE Len(s)] <= g[n + 1]
    OBVIOUS
  <2>1. g[n + 1] = g[n] + t[n + 1] /\ g[n] \in Nat /\ t[n + 1] \in Nat
    <3>1. n + 1 \in 1 .. Len(t) /\ n \in 0 .. Len(t) /\ n + 1 - 1 = n
      OBVIOUS
    <3>2. g[n + 1] = g[n] + t[n + 1]
      BY <1>2, <3>1 DEF Sums
    <3>3. g[n] \in Nat
      BY <1>2, <3>1 DEF Sums
    <3>4. t[n + 1] \in Nat
      BY <3>1
    <3> QED
      BY <3>2, <3>3, <3>4
  <2>2. CASE n + 1 <= Len(s)
    <3>1. f[n + 1] = f[n] + s[n + 1] /\ f[n] \in Nat /\ s[n + 1] \in Nat
      <4>1. n + 1 \in 1 .. Len(s) /\ n \in 0 .. Len(s) /\ n + 1 - 1 = n
        BY <2>2
      <4>2. f[n + 1] = f[n] + s[n + 1]
        BY <1>1, <4>1 DEF Sums
      <4>3. f[n] \in Nat
        BY <1>1, <4>1 DEF Sums
      <4>4. s[n + 1] \in Nat
        BY <4>1
      <4> QED
        BY <4>2, <4>3, <4>4
    <3>2. f[n] <= g[n] /\ s[n + 1] <= t[n + 1]
      BY <1>4, <2>2
    <3> QED
      BY <2>1, <2>2, <3>1, <3>2
  <2>3. CASE ~(n + 1 <= Len(s))
    <3>1. f[Len(s)] <= g[n] /\ f[Len(s)] \in Nat
      <4>1. n <= Len(t) /\ (IF n <= Len(s) THEN n ELSE Len(s)) = Len(s)
        BY <2>3
      <4> QED
        BY <1>1, <1>4, <4>1 DEF Sums
    <3> QED
      BY <2>1, <2>3, <3>1
  <2> QED
    BY <2>2, <2>3
<1>5. Len(t) \in S
  <2> HIDE DEF S
  <2>1. Nat \subseteq S
    BY <1>3, <1>4, AllNumbers
  <2>2. Len(t) \in Nat
    OBVIOUS
  <2> QED
    BY <2>1, <2>2
<1>6. (IF Len(t) <= Len(s) THEN Len(t) ELSE Len(s)) = Len(s)
  OBVIOUS
<1>7. SumOf(s) = f[Len(s)] /\ SumOf(t) = g[Len(t)]
  BY <1>1, <1>2, SumIsLast
<1> QED
  BY <1>5, <1>6, <1>7

\* A sum without one of its numbers.
LEMMA SumWithout ==
  ASSUME NEW s \in Seq(Nat), NEW i \in 1 .. Len(s)
  PROVE  /\ [s EXCEPT ![i] = 0] \in Seq(Nat)
         /\ SumOf(s) = SumOf([s EXCEPT ![i] = 0]) + s[i]
<1> DEFINE t == [s EXCEPT ![i] = 0]
<1>1. /\ t \in Seq(Nat) /\ Len(t) = Len(s) /\ t[i] = 0 /\ s[i] \in Nat /\ i \in Nat
      /\ Len(s) \in Nat /\ \A j \in 1 .. Len(s) : j # i => t[j] = s[j]
  OBVIOUS
<1> HIDE DEF t
<1>2. PICK f : Sums(f, s)
  BY SumsExist
<1>3. PICK g : Sums(g, t)
  BY <1>1, SumsExist
<1> DEFINE S == {n \in Nat : n <= Len(s) => f[n] = IF n < i THEN g[n] ELSE g[n] + s[i]}
<1>4. 0 \in S
  BY <1>1, <1>2, <1>3 DEF Sums
<1>5. ASSUME NEW n \in Nat, n \in S PROVE n + 1 \in S
  <2> SUFFICES ASSUME n + 1 <= Len(s)
               PROVE  f[n + 1] = IF n + 1 < i THEN g[n + 1] ELSE g[n + 1] + s[i]
    OBVIOUS
  <2>1. n + 1 \in 1 .. Len(s) /\ n \in 0 .. Len(s) /\ n + 1 - 1 = n
    OBVIOUS
  <2>2. f[n + 1] = f[n] + s[n + 1] /\ g[n + 1] = g[n] + t[n + 1]
    BY <1>1, <1>2, <1>3, <2>1 DEF Sums
  <2>3. f[n] \in Nat /\ g[n] \in Nat /\ s[n + 1] \in Nat
    <3>1. f \in [0 .. Len(s) -> Nat] /\ g \in [0 .. Len(s) -> Nat]
      BY <1>1, <1>2, <1>3 DEF Sums
    <3> QED
      BY <2>1, <3>1
  <2>4. f[n] = IF n < i THEN g[n] ELSE g[n] + s[i]
    BY <1>5, <2>1
  <2>5. CASE n + 1 = i
    BY <1>1, <2>2, <2>3, <2>4, <2>5
  <2>6. CASE n + 1 # i
    <3>1. t[n + 1] = s[n + 1]
      BY <1>1, <2>1, <2>6
    <3> QED
      BY <1>1, <2>2, <2>3, <2>4, <2>6, <3>1
  <2> QED
    BY <2>5, <2>6
<1>6. Len(s) \in S
  <2> HIDE DEF S
  <2>1. Nat \subseteq S
    BY <1>4, <1>5, AllNumbers
  <2> QED
    BY <1>1, <2>1
<1>7. SumOf(s) = f[Len(s)] /\ SumOf(t) = g[Len(s)]
  BY <1>1, <1>2, <1>3, SumIsLast
<1>8. ~(Len(s) < i)
  BY <1>1
<1> QED
  BY <1>1, <1>6, <1>7, <1>8 DEF t

\* A sum of numbers each of which can be paired with one of its own in another
\* sum, and is no more, is no more than that sum.
THEOREM SumPaired ==
  ASSUME NEW s \in Seq(Nat), NEW t \in Seq(Nat), NEW p \in [1 .. Len(s) -> 1 .. Len(t)],
         \A k, l \in 1 .. Len(s) : p[k] = p[l] => k = l,
         \A k \in 1 .. Len(s) : s[k] <= t[p[k]]
  PROVE  SumOf(s) <= SumOf(t)
<1> DEFINE Pairs(u, v, q) ==
             /\ \A k, l \in 1 .. Len(u) : q[k] = q[l] => k = l
             /\ \A k \in 1 .. Len(u) : q[k] \in 1 .. Len(v) /\ u[k] <= v[q[k]]
           S == {n \in Nat : \A u, v \in Seq(Nat) :
                   Len(u) = n => \A q : Pairs(u, v, q) => SumOf(u) <= SumOf(v)}
<1>1. 0 \in S
  <2> SUFFICES ASSUME NEW u \in Seq(Nat), NEW v \in Seq(Nat), Len(u) = 0
               PROVE  SumOf(u) <= SumOf(v)
    OBVIOUS
  <2>1. u = <<>>
    OBVIOUS
  <2>2. SumOf(u) = 0 /\ SumOf(v) \in Nat
    BY <2>1, SumNumber
  <2> QED
    BY <2>2
<1>2. ASSUME NEW n \in Nat, n \in S PROVE n + 1 \in S
  <2> SUFFICES ASSUME NEW u \in Seq(Nat), NEW v \in Seq(Nat), Len(u) = n + 1,
                      NEW q, Pairs(u, v, q)
               PROVE  SumOf(u) <= SumOf(v)
    OBVIOUS
  <2> DEFINE front == SubSeq(u, 1, n)
             i == q[n + 1]
             w == [v EXCEPT ![i] = 0]
  <2>1. /\ front \in Seq(Nat) /\ Len(front) = n /\ u[n + 1] \in Nat
        /\ u = Append(front, u[n + 1])
        /\ \A k \in 1 .. n : front[k] = u[k]
    OBVIOUS
  <2>2. n + 1 \in 1 .. Len(u) /\ \A k \in 1 .. n : k \in 1 .. Len(u) /\ k # n + 1
    OBVIOUS
  <2>3. i \in 1 .. Len(v) /\ u[n + 1] <= v[i] /\ \A k \in 1 .. n : q[k] # i
    BY <2>2
  <2>4. /\ w \in Seq(Nat) /\ Len(w) = Len(v) /\ SumOf(v) = SumOf(w) + v[i] /\ v[i] \in Nat
        /\ \A k \in 1 .. Len(v) : k # i => w[k] = v[k]
    BY <2>3, SumWithout
  <2> HIDE DEF i, w, front
  <2>5. Pairs(front, w, q)
    <3>1. \A k \in 1 .. n : q[k] \in 1 .. Len(w) /\ front[k] <= w[q[k]]
      BY <2>1, <2>2, <2>3, <2>4
    <3>2. \A k, l \in 1 .. n : q[k] = q[l] => k = l
      BY <2>2
    <3> QED
      BY <2>1, <3>1, <3>2
  <2>6. SumOf(front) <= SumOf(w)
    <3> HIDE DEF Pairs
    <3> QED
      BY <1>2, <2>1, <2>4, <2>5
  <2>7. SumOf(u) = SumOf(front) + u[n + 1]
    <3>1. SumOf(Append(front, u[n + 1])) = SumOf(front) + u[n + 1]
      BY <2>1, SumAppend
    <3> QED
      BY <2>1, <3>1, Zenon
  <2>8. SumOf(front) \in Nat /\ SumOf(w) \in Nat
    BY <2>1, <2>4, SumNumber
  <2>9. u[n + 1] \in Nat /\ v[i] \in Nat /\ u[n + 1] <= v[i] /\ SumOf(v) = SumOf(w) + v[i]
    BY <2>1, <2>3, <2>4
  <2> QED
    BY <2>6, <2>7, <2>8, <2>9
<1>3. Len(s) \in S
  <2> HIDE DEF S
  <2>1. Nat \subseteq S
    BY <1>1, <1>2, AllNumbers
  <2>2. Len(s) \in Nat
    OBVIOUS
  <2> QED
    BY <2>1, <2>2
<1>4. Pairs(s, t, p)
  OBVIOUS
<1> HIDE DEF Pairs
<1> QED
  BY <1>3, <1>4

\* Two sums over the same indices add up.
THEOREM SumPlus ==
  ASSUME NEW s \in Seq(Nat), NEW t \in Seq(Nat), NEW u \in Seq(Nat),
         Len(s) = Len(u), Len(t) = Len(u), \A i \in 1 .. Len(u) : u[i] = s[i] + t[i]
  PROVE  SumOf(u) = SumOf(s) + SumOf(t)
<1>1. PICK f : Sums(f, s)
  BY SumsExist
<1>2. PICK g : Sums(g, t)
  BY SumsExist
<1>3. PICK h : Sums(h, u)
  BY SumsExist
<1> DEFINE m == Len(u)
           S == {n \in Nat : n <= m => h[n] = f[n] + g[n]}
<1>4. m \in Nat /\ m = Len(s) /\ m = Len(t) /\ m = Len(u)
  OBVIOUS
<1> HIDE DEF m
<1>5. 0 \in S
  BY <1>1, <1>2, <1>3 DEF Sums
<1>6. ASSUME NEW n \in Nat, n \in S PROVE n + 1 \in S
  <2> SUFFICES ASSUME n + 1 <= m PROVE h[n + 1] = f[n + 1] + g[n + 1]
    OBVIOUS
  <2>1. n + 1 \in 1 .. m /\ n \in 0 .. m /\ n + 1 - 1 = n
    BY <1>4
  <2>2. /\ f[n + 1] = f[n] + s[n + 1] /\ g[n + 1] = g[n] + t[n + 1]
        /\ h[n + 1] = h[n] + u[n + 1]
    BY <1>1, <1>2, <1>3, <1>4, <2>1 DEF Sums
  <2>3. f[n] \in Nat /\ g[n] \in Nat
    <3>1. f \in [0 .. m -> Nat] /\ g \in [0 .. m -> Nat]
      BY <1>1, <1>2, <1>4 DEF Sums
    <3> QED
      BY <2>1, <3>1
  <2>4. s[n + 1] \in Nat /\ t[n + 1] \in Nat /\ u[n + 1] = s[n + 1] + t[n + 1]
    BY <1>4, <2>1
  <2>5. h[n] = f[n] + g[n]
    BY <1>6, <2>1
  <2> DEFINE a == s[n + 1]
             b == t[n + 1]
  <2>6. /\ f[n + 1] = f[n] + a /\ g[n + 1] = g[n] + b /\ h[n + 1] = h[n] + u[n + 1]
        /\ u[n + 1] = a + b /\ a \in Nat /\ b \in Nat
    BY <2>2, <2>4
  <2> HIDE DEF a, b
  <2>7. h[n + 1] = f[n] + g[n] + (a + b)
    BY <2>5, <2>6
  <2> QED
    BY <2>3, <2>6, <2>7
<1>7. m \in S
  <2> HIDE DEF S
  <2>1. Nat \subseteq S
    BY <1>5, <1>6, AllNumbers
  <2> QED
    BY <1>4, <2>1
<1>8. SumOf(s) = f[m] /\ SumOf(t) = g[m] /\ SumOf(u) = h[m]
  BY <1>1, <1>2, <1>3, <1>4, SumIsLast
<1> QED
  BY <1>4, <1>7, <1>8
=============================================================================
