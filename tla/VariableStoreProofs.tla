------------------------- MODULE VariableStoreProofs -------------------------
(***************************************************************************)
(* Proofs about VariableStore, for every set of variables and of contents, *)
(* every size of the store and any number of power losses.                 *)
(***************************************************************************)
EXTENDS VariableStore, SubsequencesProofs

-----------------------------------------------------------------------------
(*************************** Sizes and totals ******************************)

\* The size of an entry; one that is whole has its size whatever its state.
LEMMA EntrySize ==
  ASSUME NEW e \in Entries
  PROVE  /\ SizeOf(e) \in Nat /\ SizeOf(e) >= 1 /\ SizeOf(e) <= 1 + DataSize[e.value]
         /\ DataSize[e.value] \in Nat
         /\ e.state \notin {"torn", "header"} => SizeOf(e) = 1 + DataSize[e.value]
<1>1. DataSize[e.value] \in Nat
  BY ConstantsAssumption DEF Entries
<1> QED
  BY <1>1 DEF SizeOf

\* What the totals are sums of.
Sizes(s)   == [i \in DOMAIN s |-> SizeOf(s[i])]
HwSizes(s) == [i \in DOMAIN s |-> IF IsHwErr(s[i]) THEN SizeOf(s[i]) ELSE 0]

\* They are numbers, one for each entry.
LEMMA SizesType ==
  ASSUME NEW s \in Seq(Entries)
  PROVE  /\ Sizes(s) \in Seq(Nat) /\ HwSizes(s) \in Seq(Nat)
         /\ Len(Sizes(s)) = Len(s) /\ Len(HwSizes(s)) = Len(s)
<1>1. \A i \in 1 .. Len(s) : SizeOf(s[i]) \in Nat
  BY EntrySize
<1>2. Sizes(s) \in [1 .. Len(s) -> Nat] /\ HwSizes(s) \in [1 .. Len(s) -> Nat]
  BY <1>1 DEF Sizes, HwSizes
<1> QED
  BY <1>2

\* The totals of a store are numbers, and those of an empty one are 0.
LEMMA TotalNumber ==
  ASSUME NEW s \in Seq(Entries)
  PROVE  /\ Total(s) \in Nat /\ HwTotal(s) \in Nat /\ HwTotal(s) <= Total(s)
         /\ CommonTotal(s) \in Nat
         /\ s = <<>> => Total(s) = 0 /\ HwTotal(s) = 0 /\ CommonTotal(s) = 0
<1>1. Sizes(s) \in Seq(Nat) /\ HwSizes(s) \in Seq(Nat) /\ Len(Sizes(s)) = Len(HwSizes(s))
  BY SizesType
<1>2. Total(s) = SumOf(Sizes(s)) /\ HwTotal(s) = SumOf(HwSizes(s))
  BY DEF Total, HwTotal, Sizes, HwSizes
<1>3. \A i \in 1 .. Len(HwSizes(s)) : HwSizes(s)[i] <= Sizes(s)[i]
  <2>1. \A i \in 1 .. Len(s) : SizeOf(s[i]) \in Nat
    BY EntrySize
  <2> QED
    BY <2>1, SizesType DEF Sizes, HwSizes
<1>4. SumOf(HwSizes(s)) <= SumOf(Sizes(s))
  <2>1. Len(HwSizes(s)) <= Len(Sizes(s))
    BY <1>1
  <2> QED
    BY <1>1, <1>3, <2>1, SumOrder
<1>5. s = <<>> => Sizes(s) = <<>> /\ HwSizes(s) = <<>>
  <2> SUFFICES ASSUME s = <<>> PROVE Sizes(s) = <<>> /\ HwSizes(s) = <<>>
    OBVIOUS
  <2>1. Len(Sizes(s)) = 0 /\ Len(HwSizes(s)) = 0
    BY SizesType
  <2> QED
    BY <1>1, <2>1
<1>6. /\ SumOf(Sizes(s)) \in Nat /\ SumOf(HwSizes(s)) \in Nat
      /\ Sizes(s) = <<>> => SumOf(Sizes(s)) = 0
      /\ HwSizes(s) = <<>> => SumOf(HwSizes(s)) = 0
  BY <1>1, SumNumber
<1> QED
  BY <1>2, <1>4, <1>5, <1>6 DEF CommonTotal

\* A new entry is added to the total of its kind.
LEMMA TotalAppend ==
  ASSUME NEW s \in Seq(Entries), NEW e \in Entries
  PROVE  /\ Total(Append(s, e)) = Total(s) + SizeOf(e)
         /\ HwTotal(Append(s, e)) = HwTotal(s) + (IF IsHwErr(e) THEN SizeOf(e) ELSE 0)
         /\ CommonTotal(Append(s, e)) = CommonTotal(s) + (IF IsHwErr(e) THEN 0 ELSE SizeOf(e))
<1> DEFINE hw == IF IsHwErr(e) THEN SizeOf(e) ELSE 0
<1>1. SizeOf(e) \in Nat /\ hw \in Nat
  BY EntrySize
<1>2. /\ Sizes(Append(s, e)) = Append(Sizes(s), SizeOf(e))
      /\ HwSizes(Append(s, e)) = Append(HwSizes(s), hw)
  BY DEF Sizes, HwSizes
<1>3. Sizes(s) \in Seq(Nat) /\ HwSizes(s) \in Seq(Nat)
  BY SizesType
<1>4. \A t : Total(t) = SumOf(Sizes(t)) /\ HwTotal(t) = SumOf(HwSizes(t))
  BY DEF Total, HwTotal, Sizes, HwSizes
<1>5. /\ SumOf(Append(Sizes(s), SizeOf(e))) = SumOf(Sizes(s)) + SizeOf(e)
      /\ SumOf(Append(HwSizes(s), hw)) = SumOf(HwSizes(s)) + hw
  <2> HIDE DEF hw, Sizes, HwSizes
  <2> QED
    BY <1>1, <1>3, SumAppend
<1>6. Total(s) \in Nat /\ HwTotal(s) \in Nat
  BY TotalNumber
<1>7. Total(Append(s, e)) = Total(s) + SizeOf(e) /\ HwTotal(Append(s, e)) = HwTotal(s) + hw
  <2> HIDE DEF hw
  <2> QED
    BY <1>2, <1>4, <1>5, Zenon
<1>8. CASE IsHwErr(e)
  BY <1>1, <1>6, <1>7, <1>8 DEF CommonTotal
<1>9. CASE ~IsHwErr(e)
  BY <1>1, <1>6, <1>7, <1>9 DEF CommonTotal
<1> QED
  BY <1>8, <1>9

\* An entry that counts its name and data.
Whole(s, i) == i \in DOMAIN s => s[i].state \notin {"torn", "header"}

\* The next state of a whole entry leaves the totals.
LEMMA TotalAdvance ==
  ASSUME NEW s \in Seq(Entries), NEW i, Whole(s, i), NEW state \in States \ {"torn", "header"}
  PROVE  /\ Advance(s, i, state) \in Seq(Entries)
         /\ Len(Advance(s, i, state)) = Len(s)
         /\ Total(Advance(s, i, state)) = Total(s)
         /\ HwTotal(Advance(s, i, state)) = HwTotal(s)
         /\ CommonTotal(Advance(s, i, state)) = CommonTotal(s)
<1> DEFINE t == Advance(s, i, state)
<1>1. t \in Seq(Entries) /\ Len(t) = Len(s) /\ DOMAIN t = DOMAIN s
  <2>1. CASE i \in DOMAIN s
    <3>1. [s[i] EXCEPT !.state = state] \in Entries
      <4>1. s[i] \in Entries /\ state \in States
        BY <2>1
      <4> QED
        BY <4>1 DEF Entries
    <3>2. t = s \/ t = [s EXCEPT ![i] = [s[i] EXCEPT !.state = state]]
      BY <2>1 DEF Advance
    <3> HIDE DEF t
    <3> QED
      BY <2>1, <3>1, <3>2
  <2>2. CASE i \notin DOMAIN s
    BY <2>2 DEF Advance
  <2> QED
    BY <2>1, <2>2
<1>2. \A k \in DOMAIN s : SizeOf(t[k]) = SizeOf(s[k]) /\ (IsHwErr(t[k]) <=> IsHwErr(s[k]))
  BY DEF Advance, Entries, SizeOf, IsHwErr, Whole
<1>3. Sizes(t) = Sizes(s) /\ HwSizes(t) = HwSizes(s)
  <2> HIDE DEF t
  <2> QED
    BY <1>1, <1>2, Zenon DEF Sizes, HwSizes
<1>4. \A u : Total(u) = SumOf(Sizes(u)) /\ HwTotal(u) = SumOf(HwSizes(u))
  BY DEF Total, HwTotal, Sizes, HwSizes
<1> QED
  BY <1>1, <1>3, <1>4 DEF CommonTotal

-----------------------------------------------------------------------------
(***************************** Finding variables ***************************)

\* An entry that GetVariable may return.
Live(s, n, i) == i \in DOMAIN s /\ s[i].name = n /\ s[i].state \in {"added", "transition"}

\* The last of a set of indices.
LEMMA LastElement ==
  ASSUME NEW m \in Nat, NEW S, S \subseteq 0 .. m
  PROVE  /\ LastOrNull(S) \in 0 .. m
         /\ S = {} => LastOrNull(S) = 0
         /\ S # {} => LastOrNull(S) \in S /\ \A j \in S : j <= LastOrNull(S)
<1>1. CASE S = {}
  BY <1>1 DEF LastOrNull
<1>2. CASE S # {}
  <2>1. \E i \in S : \A j \in S : j <= i
    BY <1>2, Largest
  <2>2. LastOrNull(S) \in S /\ \A j \in S : j <= LastOrNull(S)
    BY <1>2, <2>1 DEF LastOrNull
  <2> QED
    BY <1>2, <2>2
<1> QED
  BY <1>1, <1>2

\* FindVariableEx finds an ADDED entry if there is one, else one that is
\* IN_DELETED_TRANSITION if there is one; InDeletedTransitionPtr is another one.
LEMMA FoundEntry ==
  ASSUME NEW s \in Seq(Entries), NEW n
  PROVE  /\ Current(s, n) \in 0 .. Len(s) /\ InDeleted(s, n) \in 0 .. Len(s)
         /\ Current(s, n) # 0 => Live(s, n, Current(s, n))
         /\ Current(s, n) = 0 => \A i : ~Live(s, n, i)
         /\ AllOf(s, n, "added") # {} => s[Current(s, n)].state = "added"
         /\ InDeleted(s, n) # 0 => /\ Live(s, n, InDeleted(s, n))
                                   /\ s[InDeleted(s, n)].state = "transition"
                                   /\ s[Current(s, n)].state = "added"
                                   /\ InDeleted(s, n) < Current(s, n)
<1> DEFINE A == AllOf(s, n, "added")
           T == AllOf(s, n, "transition")
           D == {i \in T : i < Current(s, n)}
<1>1. A \subseteq 1 .. Len(s) /\ T \subseteq 0 .. Len(s) /\ D \subseteq 0 .. Len(s) /\ 0 \notin T
  BY DEF AllOf
<1>2. Len(s) \in Nat
  OBVIOUS
<1>3. \A i : Live(s, n, i) <=> i \in A \cup T
  BY DEF Live, AllOf
<1>4. \A i \in A : s[i].state = "added"
  BY DEF AllOf
<1>5. \A i \in T : s[i].state = "transition"
  BY DEF AllOf
<1> HIDE DEF A, T
<1>6. CASE A # {}
  <2>1. A \subseteq Nat
    BY <1>1
  <2>2. \E i \in A : \A j \in A : i <= j
    BY <1>6, <2>1, Smallest
  <2>3. First(A) \in A
    BY <2>2 DEF First
  <2>4. Current(s, n) = First(A)
    BY <1>6 DEF Current, A
  <2>5. InDeleted(s, n) = LastOrNull(D)
    BY <1>6 DEF InDeleted, A, T
  <2>6. /\ LastOrNull(D) \in 0 .. Len(s)
        /\ LastOrNull(D) # 0 => LastOrNull(D) \in D
    <3> HIDE DEF D
    <3> QED
      BY <1>1, <1>2, LastElement
  <2>7. InDeleted(s, n) # 0 => InDeleted(s, n) \in T /\ InDeleted(s, n) < Current(s, n)
    BY <2>5, <2>6
  <2> QED
    BY <1>1, <1>3, <1>4, <1>5, <1>6, <2>3, <2>4, <2>5, <2>6, <2>7 DEF A
<1>7. CASE A = {}
  <2>1. Current(s, n) = LastOrNull(T) /\ InDeleted(s, n) = 0
    BY <1>7 DEF Current, InDeleted, A, T
  <2>2. /\ LastOrNull(T) \in 0 .. Len(s)
        /\ T = {} => LastOrNull(T) = 0
        /\ T # {} => LastOrNull(T) \in T
    BY <1>1, <1>2, LastElement
  <2> QED
    BY <1>1, <1>2, <1>3, <1>7, <2>1, <2>2 DEF A
<1> QED
  BY <1>6, <1>7

\* A variable reads as something exactly if it has such an entry.
LEMMA ReadLive ==
  ASSUME NEW s \in Seq(Entries), NEW n
  PROVE  /\ Read(s, n) # NoValue <=> \E i : Live(s, n, i)
         /\ Read(s, n) # NoValue => /\ Live(s, n, Current(s, n))
                                    /\ Read(s, n) = s[Current(s, n)].value
<1>1. CASE Current(s, n) = 0
  BY <1>1, FoundEntry DEF Read
<1>2. CASE Current(s, n) # 0
  <2>1. Live(s, n, Current(s, n))
    BY <1>2, FoundEntry
  <2>2. s[Current(s, n)] \in Entries
    BY <2>1 DEF Live
  <2>3. s[Current(s, n)].value # NoValue
    BY <2>2, ConstantsAssumption DEF Entries
  <2> QED
    BY <1>2, <2>1, <2>3 DEF Read
<1> QED
  BY <1>1, <1>2

-----------------------------------------------------------------------------
(********************************* Reclaim *********************************)

\* The entries that are put back, as ADDED ones.
LEMMA Reinstalled ==
  ASSUME NEW s \in Seq(Entries), NEW S, S \subseteq DOMAIN s
  PROVE  /\ Reinstall(s, S) \in Seq(Entries)
         /\ \A k \in DOMAIN Reinstall(s, S) : \E i \in S :
              Reinstall(s, S)[k] = [s[i] EXCEPT !.state = "added"]
         /\ \A i \in S : \E k \in DOMAIN Reinstall(s, S) :
              Reinstall(s, S)[k] = [s[i] EXCEPT !.state = "added"]
         /\ (\A i, j \in S : s[i].name = s[j].name => i = j) =>
              \A k, l \in DOMAIN Reinstall(s, S) :
                Reinstall(s, S)[k].name = Reinstall(s, S)[l].name => k = l
<1> DEFINE kept == Subsequence(s, S)
           Put(e) == [e EXCEPT !.state = "added"]
<1>1. /\ kept \in Seq(Entries)
      /\ DOMAIN kept = 1 .. Len(kept)
      /\ \A k \in DOMAIN kept : Nth(S, k) \in S /\ kept[k] = s[Nth(S, k)]
      /\ \A i \in S : \E k \in DOMAIN kept : Nth(S, k) = i
      /\ \A k, l \in DOMAIN kept : k < l => Nth(S, k) < Nth(S, l)
  BY SubsequenceElements
<1>2. Reinstall(s, S) = [k \in DOMAIN kept |-> Put(kept[k])]
  BY DEF Reinstall
<1>3. \A e \in Entries : Put(e) \in Entries
  BY DEF Entries, States
<1> HIDE DEF kept, Put
<1>4. \A k \in DOMAIN kept : Put(kept[k]) \in Entries
  BY <1>1, <1>3
<1>5. /\ Reinstall(s, S) \in Seq(Entries) /\ DOMAIN Reinstall(s, S) = DOMAIN kept
      /\ \A k \in DOMAIN kept : Reinstall(s, S)[k] = Put(kept[k])
  BY <1>1, <1>2, <1>4
<1>6. \A k \in DOMAIN kept : Nth(S, k) \in S /\ Reinstall(s, S)[k] = Put(s[Nth(S, k)])
  BY <1>1, <1>5
<1>7. \A i \in S : \E k \in DOMAIN kept : Reinstall(s, S)[k] = Put(s[i])
  BY <1>1, <1>6
<1>8. ASSUME \A i, j \in S : s[i].name = s[j].name => i = j
      PROVE  \A k, l \in DOMAIN kept :
               Reinstall(s, S)[k].name = Reinstall(s, S)[l].name => k = l
  <2>1. \A e \in Entries : Put(e).name = e.name
    BY DEF Entries, Put
  <2>2. \A k \in DOMAIN kept : Reinstall(s, S)[k].name = s[Nth(S, k)].name
    BY <1>6, <2>1
  <2> SUFFICES ASSUME NEW k \in DOMAIN kept, NEW l \in DOMAIN kept,
                      Reinstall(s, S)[k].name = Reinstall(s, S)[l].name
               PROVE  k = l
    OBVIOUS
  <2>3. Nth(S, k) = Nth(S, l) /\ Nth(S, k) \in Int /\ k \in Int /\ l \in Int
    BY <1>1, <1>6, <1>8, <2>2
  <2> QED
    BY <1>1, <2>3
<1> QED
  BY <1>5, <1>6, <1>7, <1>8 DEF Put

\* What Reclaim keeps: entries that GetVariable may return, for each variable
\* that has one besides those being replaced.  One that is kept is ADDED, or its
\* variable has no ADDED one; each variable is kept once.
LEMMA KeptEntries ==
  ASSUME NEW s \in Seq(Entries)
  PROVE  /\ Kept(s) \in Seq(Entries)
         /\ \A k \in DOMAIN Kept(s) : Kept(s)[k].state = "added"
         /\ \A n, i : Live(s, n, i) /\ i \notin {cur, old} => \E k : Live(Kept(s), n, k)
         /\ \A k \in DOMAIN Kept(s) : \E i \in DOMAIN s \ {cur} :
              /\ Kept(s)[k].name = s[i].name /\ Kept(s)[k].value = s[i].value
              /\ \/ s[i].state = "added"
                 \/ /\ s[i].state = "transition" /\ i # old
                    /\ \A j \in DOMAIN s \ {cur} :
                         s[j].state = "added" => s[j].name # s[i].name
         /\ (\A i, j \in DOMAIN s :
               (s[i].state = "added" /\ s[j].state = "added" /\ s[i].name = s[j].name) => i = j) =>
              \A k, l \in DOMAIN Kept(s) : Kept(s)[k].name = Kept(s)[l].name => k = l
<1> DEFINE A == {i \in DOMAIN s \ {cur} : s[i].state = "added"}
           D == {i \in DOMAIN s \ {cur, old} : s[i].state = "transition"}
           P == {i \in D : \A j \in A \cup D : s[j].name = s[i].name => j >= i /\ j \notin A}
           ra == Reinstall(s, A)
           rp == Reinstall(s, P)
<1>1. Kept(s) = ra \o rp
  BY DEF Kept
<1>2. /\ ra \in Seq(Entries) /\ rp \in Seq(Entries)
      /\ \A k \in DOMAIN ra : \E i \in A : ra[k] = [s[i] EXCEPT !.state = "added"]
      /\ \A k \in DOMAIN rp : \E i \in P : rp[k] = [s[i] EXCEPT !.state = "added"]
      /\ \A i \in A : \E k \in DOMAIN ra : ra[k] = [s[i] EXCEPT !.state = "added"]
      /\ \A i \in P : \E k \in DOMAIN rp : rp[k] = [s[i] EXCEPT !.state = "added"]
  <2>1. A \subseteq DOMAIN s /\ P \subseteq DOMAIN s
    OBVIOUS
  <2> HIDE DEF A, P
  <2>2. /\ ra \in Seq(Entries)
        /\ \A k \in DOMAIN ra : \E i \in A : ra[k] = [s[i] EXCEPT !.state = "added"]
        /\ \A i \in A : \E k \in DOMAIN ra : ra[k] = [s[i] EXCEPT !.state = "added"]
    BY <2>1, Reinstalled
  <2>3. /\ rp \in Seq(Entries)
        /\ \A k \in DOMAIN rp : \E i \in P : rp[k] = [s[i] EXCEPT !.state = "added"]
        /\ \A i \in P : \E k \in DOMAIN rp : rp[k] = [s[i] EXCEPT !.state = "added"]
    BY <2>1, Reinstalled
  <2> HIDE DEF ra, rp
  <2> QED
    BY <2>2, <2>3
<1>e. /\ (\A i, j \in A : s[i].name = s[j].name => i = j) =>
           \A k, l \in DOMAIN ra : ra[k].name = ra[l].name => k = l
      /\ (\A i, j \in P : s[i].name = s[j].name => i = j) =>
           \A k, l \in DOMAIN rp : rp[k].name = rp[l].name => k = l
  <2>1. A \subseteq DOMAIN s /\ P \subseteq DOMAIN s
    OBVIOUS
  <2> HIDE DEF A, P
  <2> QED
    BY <2>1, Reinstalled
<1>3. \A i \in DOMAIN s : /\ [s[i] EXCEPT !.state = "added"].state = "added"
                          /\ [s[i] EXCEPT !.state = "added"].name = s[i].name
                          /\ [s[i] EXCEPT !.state = "added"].value = s[i].value
  <2>1. \A e \in Entries : /\ [e EXCEPT !.state = "added"].state = "added"
                           /\ [e EXCEPT !.state = "added"].name = e.name
                           /\ [e EXCEPT !.state = "added"].value = e.value
    BY DEF Entries
  <2> QED
    BY <2>1
<1>4. ASSUME NEW i \in DOMAIN s \ {cur, old}, s[i].state \in {"added", "transition"}
      PROVE  \E j \in A \cup P : s[j].name = s[i].name
  <2>1. CASE \E j \in A : s[j].name = s[i].name
    BY <2>1
  <2>2. CASE ~ \E j \in A : s[j].name = s[i].name
    <3> DEFINE Q == {j \in D : s[j].name = s[i].name}
    <3>1. i \in Q
      BY <1>4, <2>2
    <3>2. Q \subseteq Nat
      OBVIOUS
    <3>3. PICK j \in Q : \A k \in Q : j <= k
      BY <3>1, <3>2, Smallest
    <3>4. j \in P
      BY <2>2, <3>3
    <3> QED
      BY <3>3, <3>4
  <2> QED
    BY <2>1, <2>2
<1>5. A \subseteq DOMAIN s /\ P \subseteq DOMAIN s
  OBVIOUS
<1>a. \A i \in A : i \in DOMAIN s \ {cur} /\ s[i].state = "added"
  OBVIOUS
<1>b. \A i \in P : /\ i \in DOMAIN s \ {cur} /\ s[i].state = "transition" /\ i # old
                  /\ \A j \in A : s[j].name # s[i].name
  OBVIOUS
<1>c. \A i, j \in P : s[i].name = s[j].name => i = j
  <2> SUFFICES ASSUME NEW i \in P, NEW j \in P, s[i].name = s[j].name PROVE i = j
    OBVIOUS
  <2>1. i \in D /\ j \in D /\ i \in Int /\ j \in Int
    OBVIOUS
  <2>2. j >= i /\ i >= j
    BY <2>1
  <2> QED
    BY <2>1, <2>2
<1>d. \A j \in DOMAIN s \ {cur} : s[j].state = "added" => j \in A
  OBVIOUS
<1> HIDE DEF A, D, P, ra, rp
<1>6. /\ Kept(s) \in Seq(Entries)
      /\ \A k \in DOMAIN ra : k \in DOMAIN Kept(s) /\ Kept(s)[k] = ra[k]
      /\ \A k \in DOMAIN rp : Len(ra) + k \in DOMAIN Kept(s) /\ Kept(s)[Len(ra) + k] = rp[k]
      /\ \A k \in DOMAIN Kept(s) : \/ k \in DOMAIN ra /\ Kept(s)[k] = ra[k]
                                   \/ k - Len(ra) \in DOMAIN rp /\ Kept(s)[k] = rp[k - Len(ra)]
  BY <1>1, <1>2
<1>7. \A k \in DOMAIN Kept(s) : Kept(s)[k].state = "added"
  <2>1. \A k \in DOMAIN ra : ra[k].state = "added"
    BY <1>2, <1>3, <1>5
  <2>2. \A k \in DOMAIN rp : rp[k].state = "added"
    BY <1>2, <1>3, <1>5
  <2> QED
    BY <1>6, <2>1, <2>2
<1>8. ASSUME NEW i \in A \cup P
      PROVE  \E k \in DOMAIN Kept(s) : Kept(s)[k].name = s[i].name
  <2>1. CASE i \in A
    <3>1. PICK k \in DOMAIN ra : ra[k] = [s[i] EXCEPT !.state = "added"]
      BY <1>2, <2>1
    <3>2. ra[k].name = s[i].name
      BY <1>3, <1>5, <2>1, <3>1
    <3> QED
      BY <1>6, <3>2
  <2>2. CASE i \in P
    <3>1. PICK k \in DOMAIN rp : rp[k] = [s[i] EXCEPT !.state = "added"]
      BY <1>2, <2>2
    <3>2. rp[k].name = s[i].name
      BY <1>3, <1>5, <2>2, <3>1
    <3> QED
      BY <1>6, <3>2
  <2> QED
    BY <2>1, <2>2
<1>9. ASSUME NEW n, NEW i, Live(s, n, i), i \notin {cur, old}
      PROVE  \E k : Live(Kept(s), n, k)
  <2>1. PICK j \in A \cup P : s[j].name = s[i].name
    BY <1>4, <1>9 DEF Live
  <2>2. PICK k \in DOMAIN Kept(s) : Kept(s)[k].name = s[j].name
    BY <1>8
  <2> QED
    BY <1>7, <1>9, <2>1, <2>2 DEF Live
<1> DEFINE From(e, i) == /\ e.name = s[i].name /\ e.value = s[i].value
                         /\ \/ s[i].state = "added"
                            \/ /\ s[i].state = "transition" /\ i # old
                               /\ \A j \in DOMAIN s \ {cur} :
                                    s[j].state = "added" => s[j].name # s[i].name
<1>10. ASSUME NEW k \in DOMAIN Kept(s)
       PROVE  \E i \in DOMAIN s \ {cur} : From(Kept(s)[k], i)
  <2>1. CASE k \in DOMAIN ra /\ Kept(s)[k] = ra[k]
    <3>1. PICK i \in A : ra[k] = [s[i] EXCEPT !.state = "added"]
      BY <1>2, <2>1
    <3> QED
      BY <1>3, <1>a, <2>1, <3>1
  <2>2. CASE k - Len(ra) \in DOMAIN rp /\ Kept(s)[k] = rp[k - Len(ra)]
    <3>1. PICK i \in P : rp[k - Len(ra)] = [s[i] EXCEPT !.state = "added"]
      BY <1>2, <2>2
    <3> QED
      BY <1>3, <1>b, <1>d, <2>2, <3>1
  <2> QED
    BY <1>6, <2>1, <2>2
<1>11. ASSUME \A i, j \in DOMAIN s :
                (s[i].state = "added" /\ s[j].state = "added" /\ s[i].name = s[j].name) => i = j,
              NEW k \in DOMAIN Kept(s), NEW l \in DOMAIN Kept(s),
              Kept(s)[k].name = Kept(s)[l].name
       PROVE  k = l
  <2>1. \A m, o \in DOMAIN ra : ra[m].name = ra[o].name => m = o
    BY <1>11, <1>a, <1>e
  <2>2. \A m, o \in DOMAIN rp : rp[m].name = rp[o].name => m = o
    BY <1>c, <1>e
  <2>3. \A m \in DOMAIN ra : \A o \in DOMAIN rp : ra[m].name # rp[o].name
    <3> SUFFICES ASSUME NEW m \in DOMAIN ra, NEW o \in DOMAIN rp PROVE ra[m].name # rp[o].name
      OBVIOUS
    <3>1. PICK i \in A : ra[m] = [s[i] EXCEPT !.state = "added"]
      BY <1>2
    <3>2. PICK j \in P : rp[o] = [s[j] EXCEPT !.state = "added"]
      BY <1>2
    <3>3. ra[m].name = s[i].name /\ rp[o].name = s[j].name
      BY <1>3, <1>5, <3>1, <3>2
    <3> QED
      BY <1>b, <3>3
  <2>4. /\ k \in Int /\ l \in Int /\ Len(ra) \in Int
        /\ \/ k \in DOMAIN ra /\ Kept(s)[k] = ra[k]
           \/ k - Len(ra) \in DOMAIN rp /\ Kept(s)[k] = rp[k - Len(ra)]
        /\ \/ l \in DOMAIN ra /\ Kept(s)[l] = ra[l]
           \/ l - Len(ra) \in DOMAIN rp /\ Kept(s)[l] = rp[l - Len(ra)]
    BY <1>2, <1>6
  <2>5. CASE k \in DOMAIN ra /\ Kept(s)[k] = ra[k]
    BY <1>11, <2>1, <2>3, <2>4, <2>5
  <2>6. CASE k - Len(ra) \in DOMAIN rp /\ Kept(s)[k] = rp[k - Len(ra)]
    <3>1. l - Len(ra) \in DOMAIN rp /\ Kept(s)[l] = rp[l - Len(ra)]
      BY <1>11, <2>3, <2>4, <2>6
    <3>2. k - Len(ra) = l - Len(ra)
      BY <1>11, <2>2, <2>6, <3>1
    <3> QED
      BY <2>4, <3>2
  <2> QED
    BY <2>4, <2>5, <2>6
<1> HIDE DEF From
<1>12. \A k \in DOMAIN Kept(s) : \E i \in DOMAIN s \ {cur} : From(Kept(s)[k], i)
  BY <1>10
<1>13. (\A i, j \in DOMAIN s :
          (s[i].state = "added" /\ s[j].state = "added" /\ s[i].name = s[j].name) => i = j) =>
         \A k, l \in DOMAIN Kept(s) : Kept(s)[k].name = Kept(s)[l].name => k = l
  BY <1>11
<1> QED
  BY <1>6, <1>7, <1>9, <1>12, <1>13 DEF From

-----------------------------------------------------------------------------
(***************************** The invariants ******************************)

\* UpdateVariable is between two of its flash operations.
Updating == {"delete_old", "delete_cur", "mark", "space", "header", "valid", "data", "added"}

\* What is set is what the caller asks for, or what the HOB holds.
Asked ==
  /\ phase = "off" => hob = [n \in Names |-> NoValue]
  /\ pc = "flush" => flushing
  /\ pc \in {"off", "write_service", "idle"} => ~flushing
  /\ pc \in Updating => IF flushing THEN job.value = hob[job.name] ELSE job = request

\* The types, and which variables the labels are about.
TypeInv ==
  /\ TypeOK
  /\ pc \in Updating => job \in Jobs
  /\ pc \in Updating \ {"delete_old", "delete_cur"} => job.value # NoValue
  /\ pc \notin Updating => (job = NoRequest /\ cur = 0 /\ old = 0)
  /\ (phase = "off") <=> (pc = "off")
  /\ Asked

\* The totals are those of the memory copy.
Accounts == /\ offset = Total(cache)
            /\ hwTotal = HwTotal(cache) /\ commonTotal = CommonTotal(cache)

\* The memory copy is the flash, without the new entry until it is ADDED.
Mirrors ==
  /\ pc \notin {"off", "valid", "data", "added"} => cache = flash
  /\ pc = "valid" => flash = Append(cache, Entry(job, "header"))
  /\ pc \in {"data", "added"} => flash = Append(cache, Entry(job, "valid"))

\* The entries UpdateVariable replaces are those of its variable, and are
\* deleted when the new one is ADDED.
Replaces ==
  pc \in Updating =>
    /\ cur # 0 => Live(cache, job.name, cur)
    /\ old # 0 => /\ old \in DOMAIN cache /\ cache[old].name = job.name
                  /\ Whole(cache, old) /\ old # cur
    /\ (pc \in {"delete_old", "delete_cur"} /\ job.value # NoValue) =>
         \E i \in DOMAIN cache \ {cur, old} : cache[i] = Entry(job, "added")

StoreInv ==
  /\ TypeInv
  /\ pc \notin {"off", "write_service"} => ~dirty
  /\ pc # "off" => Accounts
  /\ Mirrors /\ Replaces

\* No write of a new entry fails, nor the repair at boot.
EntriesWork == Failing \cap {"entry", "repair"} = {}

-----------------------------------------------------------------------------
(************************* Lemmas about the steps **************************)

\* A new entry: its fields, its size and its kind.
LEMMA NewEntry ==
  ASSUME NEW j \in Jobs, j.value # NoValue, NEW state \in States
  PROVE  /\ Entry(j, state) \in Entries
         /\ Entry(j, state).name = j.name /\ Entry(j, state).value = j.value
         /\ Entry(j, state).state = state
         /\ VarSize(j) \in Nat
         /\ state \notin {"torn", "header"} =>
              /\ SizeOf(Entry(j, state)) = VarSize(j)
              /\ IsHwErr(Entry(j, state)) <=> j.name \in HwNames
<1>1. /\ Entry(j, state) \in Entries
      /\ Entry(j, state).name = j.name /\ Entry(j, state).value = j.value
      /\ Entry(j, state).state = state
  BY DEF Entry, Entries, Jobs
<1>2. j.value \in Values /\ DataSize[j.value] \in Nat
  BY ConstantsAssumption DEF Jobs
<1> QED
  BY <1>1, <1>2 DEF SizeOf, VarSize, IsHwErr

\* The next state of an entry, which leaves the others.
LEMMA Advanced ==
  ASSUME NEW s \in Seq(Entries), NEW i, NEW state \in States
  PROVE  /\ Advance(s, i, state) \in Seq(Entries)
         /\ Len(Advance(s, i, state)) = Len(s) /\ DOMAIN Advance(s, i, state) = DOMAIN s
         /\ \A k \in DOMAIN s : k # i => Advance(s, i, state)[k] = s[k]
         /\ \A k \in DOMAIN s : /\ Advance(s, i, state)[k].name = s[k].name
                                /\ Advance(s, i, state)[k].value = s[k].value
         /\ i \in DOMAIN s /\ (s[i].state = "deleted" => state = "deleted") =>
              Advance(s, i, state)[i].state = state
<1>1. CASE i \in DOMAIN s /\ s[i].state # "deleted"
  <2> DEFINE e == [s[i] EXCEPT !.state = state]
             t == [s EXCEPT ![i] = e]
  <2>1. s[i] \in Entries
    BY <1>1
  <2>2. e \in Entries /\ e.name = s[i].name /\ e.value = s[i].value /\ e.state = state
    BY <2>1 DEF Entries
  <2>3. Advance(s, i, state) = t
    BY <1>1 DEF Advance
  <2> HIDE DEF e
  <2>4. /\ t \in Seq(Entries) /\ Len(t) = Len(s) /\ DOMAIN t = DOMAIN s
        /\ \A k \in DOMAIN s : k # i => t[k] = s[k]
        /\ t[i] = e
    BY <1>1, <2>2
  <2> HIDE DEF t
  <2> QED
    BY <1>1, <2>2, <2>3, <2>4
<1>2. CASE ~(i \in DOMAIN s /\ s[i].state # "deleted")
  BY <1>2 DEF Advance
<1> QED
  BY <1>1, <1>2

\* The next state of the entry at the end.
LEMMA AdvancedLast ==
  ASSUME NEW s \in Seq(Entries), NEW j \in Jobs, j.value # NoValue,
         NEW a \in States \ {"deleted"}, NEW b \in States
  PROVE  LET t == Append(s, Entry(j, a))
         IN  /\ Advance(t, Len(t), b) = Append(s, Entry(j, b))
             /\ t[Len(t)] = Entry(j, a)
<1> DEFINE t == Append(s, Entry(j, a))
           u == Append(s, Entry(j, b))
           v == Advance(t, Len(t), b)
<1>1. Entry(j, a) \in Entries /\ Entry(j, b) \in Entries
  BY NewEntry
<1>2. /\ t \in Seq(Entries) /\ Len(t) = Len(s) + 1 /\ Len(t) \in DOMAIN t
      /\ t[Len(t)] = Entry(j, a) /\ \A k \in 1 .. Len(s) : t[k] = s[k]
  BY <1>1
<1>3. /\ u \in Seq(Entries) /\ Len(u) = Len(s) + 1
      /\ u[Len(s) + 1] = Entry(j, b) /\ \A k \in 1 .. Len(s) : u[k] = s[k]
  BY <1>1
<1>4. [Entry(j, a) EXCEPT !.state = b] = Entry(j, b)
  BY DEF Entry
<1> HIDE DEF t, u
<1>5. v = [t EXCEPT ![Len(t)] = Entry(j, b)]
  <2>1. Entry(j, a).state # "deleted"
    BY DEF Entry
  <2> QED
    BY <1>2, <1>4, <2>1 DEF Advance
<1>6. /\ v \in Seq(Entries) /\ Len(v) = Len(s) + 1
      /\ v[Len(s) + 1] = Entry(j, b) /\ \A k \in 1 .. Len(s) : v[k] = s[k]
  <2> HIDE DEF v
  <2> QED
    BY <1>1, <1>2, <1>5
<1>7. v = u
  <2> HIDE DEF v
  <2> QED
    BY <1>3, <1>6
<1> QED
  BY <1>2, <1>7 DEF t, u

\* A left-over entry is the last one of its store; any entry may replace it.
LEMMA LeftOverEntry ==
  ASSUME NEW s \in Seq(Entries), offset \in Nat, LeftOver(s)
  PROVE  /\ Len(s) \in DOMAIN s
         /\ \A e \in Entries : /\ [s EXCEPT ![Len(s)] = e] \in Seq(Entries)
                               /\ Len([s EXCEPT ![Len(s)] = e]) = Len(s)
<1>1. s # <<>>
  BY TotalNumber DEF LeftOver
<1> QED
  BY <1>1

\* The walk over a store sets the totals.
LEMMA Counted ==
  ASSUME NEW s \in Seq(Entries), Count(s)
  PROVE  /\ offset' \in Nat /\ hwTotal' \in Nat /\ commonTotal' \in Int
         /\ offset' = Total(s) /\ hwTotal' = HwTotal(s) /\ commonTotal' = CommonTotal(s)
BY TotalNumber DEF Count

-----------------------------------------------------------------------------
(***************************** Type correctness ****************************)

Statuses == {"none", "success", "not_found", "out_of_resources", "device_error"}
HobType  == [Names -> Values \cup {NoValue}]

\* UpdateVariable, or the loop over the HOB, has returned.
Returned ==
  /\ pc' \in {"flush", "idle"} /\ ((pc' = "flush") <=> flushing')
  /\ job' = NoRequest /\ cur' = 0 /\ old' = 0
  /\ hob' \in HobType /\ todo' \subseteq Names /\ flushing' \in BOOLEAN

\* FlushHobVariableToFlash goes into its loop or returns.
LEMMA FlushHobReturns ==
  ASSUME TypeInv, NEW skip, FlushHob(skip)
  PROVE  Returned
<1> DEFINE left == [n \in Names |-> IF n \in skip THEN NoValue ELSE hob[n]]
<1>1. left \in HobType
  BY DEF TypeInv, TypeOK, HobType
<1>2. /\ hob' = left
      /\ todo' = {n \in Names : left[n] # NoValue}
      /\ flushing' = (todo' # {})
      /\ Exit(IF flushing' THEN "flush" ELSE "idle")
  BY DEF FlushHob
<1> HIDE DEF left
<1>3. todo' \subseteq Names /\ flushing' \in BOOLEAN
  BY <1>2
<1>4. CASE flushing'
  BY <1>1, <1>2, <1>3, <1>4 DEF Exit, Returned
<1>5. CASE ~flushing'
  BY <1>1, <1>2, <1>3, <1>5 DEF Exit, Returned
<1> QED
  BY <1>4, <1>5

\* A failure returns with its status to the caller of SetVariable.
LEMMA FailReturns ==
  ASSUME TypeInv, NEW error \in Statuses, Fail(error)
  PROVE  Returned /\ request' = request /\ status' \in Statuses /\ hob' = hob
BY DEF Fail, Exit, Returned, TypeInv, TypeOK, HobType, Statuses, hobs

\* So does success, which takes a variable out of the HOB.
LEMMA SucceedReturns ==
  ASSUME TypeInv, job \in Jobs, Succeed
  PROVE  Returned /\ request' = request /\ status' \in Statuses
<1>1. CASE flushing
  <2>1. /\ hob' = [hob EXCEPT ![job.name] = NoValue]
        /\ Exit("flush") /\ UNCHANGED <<flushing, todo, status, request>>
    BY <1>1 DEF Succeed
  <2>2. hob' \in HobType
    BY <2>1 DEF TypeInv, TypeOK, HobType
  <2> QED
    BY <1>1, <2>1, <2>2 DEF Exit, Returned, TypeInv, TypeOK, Statuses
<1>2. CASE ~flushing
  BY <1>2, FlushHobReturns DEF Succeed, Statuses
<1> QED
  BY <1>1, <1>2

\* UpdateVariable goes to its first flash operation.
LEMMA StartTypes ==
  ASSUME TypeInv, NEW j \in Jobs, Start(j)
  PROVE  /\ job' = j /\ cur' \in 0 .. Len(cache) /\ old' \in 0 .. Len(cache)
         /\ pc' \in {"delete_old", "delete_cur", "mark", "space"}
         /\ pc' \in {"mark", "space"} => j.value # NoValue
<1>1. cache \in Seq(Entries)
  BY DEF TypeInv, TypeOK
<1>2. Current(cache, j.name) \in 0 .. Len(cache) /\ InDeleted(cache, j.name) \in 0 .. Len(cache)
  BY <1>1, FoundEntry
<1> QED
  BY <1>2 DEF Start

\* The parts of the types that a call changes, and those of the stores.
CallTypes ==
  /\ pc \in Pcs /\ status \in Statuses
  /\ {request, job} \subseteq Jobs \cup {NoRequest}
  /\ hob \in HobType /\ todo \subseteq Names /\ flushing \in BOOLEAN
  /\ pc \in Updating => job \in Jobs
  /\ pc \in Updating \ {"delete_old", "delete_cur"} => job.value # NoValue
  /\ pc \notin Updating => job = NoRequest
  /\ (phase = "off") <=> (pc = "off")
  /\ Asked

StoreTypes ==
  /\ flash \in Seq(Entries) /\ cache \in Seq(Entries) /\ dirty \in BOOLEAN
  /\ offset \in Nat /\ hwTotal \in Nat /\ commonTotal \in Int
  /\ cur \in 0 .. Len(cache) /\ old \in 0 .. Len(cache)
  /\ pc \notin Updating => (cur = 0 /\ old = 0)

ModeTypes == /\ phase \in {"off", "boot", "runtime"} /\ reclaimed \in BOOLEAN
             /\ losses \in 0 .. MaxLosses

\* Together they are the types.
LEMMA TypesSplit == TypeInv <=> CallTypes /\ StoreTypes /\ ModeTypes
BY DEF TypeInv, TypeOK, CallTypes, StoreTypes, ModeTypes, HobType, Statuses

\* A call that returns has the types again.
LEMMA ReturnedTypes ==
  ASSUME TypeInv, Returned, request' \in Jobs \cup {NoRequest}, status' \in Statuses,
         phase' = phase, phase # "off"
  PROVE  CallTypes'
<1>1. pc' \notin Updating /\ pc' \in Pcs /\ pc' # "off"
  BY DEF Returned, Updating, Pcs
<1>2. Asked'
  BY <1>1 DEF Returned, Asked
<1> QED
  BY <1>1, <1>2 DEF Returned, CallTypes

\* A call that starts has the types.
LEMMA StartedTypes ==
  ASSUME TypeInv, NEW j \in Jobs, Start(j), request' \in Jobs \cup {NoRequest},
         status' \in Statuses, phase' = phase, phase # "off",
         hob' = hob, flushing' = flushing, todo' \subseteq Names,
         IF flushing THEN j.value = hob[j.name] ELSE j = request'
  PROVE  CallTypes'
<1>1. /\ job' = j
      /\ pc' \in {"delete_old", "delete_cur", "mark", "space"}
      /\ pc' \in {"mark", "space"} => j.value # NoValue
  BY StartTypes
<1>2. pc' \in Updating /\ pc' \in Pcs /\ pc' # "off"
  BY <1>1 DEF Updating, Pcs
<1>3. Asked'
  BY <1>1, <1>2 DEF Asked, Updating
<1> QED
  BY <1>1, <1>2, <1>3 DEF CallTypes, TypeInv, TypeOK, HobType

\* So has one that goes on to another of its operations.
LEMMA GotoTypes ==
  ASSUME TypeInv, pc \in Updating, NEW label \in Updating, Goto(label), phase' = phase,
         label \notin {"delete_old", "delete_cur"} => job.value # NoValue
  PROVE  CallTypes' /\ cur' = cur /\ old' = old /\ pc' = label /\ job' = job
<1>1. /\ pc' = label /\ job' = job /\ request' = request /\ status' = status
      /\ cur' = cur /\ old' = old /\ hob' = hob /\ flushing' = flushing /\ todo' = todo
  BY DEF Goto, call, hobs
<1>2. pc' \in Updating /\ pc' \in Pcs /\ pc' # "off" /\ phase' # "off"
  BY <1>1 DEF Updating, Pcs, TypeInv
<1>3. Asked'
  BY <1>1, <1>2 DEF Asked, Updating, TypeInv
<1> QED
  BY <1>1, <1>2, <1>3 DEF CallTypes, TypeInv, TypeOK, HobType, Statuses

\* The entries that go to the end of the flash, a reclaim's result among them,
\* are entries.
LEMMA StoresTyped ==
  ASSUME TypeInv
  PROVE  /\ flash \in Seq(Entries) /\ cache \in Seq(Entries)
         /\ Kept(flash) \in Seq(Entries)
         /\ \A i : \A state \in States : /\ Advance(flash, i, state) \in Seq(Entries)
                                         /\ Advance(cache, i, state) \in Seq(Entries)
                                         /\ Len(Advance(cache, i, state)) = Len(cache)
         /\ job \in Jobs /\ job.value # NoValue =>
              \A state \in States : /\ Append(flash, Entry(job, state)) \in Seq(Entries)
                                    /\ Append(cache, Entry(job, state)) \in Seq(Entries)
                                    /\ Kept(flash) \o <<Entry(job, state)>> \in Seq(Entries)
<1>1. flash \in Seq(Entries) /\ cache \in Seq(Entries)
  BY DEF TypeInv, TypeOK
<1>2. Kept(flash) \in Seq(Entries)
  BY <1>1, KeptEntries
<1>4. \A i : \A state \in States : /\ Advance(flash, i, state) \in Seq(Entries)
                                   /\ Advance(cache, i, state) \in Seq(Entries)
                                   /\ Len(Advance(cache, i, state)) = Len(cache)
  BY <1>1, Advanced
<1>5. ASSUME job \in Jobs, job.value # NoValue, NEW state \in States
      PROVE  /\ Append(flash, Entry(job, state)) \in Seq(Entries)
             /\ Append(cache, Entry(job, state)) \in Seq(Entries)
             /\ Kept(flash) \o <<Entry(job, state)>> \in Seq(Entries)
  <2>1. Entry(job, state) \in Entries
    BY <1>5, NewEntry
  <2> QED
    BY <1>1, <1>2, <2>1
<1> QED
  BY <1>1, <1>2, <1>4, <1>5

\* A reclaim leaves stores and totals.
LEMMA ReclaimTypes ==
  ASSUME TypeInv, Returned,
         \/ ReclaimFails
         \/ \E s \in Seq(Entries) : ReclaimTo(s)
         \/ UNCHANGED <<flash, dirty, cache, sizes>>
         \/ cache' = flash /\ UNCHANGED <<flash, dirty, sizes>>
  PROVE  StoreTypes'
<1>1. /\ flash \in Seq(Entries) /\ cache \in Seq(Entries) /\ dirty \in BOOLEAN
      /\ offset \in Nat /\ hwTotal \in Nat /\ commonTotal \in Int
  BY DEF TypeInv, TypeOK
<1>2. cur' = 0 /\ old' = 0
  BY DEF Returned
<1>3. CASE ReclaimFails
  BY <1>1, <1>2, <1>3, Counted DEF ReclaimFails, StoreTypes
<1>4. CASE \E s \in Seq(Entries) : ReclaimTo(s)
  <2>1. PICK s \in Seq(Entries) : ReclaimTo(s)
    BY <1>4
  <2>2. Count(s) /\ flash' = s /\ cache' = s /\ dirty' = FALSE
    BY <2>1 DEF ReclaimTo
  <2>3. offset' \in Nat /\ hwTotal' \in Nat /\ commonTotal' \in Int
    BY <2>2, Counted
  <2>4. flash' \in Seq(Entries) /\ cache' \in Seq(Entries) /\ dirty' \in BOOLEAN
    BY <2>2
  <2>5. cur' \in 0 .. Len(cache') /\ old' \in 0 .. Len(cache')
    BY <1>2, <2>4
  <2> QED
    BY <1>2, <2>3, <2>4, <2>5 DEF StoreTypes
<1>5. CASE UNCHANGED <<flash, dirty, cache, sizes>>
  BY <1>1, <1>2, <1>5 DEF StoreTypes, sizes
<1>6. CASE cache' = flash /\ UNCHANGED <<flash, dirty, sizes>>
  BY <1>1, <1>2, <1>6 DEF StoreTypes, sizes
<1> QED
  BY <1>3, <1>4, <1>5, <1>6

\* An operation on flash that leaves the memory copy.
LEMMA FlashTypes ==
  ASSUME TypeInv, flash' \in Seq(Entries), dirty' \in BOOLEAN, UNCHANGED <<cache, sizes>>,
         (cur' = 0 /\ old' = 0) \/ (pc' \in Updating /\ cur' = cur /\ old' = old)
  PROVE  StoreTypes'
BY DEF TypeInv, TypeOK, StoreTypes, sizes

\* The header, the states and the data of a new entry leave entries in flash.
LEMMA NewEntryTypes ==
  ASSUME TypeInv, pc \in {"header", "valid", "data", "added"}
  PROVE  /\ HeaderWritten => flash' \in Seq(Entries) /\ dirty' \in BOOLEAN
         /\ \A state \in States : Raise(state) => flash' \in Seq(Entries)
         /\ DataWritten => flash' \in Seq(Entries) /\ dirty' \in BOOLEAN
<1>1. /\ flash \in Seq(Entries) /\ dirty \in BOOLEAN /\ offset \in Nat
      /\ Append(flash, Entry(job, "header")) \in Seq(Entries)
      /\ \A state \in States : Advance(flash, Len(flash), state) \in Seq(Entries)
  <2>1. job \in Jobs /\ job.value # NoValue /\ "header" \in States
    BY DEF TypeInv, Updating, States
  <2> QED
    BY <2>1, StoresTyped DEF TypeInv, TypeOK
<1>2. ASSUME HeaderWritten PROVE flash' \in Seq(Entries) /\ dirty' \in BOOLEAN
  <2>1. CASE flash' = flash \/ flash' = Append(flash, Entry(job, "header"))
    <3>1. dirty' \in BOOLEAN
      BY <1>1, <1>2 DEF HeaderWritten
    <3> QED
      BY <1>1, <2>1, <3>1
  <2>2. CASE LeftOver(flash) /\ \E m \in Entries : flash' = [flash EXCEPT ![Len(flash)] = m]
    <3>1. dirty' \in BOOLEAN
      BY <1>1, <1>2 DEF HeaderWritten
    <3> QED
      BY <1>1, <2>2, <3>1, LeftOverEntry
  <2>3. CASE \E m \in Entries : flash' = Append(flash, m)
    <3>1. dirty' \in BOOLEAN
      BY <1>1, <1>2 DEF HeaderWritten
    <3> QED
      BY <1>1, <2>3, <3>1
  <2> QED
    BY <1>2, <2>1, <2>2, <2>3 DEF HeaderWritten, Mixtures, Unknown
<1> QED
  BY <1>1, <1>2 DEF Raise, DataWritten

\* Every step keeps the types.
LEMMA TypeStep ==
  ASSUME TypeInv, Next
  PROVE  TypeInv'
<1> USE DEF TypeInv, TypeOK
<1>t. "none" \in Statuses /\ "success" \in Statuses /\ "not_found" \in Statuses
      /\ "out_of_resources" \in Statuses /\ "device_error" \in Statuses
  BY DEF Statuses
<1>s. /\ "torn" \in States /\ "header" \in States /\ "valid" \in States
      /\ "added" \in States /\ "transition" \in States /\ "deleted" \in States
  BY DEF States
<1>m. UNCHANGED mode => (ModeTypes' /\ phase' = phase)
  BY DEF mode, ModeTypes
<1>q. CallTypes' /\ StoreTypes' /\ ModeTypes' => TypeInv'
  BY DEF CallTypes, StoreTypes, ModeTypes, HobType, Statuses
<1>c. pc \in Updating \ {"delete_old", "delete_cur"} => (job \in Jobs /\ job.value # NoValue)
  OBVIOUS
<1>r. Returned /\ request' = request /\ status' \in Statuses /\ phase' = phase /\ phase # "off"
        => CallTypes'
  BY ReturnedTypes
<1>1. CASE PowerOn
  <2>1. pc = "off" /\ job = NoRequest /\ cur = 0 /\ old = 0
    BY <1>1 DEF PowerOn, Updating
  <2>2. pc' = "write_service" /\ UNCHANGED <<flash, dirty, flushing, todo, reclaimed, losses, call>>
        /\ hob' \in HobType /\ phase' = "boot" /\ cache' = flash /\ Count(flash)
    BY <1>1, ConstantsAssumption DEF PowerOn, HobType
  <2>3. pc' \notin Updating /\ pc' \in Pcs
    BY <2>2 DEF Updating, Pcs
  <2>4. CallTypes'
    <3>1. Asked'
      BY <2>1, <2>2, <2>3 DEF Asked
    <3> QED
      BY <2>1, <2>2, <2>3, <3>1 DEF CallTypes, Statuses, call
  <2>5. StoreTypes'
    BY <2>1, <2>2, <2>3, Counted DEF StoreTypes, call
  <2>6. ModeTypes'
    BY <2>2 DEF ModeTypes
  <2> QED
    BY <1>q, <2>4, <2>5, <2>6
<1>2. CASE WriteServiceInitialize
  <2>1. phase # "off" /\ UNCHANGED <<mode, request, status>>
    BY <1>2 DEF WriteServiceInitialize
  <2>2. Returned
    <3>1. CASE FlushHob({})
      BY <3>1, FlushHobReturns
    <3>2. CASE Exit("idle") /\ UNCHANGED hobs
      BY <1>2, <3>2 DEF WriteServiceInitialize, Returned, Exit, hobs, Asked, HobType
    <3> QED
      BY <1>2, <3>1, <3>2 DEF WriteServiceInitialize
  <2>3. StoreTypes'
    BY <1>2, <2>2, ReclaimTypes, StoresTyped DEF WriteServiceInitialize
  <2> QED
    BY <1>m, <1>q, <1>r, <2>1, <2>2, <2>3 DEF Statuses
<1>3. ASSUME NEW j \in Jobs, SetVariable(j) PROVE TypeInv'
  <2>1. /\ pc = "idle" /\ phase # "off" /\ ~flushing /\ request' = j
        /\ UNCHANGED <<flash, dirty, cache, sizes, mode>>
    BY <1>3 DEF SetVariable, Asked
  <2>2. CASE Exit("idle") /\ UNCHANGED hobs /\ status' \in Statuses
    <3>1. Returned
      BY <2>1, <2>2 DEF Exit, hobs, Returned, HobType
    <3>2. CallTypes'
      BY <1>m, <2>1, <2>2, <3>1, ReturnedTypes
    <3>3. StoreTypes'
      BY <2>1, <3>1, ReclaimTypes
    <3> QED
      BY <1>m, <1>q, <2>1, <3>2, <3>3
  <2>3. CASE FlushHob({j.name}) /\ status' = "success"
    <3>1. Returned
      BY <2>3, FlushHobReturns
    <3>2. CallTypes'
      BY <1>m, <1>t, <2>1, <2>3, <3>1, ReturnedTypes
    <3>3. StoreTypes'
      BY <2>1, <3>1, ReclaimTypes
    <3> QED
      BY <1>m, <1>q, <2>1, <3>2, <3>3
  <2>4. CASE Start(j) /\ UNCHANGED hobs /\ status' = "none"
    <3>1. CallTypes'
      BY <1>m, <1>t, <2>1, <2>4, StartedTypes DEF hobs
    <3>2. StoreTypes'
      BY <2>1, <2>4, StartTypes DEF StoreTypes, sizes, Updating
    <3> QED
      BY <1>m, <1>q, <2>1, <3>1, <3>2
  <2> QED
    BY <1>3, <1>t, <2>2, <2>3, <2>4 DEF SetVariable
<1>4. ASSUME NEW n \in Names, FlushNext(n) PROVE TypeInv'
  <2> DEFINE j == [name |-> n, value |-> hob[n]]
  <2>1. /\ pc = "flush" /\ flushing /\ phase # "off" /\ todo' = todo \ {n}
        /\ UNCHANGED <<flash, dirty, cache, sizes, flushing, mode, request, status>>
    BY <1>4 DEF FlushNext, Asked
  <2>2. j \in Jobs /\ j.value = hob[j.name] /\ j.name = n
    BY DEF Jobs
  <2>3. IF Unchanged(j) THEN hob' = [hob EXCEPT ![n] = NoValue] /\ Exit("flush")
                        ELSE Start(j) /\ UNCHANGED hob
    BY <1>4 DEF FlushNext
  <2> HIDE DEF j
  <2>4. CASE hob' = [hob EXCEPT ![n] = NoValue] /\ Exit("flush")
    <3>1. Returned
      BY <2>1, <2>4 DEF Exit, Returned, HobType
    <3>2. StoreTypes'
      BY <2>1, <3>1, ReclaimTypes
    <3> QED
      BY <1>m, <1>q, <1>r, <2>1, <3>1, <3>2 DEF Statuses
  <2>5. CASE Start(j) /\ UNCHANGED hob
    <3>1. CallTypes'
      <4>1. todo' \subseteq Names /\ request' \in Jobs \cup {NoRequest} /\ status' \in Statuses
        BY <2>1 DEF Statuses
      <4> QED
        BY <1>m, <2>1, <2>2, <2>5, <4>1, StartedTypes
    <3>2. StoreTypes'
      BY <2>1, <2>2, <2>5, StartTypes DEF StoreTypes, sizes, Updating
    <3> QED
      BY <1>m, <1>q, <2>1, <3>1, <3>2
  <2> QED
    BY <2>3, <2>4, <2>5
<1>5. CASE FlushEnd
  <2>1. UNCHANGED <<flash, dirty, cache, sizes, mode, request, status>> /\ phase # "off"
    BY <1>5 DEF FlushEnd
  <2>2. Returned
    BY <1>5 DEF FlushEnd, Exit, Returned, HobType
  <2>3. StoreTypes'
    BY <2>1, <2>2, ReclaimTypes
  <2> QED
    BY <1>m, <1>q, <1>r, <2>1, <2>2, <2>3 DEF Statuses
<1>6. CASE StateFails \/ EntryFails
  <2>1. Fail("device_error") /\ UNCHANGED <<cache, sizes, mode>> /\ phase # "off"
    BY <1>6 DEF StateFails, EntryFails
  <2>2. Returned /\ CallTypes'
    BY <1>m, <1>r, <1>t, <2>1, FailReturns
  <2>3. flash' \in Seq(Entries) /\ dirty' \in BOOLEAN
    <3>1. CASE UNCHANGED <<flash, dirty>>
      BY <3>1
    <3>2. CASE pc = "header" /\ HeaderWritten
      BY <3>2, NewEntryTypes
    <3>3. CASE pc = "valid" /\ Raise("valid") /\ UNCHANGED dirty
      BY <1>s, <3>3, NewEntryTypes
    <3>4. CASE pc = "added" /\ Raise("added") /\ UNCHANGED dirty
      BY <1>s, <3>4, NewEntryTypes
    <3>5. CASE pc = "data" /\ DataWritten
      BY <3>5, NewEntryTypes
    <3> QED
      BY <1>6, <3>1, <3>2, <3>3, <3>4, <3>5 DEF StateFails, EntryFails
  <2>4. StoreTypes'
    BY <2>1, <2>2, <2>3, FlashTypes DEF Returned
  <2> QED
    BY <1>m, <1>q, <2>1, <2>2, <2>4
<1>7. CASE DeleteOld \/ MarkOld
  <2>1. PICK i \in {cur, old}, state \in States, label \in {"delete_cur", "space"} :
          WriteState(i, state) /\ Goto(label) /\ (label = "space" => pc = "mark")
    <3>1. CASE DeleteOld
      <4>1. WriteState(old, "deleted") /\ Goto("delete_cur")
        BY <3>1 DEF DeleteOld
      <4> QED
        BY <1>s, <4>1
    <3>2. CASE MarkOld
      <4>1. WriteState(cur, "transition") /\ Goto("space") /\ pc = "mark"
        BY <3>2 DEF MarkOld
      <4> QED
        BY <1>s, <4>1
    <3> QED
      BY <1>7, <3>1, <3>2
  <2>2. pc \in Updating /\ label \in Updating /\ phase # "off"
        /\ (label = "space" => job.value # NoValue)
    BY <1>7, <2>1 DEF DeleteOld, MarkOld, Updating
  <2>3. CallTypes' /\ cur' = cur /\ old' = old /\ pc' = label
    BY <1>m, <2>1, <2>2, GotoTypes DEF WriteState
  <2>4. StoreTypes'
    BY <2>1, <2>2, <2>3, StoresTyped DEF WriteState, StoreTypes, sizes
  <2> QED
    BY <1>m, <1>q, <2>1, <2>3, <2>4 DEF WriteState
<1>8. CASE DeleteCurrent
  <2>1. WriteState(cur, "deleted") /\ Succeed /\ job \in Jobs /\ phase # "off"
    BY <1>8 DEF DeleteCurrent, Updating
  <2>2. Returned /\ CallTypes'
    BY <1>m, <1>r, <2>1, SucceedReturns DEF WriteState
  <2>3. StoreTypes'
    BY <1>s, <2>1, <2>2, StoresTyped DEF WriteState, StoreTypes, sizes, Returned
  <2> QED
    BY <1>m, <1>q, <2>1, <2>2, <2>3 DEF WriteState
<1>9. CASE FindSpace
  <2>1. pc = "space" /\ UNCHANGED mode /\ phase # "off" /\ job \in Jobs /\ job.value # NoValue
    BY <1>9 DEF FindSpace, Updating
  <2>2. CASE Goto("header") /\ UNCHANGED <<flash, dirty, cache, sizes>>
    <3>1. CallTypes' /\ cur' = cur /\ old' = old /\ pc' = "header"
      BY <1>m, <2>1, <2>2, GotoTypes DEF Updating
    <3>2. StoreTypes'
      BY <2>1, <2>2, <3>1, FlashTypes DEF Updating
    <3> QED
      BY <1>m, <1>q, <2>1, <3>1, <3>2
  <2>3. CASE Fail("out_of_resources") /\ UNCHANGED <<flash, dirty, cache, sizes>>
    <3>1. Returned /\ CallTypes'
      BY <1>m, <1>r, <1>t, <2>1, <2>3, FailReturns
    <3>2. StoreTypes'
      BY <2>3, <3>1, ReclaimTypes
    <3> QED
      BY <1>m, <1>q, <2>1, <3>1, <3>2
  <2>4. CASE ReclaimWith(job)
    <3> DEFINE new == Kept(flash) \o <<Entry(job, "added")>>
    <3>1. new \in Seq(Entries)
      BY <1>s, <2>1, StoresTyped
    <3>2. \/ cache' = flash /\ Fail("out_of_resources") /\ UNCHANGED <<flash, dirty, sizes>>
          \/ ReclaimTo(new) /\ Succeed
          \/ ReclaimFails /\ Fail("device_error")
      BY <2>4 DEF ReclaimWith
    <3> HIDE DEF new
    <3>3. Returned /\ CallTypes'
      BY <1>m, <1>r, <1>t, <2>1, <3>2, FailReturns, SucceedReturns
    <3>4. StoreTypes'
      BY <3>1, <3>2, <3>3, ReclaimTypes
    <3> QED
      BY <1>m, <1>q, <2>1, <3>3, <3>4
  <2> QED
    BY <1>9, <2>2, <2>3, <2>4 DEF FindSpace
<1>10. CASE WriteHeader \/ WriteValid \/ WriteData
  <2>1. PICK label \in {"valid", "data", "added"} :
          Goto(label) /\ UNCHANGED <<cache, sizes, mode>>
    BY <1>10 DEF WriteHeader, WriteValid, WriteData
  <2>2. pc \in Updating /\ label \in Updating /\ phase # "off" /\ job.value # NoValue
    BY <1>10, <2>1 DEF WriteHeader, WriteValid, WriteData, Updating
  <2>3. CallTypes' /\ cur' = cur /\ old' = old /\ pc' = label
    BY <1>m, <2>1, <2>2, GotoTypes
  <2>4. flash' \in Seq(Entries) /\ dirty' \in BOOLEAN
    BY <1>10, <1>s, NewEntryTypes DEF WriteHeader, WriteValid, WriteData
  <2>5. StoreTypes'
    BY <2>1, <2>2, <2>3, <2>4, FlashTypes
  <2> QED
    BY <1>m, <1>q, <2>1, <2>3, <2>5
<1>11. CASE WriteAdded
  <2>1. /\ pc = "added" /\ job \in Jobs /\ job.value # NoValue /\ phase # "off"
        /\ Raise("added") /\ AddToCache
        /\ CountAdded /\ Replace /\ UNCHANGED <<dirty, mode>>
    BY <1>11 DEF WriteAdded, Updating
  <2>2. /\ flash' \in Seq(Entries) /\ cache' \in Seq(Entries)
        /\ Len(cache') \in {Len(cache), Len(cache) + 1}
    <3>1. flash' \in Seq(Entries)
      BY <1>s, <2>1, NewEntryTypes
    <3>2. Entry(job, "added") \in Entries /\ cache \in Seq(Entries) /\ offset \in Nat
      BY <1>s, <2>1, NewEntry
    <3>3. CASE LeftOver(cache)
      BY <2>1, <3>1, <3>2, <3>3, LeftOverEntry DEF AddToCache
    <3>4. CASE ~LeftOver(cache)
      BY <2>1, <3>1, <3>2, <3>4 DEF AddToCache
    <3> QED
      BY <3>3, <3>4
  <2>3. offset' \in Nat /\ hwTotal' \in Nat /\ commonTotal' \in Int
    <3>1. VarSize(job) \in Nat
      BY <1>s, <2>1, NewEntry
    <3> QED
      BY <2>1, <3>1 DEF CountAdded
  <2>4. CallTypes' /\ cur' \in 0 .. Len(cache') /\ old' \in 0 .. Len(cache')
        /\ (pc' \notin Updating => cur' = 0 /\ old' = 0)
    <3>1. CASE Succeed
      BY <1>m, <1>r, <2>1, <2>2, <3>1, SucceedReturns DEF Returned
    <3>2. CASE ~Succeed
      <4>1. PICK label \in {"delete_cur", "delete_old"} : Goto(label)
        BY <2>1, <3>2 DEF Replace
      <4>2. CallTypes' /\ cur' = cur /\ old' = old /\ pc' = label
        BY <1>m, <2>1, <4>1, GotoTypes DEF Updating
      <4> QED
        BY <2>2, <4>1, <4>2 DEF Updating
    <3> QED
      BY <3>1, <3>2
  <2>5. StoreTypes'
    BY <2>1, <2>2, <2>3, <2>4 DEF StoreTypes
  <2> QED
    BY <1>m, <1>q, <2>1, <2>4, <2>5
<1>12. CASE ReadyToBoot \/ ExitBootServices
  <2>1. /\ pc = "idle" /\ phase = "boot" /\ cur = 0 /\ old = 0
        /\ UNCHANGED <<hobs, losses, pc, call>> /\ ModeTypes' /\ phase' # "off"
    BY <1>12 DEF ReadyToBoot, ExitBootServices, ModeTypes, Updating
  <2>2. Returned /\ request' = request /\ status' = status
    BY <2>1 DEF Returned, hobs, call, HobType, Asked, Updating
  <2>3. StoreTypes'
    BY <1>12, <2>2, ReclaimTypes, StoresTyped DEF ReadyToBoot, ExitBootServices
  <2>4. CallTypes'
    <3>1. Asked'
      BY <2>1, <2>2 DEF Asked, Returned, Updating
    <3> QED
      BY <2>1, <2>2, <3>1 DEF CallTypes, Statuses, Returned, Updating, Pcs
  <2> QED
    BY <1>q, <2>1, <2>3, <2>4
<1>13. CASE PowerLoss
  <2>1. /\ cache' = <<>> /\ offset' = 0 /\ hwTotal' = 0 /\ commonTotal' = 0
        /\ hob' = [n \in Names |-> NoValue] /\ flushing' = FALSE /\ todo' = {}
        /\ request' = NoRequest /\ status' = "none" /\ losses' = losses + 1
        /\ phase' = "off" /\ reclaimed' = FALSE /\ losses < MaxLosses /\ phase # "off"
        /\ pc' = "off" /\ job' = NoRequest /\ cur' = 0 /\ old' = 0
    BY <1>13 DEF PowerLoss, Exit
  <2>2. flash' \in Seq(Entries) /\ dirty' \in BOOLEAN
    <3>1. CASE pc = "header"
      <4>1. job \in Jobs /\ job.value # NoValue
        BY <3>1 DEF Updating
      <4>2. HeaderWritten => flash' \in Seq(Entries) /\ dirty' \in BOOLEAN
        BY <3>1, NewEntryTypes
      <4> QED
        BY <1>13, <1>s, <4>1, <4>2, StoresTyped DEF PowerLoss, Interrupted
    <3>2. CASE pc # "header"
      BY <1>13, <3>2 DEF PowerLoss, Interrupted
    <3> QED
      BY <3>1, <3>2
  <2>3. StoreTypes'
    <3>1. <<>> \in Seq(Entries) /\ Len(<<>>) = 0
      OBVIOUS
    <3> QED
      BY <2>1, <2>2, <3>1 DEF StoreTypes
  <2>4. CallTypes'
    <3>1. pc' \notin Updating /\ pc' \in Pcs
      BY <2>1 DEF Updating, Pcs
    <3>2. Asked'
      BY <2>1, <3>1 DEF Asked
    <3> QED
      BY <2>1, <3>1, <3>2 DEF CallTypes, Statuses, HobType
  <2>5. ModeTypes'
    <3>1. losses + 1 \in 0 .. MaxLosses
      BY <2>1, ConstantsAssumption
    <3> QED
      BY <2>1, <3>1 DEF ModeTypes
  <2> QED
    BY <1>q, <2>3, <2>4, <2>5
<1> QED
  BY <1>1, <1>2, <1>3, <1>4, <1>5, <1>6, <1>7, <1>8, <1>9, <1>10, <1>11, <1>12, <1>13
  DEF Next, Flush, UpdateVariable

\* The types hold at the start.
LEMMA TypeInit == Init => TypeInv
<1> SUFFICES ASSUME Init PROVE TypeInv
  OBVIOUS
<1>1. pc \notin Updating /\ pc \in Pcs
  BY DEF Init, Updating, Pcs
<1>2. Asked
  BY <1>1 DEF Init, Asked
<1>3. <<>> \in Seq(Entries) /\ Len(<<>>) = 0
  OBVIOUS
<1>4. StoreTypes
  <2>1. flash = <<>> /\ cache = <<>>
    BY DEF Init
  <2>2. flash \in Seq(Entries) /\ cache \in Seq(Entries) /\ Len(cache) = 0
    BY <1>3, <2>1, Zenon
  <2>3. 0 \in 0 .. Len(cache)
    BY <2>2
  <2>4. dirty \in BOOLEAN
    BY DEF Init
  <2>5. offset \in Nat /\ hwTotal \in Nat /\ commonTotal \in Int
    <3>1. offset = 0 /\ hwTotal = 0 /\ commonTotal = 0
      BY DEF Init
    <3> QED
      BY <3>1
  <2>6. cur = 0 /\ old = 0
    BY DEF Init
  <2> QED
    BY <2>2, <2>3, <2>4, <2>5, <2>6 DEF StoreTypes
<1>5. CallTypes
  BY <1>1, <1>2 DEF Init, CallTypes, HobType, Statuses
<1>6. ModeTypes
  <2>1. 0 \in 0 .. MaxLosses
    BY ConstantsAssumption
  <2> QED
    BY <2>1 DEF Init, ModeTypes
<1> QED
  BY <1>4, <1>5, <1>6, TypesSplit

\* Every variable of the driver has a value of its type, whatever fails; so the
\* pointers CurrPtr and InDeletedTransitionPtr, which are not looked up again
\* after a flash operation, always point into the memory copy.
THEOREM TypeCorrect == Spec => []TypeOK
<1>1. Init => TypeInv
  BY TypeInit
<1>2. TypeInv /\ [Next]_vars => TypeInv'
  <2> SUFFICES ASSUME TypeInv, [Next]_vars PROVE TypeInv'
    OBVIOUS
  <2>1. CASE Next
    BY <2>1, TypeStep
  <2>2. CASE UNCHANGED vars
    BY <2>2 DEF vars, sizes, hobs, mode, call, TypeInv, TypeOK, Asked
  <2> QED
    BY <2>1, <2>2
<1>3. TypeInv => TypeOK
  BY DEF TypeInv
<1> QED
  BY <1>1, <1>2, <1>3, PTL DEF Spec

-----------------------------------------------------------------------------
(**************************** Memory and flash *****************************)

\* A store that UpdateVariable leaves.
LEMMA ReturnedStore ==
  ASSUME TypeInv', Returned, cache' = flash', dirty' = FALSE, Accounts'
  PROVE  StoreInv'
<1>1. pc' \notin Updating /\ pc' \notin {"valid", "data", "added"}
  BY DEF Returned, Updating
<1>2. Mirrors' /\ Replaces'
  BY <1>1 DEF Mirrors, Replaces
<1> QED
  BY <1>2 DEF StoreInv

\* The same after a reclaim, or a call that left the store alone.
LEMMA ReclaimedStore ==
  ASSUME StoreInv, TypeInv', Returned, pc # "off", cache = flash,
         \/ ReclaimFails /\ ~dirty
         \/ \E s \in Seq(Entries) : ReclaimTo(s)
         \/ UNCHANGED <<flash, dirty, cache, sizes>> /\ ~dirty
         \/ cache' = flash /\ UNCHANGED <<flash, dirty, sizes>> /\ ~dirty
  PROVE  StoreInv'
<1>1. flash \in Seq(Entries) /\ dirty \in BOOLEAN /\ Accounts
  BY DEF StoreInv, TypeInv, TypeOK
<1>2. CASE ReclaimFails /\ ~dirty
  <2>1. /\ Count(flash) /\ cache' = flash /\ flash' = flash /\ dirty' = FALSE
    BY <1>1, <1>2 DEF ReclaimFails
  <2>2. Accounts'
    BY <1>1, <2>1, Counted DEF Accounts
  <2> QED
    BY <2>1, <2>2, ReturnedStore
<1>3. CASE \E s \in Seq(Entries) : ReclaimTo(s)
  <2>1. PICK s \in Seq(Entries) : ReclaimTo(s)
    BY <1>3
  <2>2. Count(s) /\ flash' = s /\ cache' = s /\ dirty' = FALSE
    BY <2>1 DEF ReclaimTo
  <2>3. Accounts'
    BY <2>2, Counted DEF Accounts
  <2> QED
    BY <2>2, <2>3, ReturnedStore
<1>4. CASE cache' = flash /\ UNCHANGED <<flash, dirty, sizes>> /\ ~dirty
  <2>1. Accounts' /\ cache' = flash' /\ dirty' = FALSE
    BY <1>1, <1>4 DEF Accounts, sizes
  <2> QED
    BY <2>1, ReturnedStore
<1> QED
  BY <1>2, <1>3, <1>4

\* The entries that UpdateVariable finds for its variable.
LEMMA StartedReplaces ==
  ASSUME TypeInv, NEW j \in Jobs, Start(j), cache' = cache
  PROVE  Replaces'
<1>1. cache \in Seq(Entries)
  BY DEF TypeInv, TypeOK
<1>2. /\ job' = j /\ cur' = Current(cache, j.name) /\ old' = InDeleted(cache, j.name)
      /\ pc' \in {"delete_old", "delete_cur"} => j.value = NoValue
  BY DEF Start
<1>3. /\ Current(cache, j.name) # 0 => Live(cache, j.name, Current(cache, j.name))
      /\ InDeleted(cache, j.name) # 0 =>
           /\ Live(cache, j.name, InDeleted(cache, j.name))
           /\ InDeleted(cache, j.name) < Current(cache, j.name)
      /\ InDeleted(cache, j.name) \in 0 .. Len(cache)
      /\ Current(cache, j.name) \in 0 .. Len(cache)
  BY <1>1, FoundEntry
<1>4. cur' # 0 => Live(cache, j.name, cur')
  BY <1>2, <1>3
<1>5. old' # 0 => Live(cache, j.name, old') /\ old' # cur'
  BY <1>2, <1>3
<1> QED
  BY <1>2, <1>4, <1>5 DEF Replaces, Live, Whole

\* A state byte of an entry that is replaced leaves the totals and the others.
LEMMA StateWritten ==
  ASSUME StoreInv, pc \in {"delete_old", "delete_cur", "mark"}, NEW i \in {cur, old},
         NEW state \in States \ {"torn", "header"}, WriteState(i, state)
  PROVE  /\ cache' = flash' /\ cache' = Advance(cache, i, state)
         /\ cache' \in Seq(Entries) /\ DOMAIN cache' = DOMAIN cache
         /\ dirty' = FALSE /\ Accounts'
         /\ \A k \in DOMAIN cache : k # i => cache'[k] = cache[k]
         /\ \A k \in DOMAIN cache : cache'[k].name = cache[k].name
         /\ state = "deleted" \/ i = cur => (i \in DOMAIN cache => cache'[i].state = state)
         /\ i # 0 => cache[i].name = job.name
<1>1. /\ cache = flash /\ ~dirty /\ dirty \in BOOLEAN /\ cache \in Seq(Entries) /\ Accounts
      /\ pc \in Updating
  BY DEF StoreInv, Mirrors, TypeInv, TypeOK, Updating
<1>2. /\ Whole(cache, i) /\ (i # 0 => cache[i].name = job.name)
      /\ i = cur /\ i \in DOMAIN cache => cache[i].state # "deleted"
  <2>1. CASE i = 0
    BY <1>1, <2>1 DEF Whole
  <2>2. CASE i # 0
    BY <1>1, <2>2 DEF StoreInv, Replaces, Live, Whole
  <2> QED
    BY <2>1, <2>2
<1>3. /\ flash' = Advance(cache, i, state) /\ cache' = Advance(cache, i, state)
      /\ dirty' = FALSE
      /\ offset' = offset /\ hwTotal' = hwTotal /\ commonTotal' = commonTotal
  BY <1>1 DEF WriteState, sizes
<1>4. /\ Total(cache') = Total(cache) /\ HwTotal(cache') = HwTotal(cache)
      /\ CommonTotal(cache') = CommonTotal(cache)
  BY <1>1, <1>2, <1>3, TotalAdvance
<1>5. Accounts'
  BY <1>1, <1>3, <1>4 DEF Accounts
<1>6. /\ Advance(cache, i, state) \in Seq(Entries)
      /\ DOMAIN Advance(cache, i, state) = DOMAIN cache
      /\ \A k \in DOMAIN cache : k # i => Advance(cache, i, state)[k] = cache[k]
      /\ \A k \in DOMAIN cache : Advance(cache, i, state)[k].name = cache[k].name
      /\ state = "deleted" \/ i = cur =>
           (i \in DOMAIN cache => Advance(cache, i, state)[i].state = state)
  BY <1>1, <1>2, Advanced
<1> QED
  BY <1>2, <1>3, <1>5, <1>6

\* A new entry goes to the end of the store, where nothing was left.
LEMMA EntryWritten ==
  ASSUME StoreInv
  PROVE  /\ pc = "header" => Erased /\ cache = flash
         /\ pc = "header" /\ HeaderWritten =>
              flash' = Append(cache, Entry(job, "header")) /\ dirty' = FALSE
         /\ pc = "valid" /\ Raise("valid") => flash' = Append(cache, Entry(job, "valid"))
         /\ pc = "data" /\ DataWritten => dirty' = FALSE
         /\ pc = "added" /\ Raise("added") => flash' = Append(cache, Entry(job, "added"))
         /\ pc = "added" /\ AddToCache => cache' = Append(cache, Entry(job, "added"))
         /\ Interrupted /\ flash' # flash =>
              /\ pc = "header" /\ cache = flash /\ TornHeaders
              /\ flash' = Append(flash, Entry(job, "torn"))
<1>1. /\ flash \in Seq(Entries) /\ cache \in Seq(Entries) /\ dirty \in BOOLEAN
      /\ offset \in Nat
      /\ {"header", "valid", "added"} \subseteq States \ {"torn", "deleted"}
  BY DEF StoreInv, TypeInv, TypeOK, States
<1>2. pc \in {"header", "valid", "data", "added"} =>
        job \in Jobs /\ job.value # NoValue /\ ~dirty /\ offset = Total(cache)
  BY DEF StoreInv, TypeInv, Updating, Accounts
<1>3. pc = "header" => Erased /\ cache = flash
  BY <1>1, <1>2 DEF StoreInv, Mirrors, Erased
<1>4. ASSUME pc = "header", HeaderWritten
      PROVE  flash' = Append(cache, Entry(job, "header")) /\ dirty' = FALSE
  <2>1. Total(flash) \in Nat
    BY <1>1, TotalNumber
  <2>2. ~LeftOver(flash) /\ ~dirty
    BY <1>1, <1>3, <1>4, <2>1 DEF LeftOver, Erased
  <2> QED
    BY <1>1, <1>3, <1>4, <2>2 DEF HeaderWritten
<1>5. ASSUME NEW state \in {"header", "valid"}, pc \in {"valid", "data", "added"},
             flash = Append(cache, Entry(job, state))
      PROVE  /\ LeftOver(flash)
             /\ state = "valid" => Total(flash) = offset + VarSize(job)
             /\ VarSize(job) \in Nat
  <2>1. Entry(job, state) \in Entries /\ VarSize(job) \in Nat
        /\ (state = "valid" => SizeOf(Entry(job, state)) = VarSize(job))
    BY <1>1, <1>2, <1>5, NewEntry
  <2>2. SizeOf(Entry(job, state)) \in Nat /\ SizeOf(Entry(job, state)) >= 1
    BY <2>1, EntrySize
  <2>3. Total(flash) = Total(cache) + SizeOf(Entry(job, state))
    BY <1>1, <1>5, <2>1, TotalAppend
  <2> QED
    BY <1>1, <1>2, <1>5, <2>1, <2>2, <2>3 DEF LeftOver
<1>6. ASSUME NEW state \in {"header", "valid"}, NEW next \in {"valid", "added"},
             pc \in {"valid", "added"}, flash = Append(cache, Entry(job, state)), Raise(next)
      PROVE  flash' = Append(cache, Entry(job, next))
  <2>1. Advance(flash, Len(flash), next) = Append(cache, Entry(job, next))
        /\ flash[Len(flash)] = Entry(job, state)
    BY <1>1, <1>2, <1>6, AdvancedLast
  <2>2. Entry(job, state).state = state
    BY DEF Entry
  <2>3. LeftOver(flash)
    BY <1>5, <1>6
  <2> QED
    BY <1>6, <2>1, <2>2, <2>3 DEF Raise
<1>7. /\ pc = "valid" => flash = Append(cache, Entry(job, "header"))
      /\ pc \in {"data", "added"} => flash = Append(cache, Entry(job, "valid"))
  BY DEF StoreInv, Mirrors
<1>8. ASSUME pc = "data", DataWritten PROVE dirty' = FALSE
  <2>1. Total(flash) = offset + VarSize(job) /\ VarSize(job) \in Nat
    BY <1>5, <1>7, <1>8
  <2> QED
    BY <1>1, <1>2, <1>8, <2>1 DEF DataWritten
<1>9. ASSUME pc = "added", AddToCache PROVE cache' = Append(cache, Entry(job, "added"))
  BY <1>1, <1>2, <1>9 DEF AddToCache, LeftOver
<1>10. ASSUME Interrupted, flash' # flash
       PROVE  /\ pc = "header" /\ cache = flash /\ TornHeaders
              /\ flash' = Append(flash, Entry(job, "torn"))
  BY <1>3, <1>10 DEF Interrupted
<1> QED
  BY <1>3, <1>4, <1>6, <1>7, <1>8, <1>9, <1>10

\* Every step keeps the memory copy what the flash is and the totals its own.
LEMMA StoreStep ==
  ASSUME EntriesWork, StoreInv, Next
  PROVE  StoreInv'
<1>t. TypeInv /\ TypeInv'
  BY TypeStep DEF StoreInv
<1>u. /\ flash \in Seq(Entries) /\ cache \in Seq(Entries) /\ dirty \in BOOLEAN
      /\ pc # "off" => Accounts
      /\ pc \notin {"off", "valid", "data", "added"} => cache = flash
      /\ pc \notin {"off", "write_service"} => ~dirty
      /\ pc \in Updating \ {"delete_old", "delete_cur"} => (job \in Jobs /\ job.value # NoValue)
      /\ pc \in Updating => job \in Jobs
      /\ pc \notin Updating => (cur = 0 /\ old = 0)
  BY <1>t DEF StoreInv, Mirrors, TypeInv, TypeOK
<1>s. "header" \in States /\ "valid" \in States /\ "added" \in States
      /\ "transition" \in States \ {"torn", "header"} /\ "deleted" \in States \ {"torn", "header"}
  BY DEF States
<1>o. pc = "off" <=> phase = "off"
  BY <1>t DEF TypeInv
<1>1. CASE PowerOn
  <2>1. pc' = "write_service" /\ flash' = flash /\ cache' = flash /\ Count(flash)
    BY <1>1 DEF PowerOn
  <2>2. Accounts'
    BY <1>u, <2>1, Counted DEF Accounts
  <2>3. Mirrors' /\ Replaces'
    BY <2>1 DEF Mirrors, Replaces, Updating
  <2> QED
    BY <1>t, <2>1, <2>2, <2>3 DEF StoreInv
<1>2. CASE WriteServiceInitialize
  <2>1. pc = "write_service"
    BY <1>2 DEF WriteServiceInitialize
  <2>2. FlushHob({})
        /\ (ReclaimTo(Kept(flash)) \/ (UNCHANGED <<flash, dirty, cache, sizes>> /\ ~dirty))
    BY <1>2 DEF WriteServiceInitialize, EntriesWork
  <2>3. Returned
    BY <1>t, <2>2, FlushHobReturns
  <2>4. Kept(flash) \in Seq(Entries)
    BY <1>t, StoresTyped
  <2>5. cache = flash /\ pc # "off"
    BY <1>u, <2>1
  <2> QED
    BY <1>t, <2>2, <2>3, <2>4, <2>5, ReclaimedStore
<1>3. ASSUME NEW j \in Jobs, SetVariable(j) PROVE StoreInv'
  <2>1. pc = "idle" /\ cache = flash /\ ~dirty /\ ~flushing
        /\ UNCHANGED <<flash, dirty, cache, sizes, mode>>
    BY <1>3, <1>t, <1>u DEF SetVariable, TypeInv, Asked
  <2>2. CASE Exit("idle") /\ UNCHANGED hobs
    <3>1. Returned
      BY <1>t, <2>1, <2>2 DEF Exit, hobs, Returned, HobType, TypeInv, TypeOK
    <3> QED
      BY <1>t, <2>1, <3>1, ReclaimedStore
  <2>3. CASE FlushHob({j.name})
    <3>1. Returned
      BY <1>t, <2>3, FlushHobReturns
    <3> QED
      BY <1>t, <2>1, <3>1, ReclaimedStore
  <2>4. CASE Start(j)
    <3>1. pc' \in {"delete_old", "delete_cur", "mark", "space"}
      BY <1>t, <2>4, StartTypes
    <3>2. Mirrors'
      BY <2>1, <3>1 DEF Mirrors
    <3>3. Replaces'
      BY <1>t, <2>1, <2>4, StartedReplaces
    <3>4. Accounts' /\ dirty' = dirty
      BY <1>u, <2>1 DEF Accounts, sizes
    <3> QED
      BY <1>t, <1>u, <2>1, <3>2, <3>3, <3>4 DEF StoreInv
  <2> QED
    BY <1>3, <2>2, <2>3, <2>4 DEF SetVariable
<1>4. ASSUME NEW n \in Names, FlushNext(n) PROVE StoreInv'
  <2> DEFINE j == [name |-> n, value |-> hob[n]]
  <2>1. pc = "flush" /\ cache = flash /\ ~dirty /\ flushing /\ todo' = todo \ {n}
        /\ UNCHANGED <<flash, dirty, cache, sizes, flushing>>
    BY <1>4, <1>t, <1>u DEF FlushNext, TypeInv, Asked
  <2>2. j \in Jobs
    BY <1>t DEF Jobs, TypeInv, TypeOK
  <2>3. IF Unchanged(j) THEN hob' = [hob EXCEPT ![n] = NoValue] /\ Exit("flush")
                        ELSE Start(j) /\ UNCHANGED hob
    BY <1>4 DEF FlushNext
  <2> HIDE DEF j
  <2>4. CASE hob' = [hob EXCEPT ![n] = NoValue] /\ Exit("flush")
    <3>1. Returned
      BY <1>t, <2>1, <2>4 DEF Exit, Returned, HobType, TypeInv, TypeOK
    <3> QED
      BY <1>t, <2>1, <3>1, ReclaimedStore
  <2>5. CASE Start(j)
    <3>1. pc' \in {"delete_old", "delete_cur", "mark", "space"}
      BY <1>t, <2>2, <2>5, StartTypes
    <3>2. Mirrors'
      BY <2>1, <3>1 DEF Mirrors
    <3>3. Replaces'
      BY <1>t, <2>1, <2>2, <2>5, StartedReplaces
    <3>4. Accounts' /\ dirty' = dirty
      BY <1>u, <2>1 DEF Accounts, sizes
    <3> QED
      BY <1>t, <1>u, <2>1, <3>2, <3>3, <3>4 DEF StoreInv
  <2> QED
    BY <2>3, <2>4, <2>5
<1>5. CASE FlushEnd
  <2>1. pc = "flush" /\ UNCHANGED <<flash, dirty, cache, sizes>>
    BY <1>5 DEF FlushEnd
  <2>2. Returned
    BY <1>5, <1>t DEF FlushEnd, Exit, Returned, HobType, TypeInv, TypeOK
  <2> QED
    BY <1>t, <1>u, <2>1, <2>2, ReclaimedStore
<1>6. CASE StateFails
  <2>1. /\ pc \in {"delete_old", "delete_cur", "mark"} /\ Fail("device_error")
        /\ UNCHANGED <<flash, dirty, cache, sizes>>
    BY <1>6 DEF StateFails
  <2>2. Returned
    BY <1>t, <2>1, FailReturns DEF Statuses
  <2>3. cache = flash /\ ~dirty /\ pc # "off"
    BY <1>u, <2>1
  <2> QED
    BY <1>t, <2>1, <2>2, <2>3, ReclaimedStore
<1>7. ~EntryFails
  BY DEF EntryFails, EntriesWork
<1>8. CASE DeleteOld
  <2>1. pc = "delete_old" /\ WriteState(old, "deleted") /\ Goto("delete_cur")
    BY <1>8 DEF DeleteOld
  <2>2. /\ cache' = flash' /\ dirty' = FALSE /\ Accounts' /\ DOMAIN cache' = DOMAIN cache
        /\ \A k \in DOMAIN cache : k # old => cache'[k] = cache[k]
        /\ \A k \in DOMAIN cache : cache'[k].name = cache[k].name
        /\ old \in DOMAIN cache => cache'[old].state = "deleted"
    BY <1>s, <2>1, StateWritten
  <2>3. pc' = "delete_cur" /\ job' = job /\ cur' = cur /\ old' = old
    BY <2>1 DEF Goto, call
  <2>4. Mirrors'
    BY <2>2, <2>3 DEF Mirrors
  <2>5. Replaces'
    <3>1. /\ cur # 0 => Live(cache, job.name, cur)
          /\ old # 0 => old \in DOMAIN cache /\ cache[old].name = job.name /\ old # cur
          /\ job.value # NoValue =>
               \E i \in DOMAIN cache \ {cur, old} : cache[i] = Entry(job, "added")
      BY <2>1 DEF StoreInv, Replaces, Updating
    <3>2. cur # 0 => Live(cache', job.name, cur)
      <4> SUFFICES ASSUME cur # 0 PROVE Live(cache', job.name, cur)
        OBVIOUS
      <4>1. cur # old
        BY <3>1
      <4> QED
        BY <2>2, <3>1, <4>1 DEF Live
    <3>3. old # 0 => /\ old \in DOMAIN cache' /\ cache'[old].name = job.name
                     /\ Whole(cache', old) /\ old # cur
      BY <2>2, <3>1 DEF Whole
    <3>4. job.value # NoValue =>
            \E i \in DOMAIN cache' \ {cur, old} : cache'[i] = Entry(job, "added")
      BY <2>2, <3>1
    <3>5. Entry(job, "added")' = Entry(job, "added")
      BY <2>3
    <3> QED
      BY <2>3, <3>2, <3>3, <3>4 DEF Replaces, Live, Whole, Entry
  <2> QED
    BY <1>t, <2>2, <2>4, <2>5 DEF StoreInv
<1>9. CASE DeleteCurrent
  <2>1. pc = "delete_cur" /\ WriteState(cur, "deleted") /\ Succeed
    BY <1>9 DEF DeleteCurrent
  <2>2. cache' = flash' /\ dirty' = FALSE /\ Accounts'
    BY <1>s, <2>1, StateWritten
  <2>3. Returned
    BY <1>t, <1>u, <2>1, SucceedReturns DEF Updating
  <2> QED
    BY <1>t, <2>2, <2>3, ReturnedStore
<1>10. CASE MarkOld
  <2>1. pc = "mark" /\ WriteState(cur, "transition") /\ Goto("space")
    BY <1>10 DEF MarkOld
  <2>2. /\ cache' = flash' /\ dirty' = FALSE /\ Accounts' /\ DOMAIN cache' = DOMAIN cache
        /\ \A k \in DOMAIN cache : k # cur => cache'[k] = cache[k]
        /\ \A k \in DOMAIN cache : cache'[k].name = cache[k].name
        /\ cur \in DOMAIN cache => cache'[cur].state = "transition"
    BY <1>s, <2>1, StateWritten
  <2>3. pc' = "space" /\ job' = job /\ cur' = cur /\ old' = old
    BY <2>1 DEF Goto, call
  <2>4. Mirrors'
    BY <2>2, <2>3 DEF Mirrors
  <2>5. Replaces'
    <3>1. /\ cur # 0 => Live(cache, job.name, cur)
          /\ old # 0 => old \in DOMAIN cache /\ cache[old].name = job.name
                        /\ Whole(cache, old) /\ old # cur
      BY <2>1 DEF StoreInv, Replaces, Updating
    <3>2. cur # 0 => Live(cache', job.name, cur)
      BY <2>2, <3>1 DEF Live
    <3>3. old # 0 => /\ old \in DOMAIN cache' /\ cache'[old].name = job.name
                     /\ Whole(cache', old) /\ old # cur
      BY <2>2, <3>1 DEF Whole
    <3> QED
      BY <2>3, <3>2, <3>3 DEF Replaces, Live, Whole
  <2> QED
    BY <1>t, <2>2, <2>4, <2>5 DEF StoreInv
<1>11. CASE FindSpace
  <2>1. /\ pc = "space" /\ cache = flash /\ ~dirty
        /\ job \in Jobs /\ job.value # NoValue
    BY <1>11, <1>u DEF FindSpace, Updating
  <2>2. CASE Goto("header") /\ UNCHANGED <<flash, dirty, cache, sizes>>
    <3>1. pc' = "header" /\ job' = job /\ cur' = cur /\ old' = old /\ cache' = cache
      BY <2>2 DEF Goto, call
    <3>2. Accounts'
      BY <1>u, <2>1, <2>2 DEF Accounts, sizes
    <3>3. Mirrors'
      BY <2>1, <2>2, <3>1 DEF Mirrors
    <3>4. Replaces'
      BY <2>1, <3>1 DEF StoreInv, Replaces, Updating, Live, Whole
    <3> QED
      BY <1>t, <2>1, <2>2, <3>2, <3>3, <3>4 DEF StoreInv
  <2>3. CASE Fail("out_of_resources") /\ UNCHANGED <<flash, dirty, cache, sizes>>
    <3>1. Returned
      BY <1>t, <2>3, FailReturns DEF Statuses
    <3> QED
      BY <1>t, <2>1, <2>3, <3>1, ReclaimedStore
  <2>4. CASE ReclaimWith(job)
    <3> DEFINE new == Kept(flash) \o <<Entry(job, "added")>>
    <3>1. new \in Seq(Entries)
      BY <1>s, <1>t, <2>1, StoresTyped
    <3>2. \/ cache' = flash /\ Fail("out_of_resources") /\ UNCHANGED <<flash, dirty, sizes>>
          \/ ReclaimTo(new) /\ Succeed
          \/ ReclaimFails /\ Fail("device_error")
      BY <2>4 DEF ReclaimWith
    <3> HIDE DEF new
    <3>3. Returned
      BY <1>t, <2>1, <3>2, FailReturns, SucceedReturns DEF Statuses
    <3> QED
      BY <1>t, <2>1, <3>1, <3>2, <3>3, ReclaimedStore
  <2> QED
    BY <1>11, <2>2, <2>3, <2>4 DEF FindSpace
<1>12. CASE WriteHeader \/ WriteValid \/ WriteData
  <2>1. PICK label \in {"valid", "data", "added"} :
          Goto(label) /\ UNCHANGED <<cache, sizes, mode>>
    BY <1>12 DEF WriteHeader, WriteValid, WriteData
  <2>2. pc' = label /\ job' = job /\ cur' = cur /\ old' = old /\ cache' = cache
    BY <2>1 DEF Goto, call
  <2>3. pc \in {"header", "valid", "data"} /\ pc # "off" /\ ~dirty
    BY <1>12, <1>u DEF WriteHeader, WriteValid, WriteData
  <2>4. Accounts'
    BY <1>u, <2>1, <2>3 DEF Accounts, sizes
  <2>5. Replaces'
    <3>1. /\ cur # 0 => Live(cache, job.name, cur)
          /\ old # 0 => /\ old \in DOMAIN cache /\ cache[old].name = job.name
                        /\ Whole(cache, old) /\ old # cur
      BY <2>3 DEF StoreInv, Replaces, Updating
    <3> QED
      BY <2>1, <2>2, <3>1 DEF Replaces, Live, Whole
  <2>6. Mirrors' /\ dirty' = FALSE
    <3>1. CASE WriteHeader
      <4>1. flash' = Append(cache, Entry(job, "header")) /\ dirty' = FALSE
        BY <3>1, EntryWritten DEF WriteHeader
      <4>2. pc' = "valid"
        BY <3>1 DEF WriteHeader, Goto
      <4> QED
        BY <2>2, <4>1, <4>2 DEF Mirrors, Entry
    <3>2. CASE WriteValid
      <4>1. flash' = Append(cache, Entry(job, "valid")) /\ dirty' = dirty
        BY <3>2, EntryWritten DEF WriteValid
      <4>2. pc' = "data"
        BY <3>2 DEF WriteValid, Goto
      <4> QED
        BY <1>u, <2>2, <2>3, <4>1, <4>2 DEF Mirrors, Entry
    <3>3. CASE WriteData
      <4>1. flash = Append(cache, Entry(job, "valid"))
        BY <3>3 DEF StoreInv, Mirrors, WriteData
      <4>2. pc' = "added" /\ flash' = flash /\ dirty' = FALSE
        BY <3>3, EntryWritten DEF WriteData, DataWritten, Goto
      <4> QED
        BY <1>u, <2>2, <2>3, <4>1, <4>2 DEF Mirrors, Entry
    <3> QED
      BY <1>12, <3>1, <3>2, <3>3
  <2> QED
    BY <1>t, <2>4, <2>5, <2>6 DEF StoreInv
<1>13. CASE WriteAdded
  <2> DEFINE e == Entry(job, "added")
  <2>1. /\ pc = "added" /\ job \in Jobs /\ job.value # NoValue
        /\ Raise("added") /\ cache' = Append(cache, e)
        /\ CountAdded /\ Replace /\ dirty' = FALSE
    BY <1>13, <1>u, EntryWritten DEF WriteAdded, Updating
  <2>2. /\ e \in Entries /\ VarSize(job) \in Nat /\ SizeOf(e) = VarSize(job)
        /\ IsHwErr(e) <=> job.name \in HwNames
    BY <1>s, <2>1, NewEntry
  <2>3. flash' = Append(cache, e)
    BY <2>1, EntryWritten
  <2> HIDE DEF e
  <2>4. Accounts'
    <3>1. /\ offset = Total(cache) /\ hwTotal = HwTotal(cache) /\ commonTotal = CommonTotal(cache)
          /\ HwTotal(cache) \in Nat /\ CommonTotal(cache) \in Nat
      BY <1>u, <2>1, TotalNumber DEF Accounts
    <3>2. /\ Total(cache') = Total(cache) + SizeOf(e)
          /\ HwTotal(cache') = HwTotal(cache) + (IF IsHwErr(e) THEN SizeOf(e) ELSE 0)
          /\ CommonTotal(cache') = CommonTotal(cache) + (IF IsHwErr(e) THEN 0 ELSE SizeOf(e))
      BY <1>u, <2>1, <2>2, TotalAppend
    <3>3. CASE job.name \in HwNames
      BY <2>1, <2>2, <3>1, <3>2, <3>3 DEF CountAdded, Accounts
    <3>4. CASE job.name \notin HwNames
      BY <2>1, <2>2, <3>1, <3>2, <3>4 DEF CountAdded, Accounts
    <3> QED
      BY <3>3, <3>4
  <2>5. CASE Succeed
    <3>1. Returned
      BY <1>t, <2>1, <2>5, SucceedReturns
    <3> QED
      BY <1>t, <2>1, <2>3, <2>4, <3>1, ReturnedStore
  <2>6. CASE ~Succeed
    <3>1. PICK label \in {"delete_cur", "delete_old"} : Goto(label)
      BY <2>1, <2>6 DEF Replace
    <3>2. pc' = label /\ job' = job /\ cur' = cur /\ old' = old
      BY <3>1 DEF Goto, call
    <3>3. Mirrors'
      BY <2>1, <2>3, <3>1, <3>2 DEF Mirrors
    <3>4. Replaces'
      <4>1. /\ cur # 0 => Live(cache, job.name, cur)
            /\ old # 0 => /\ old \in DOMAIN cache /\ cache[old].name = job.name
                          /\ Whole(cache, old) /\ old # cur
        BY <2>1 DEF StoreInv, Replaces, Updating
      <4>2. /\ cur \in 0 .. Len(cache) /\ old \in 0 .. Len(cache) /\ Len(cache) \in Nat
        BY <1>t, <1>u DEF TypeInv, TypeOK
      <4>3. /\ \A k \in DOMAIN cache : k \in DOMAIN cache' /\ cache'[k] = cache[k]
            /\ Len(cache) + 1 \in DOMAIN cache' /\ cache'[Len(cache) + 1] = e
        BY <1>u, <2>1, <2>2
      <4>4. Len(cache) + 1 \in DOMAIN cache' \ {cur, old}
        BY <4>2, <4>3
      <4>5. cur # 0 => Live(cache', job.name, cur)
        BY <4>1, <4>3 DEF Live
      <4>6. old # 0 => /\ old \in DOMAIN cache' /\ cache'[old].name = job.name
                       /\ Whole(cache', old) /\ old # cur
        BY <4>1, <4>3 DEF Whole
      <4>7. e = Entry(job', "added")
        BY <3>2 DEF e
      <4> QED
        BY <3>2, <4>3, <4>4, <4>5, <4>6, <4>7 DEF Replaces, Live, Whole, Entry
    <3> QED
      BY <1>t, <2>1, <2>4, <3>3, <3>4 DEF StoreInv
  <2> QED
    BY <2>5, <2>6
<1>14. CASE ReadyToBoot \/ ExitBootServices
  <2>1. /\ pc = "idle" /\ cur = 0 /\ old = 0 /\ UNCHANGED <<hobs, pc, call>>
        /\ \/ UNCHANGED <<flash, dirty, cache, sizes>>
           \/ ReclaimTo(Kept(flash)) \/ ReclaimFails
    BY <1>14, <1>u DEF ReadyToBoot, ExitBootServices, Updating
  <2>2. Returned
    BY <1>t, <2>1 DEF Returned, hobs, call, HobType, Asked, Updating, TypeInv, TypeOK
  <2>3. Kept(flash) \in Seq(Entries)
    BY <1>t, StoresTyped
  <2>4. cache = flash /\ ~dirty
    BY <1>u, <2>1
  <2> QED
    BY <1>t, <2>1, <2>2, <2>3, <2>4, ReclaimedStore
<1>15. CASE PowerLoss
  <2>1. pc' = "off"
    BY <1>15 DEF PowerLoss, Exit
  <2>2. Mirrors' /\ Replaces'
    BY <2>1 DEF Mirrors, Replaces, Updating
  <2> QED
    BY <1>t, <2>1, <2>2 DEF StoreInv
<1> QED
  BY <1>1, <1>2, <1>3, <1>4, <1>5, <1>6, <1>7, <1>8, <1>9, <1>10, <1>11, <1>12, <1>13,
     <1>14, <1>15
  DEF Next, Flush, UpdateVariable

\* Where no write of a new entry fails, and no repair, this is an invariant.
THEOREM StoreInvariant ==
  ASSUME EntriesWork
  PROVE  Spec => []StoreInv
<1>1. Init => StoreInv
  <2> SUFFICES ASSUME Init PROVE StoreInv
    OBVIOUS
  <2>1. TypeInv
    BY TypeInit
  <2>2. pc = "off"
    BY DEF Init
  <2>3. Mirrors /\ Replaces
    BY <2>2 DEF Mirrors, Replaces, Updating
  <2> QED
    BY <2>1, <2>2, <2>3 DEF StoreInv
<1>2. StoreInv /\ [Next]_vars => StoreInv'
  <2> SUFFICES ASSUME StoreInv, [Next]_vars PROVE StoreInv'
    OBVIOUS
  <2>1. CASE Next
    BY <2>1, StoreStep
  <2>2. CASE UNCHANGED vars
    <3>1. TypeInv'
      BY <2>2 DEF vars, sizes, hobs, mode, call, TypeInv, TypeOK, Asked, StoreInv
    <3>2. Accounts' <=> Accounts
      BY <2>2 DEF vars, sizes, Accounts
    <3>3. Mirrors' /\ Replaces'
      BY <2>2 DEF vars, call, StoreInv, Mirrors, Replaces, Entry, Live, Whole
    <3> QED
      BY <2>2, <3>1, <3>2, <3>3 DEF vars, StoreInv
  <2> QED
    BY <2>1, <2>2
<1> QED
  BY <1>1, <1>2, PTL DEF Spec

\* The offset and the totals that UpdateVariable keeps up to date are those of a
\* walk over the store, for any sequence of updates, reclaims that work or fail,
\* full stores and power losses.
THEOREM AccountedHolds ==
  ASSUME EntriesWork
  PROVE  Spec => []Accounted
<1>1. Spec => []StoreInv
  BY StoreInvariant
<1>2. StoreInv => Accounted
  BY DEF StoreInv, Accounts, Accounted
<1> QED
  BY <1>1, <1>2, PTL

\* Between two calls the memory copy is the flash, so that what GetVariable
\* returns is what the next boot finds.
THEOREM InSyncHolds ==
  ASSUME EntriesWork
  PROVE  Spec => []InSync
<1>1. Spec => []StoreInv
  BY StoreInvariant
<1>2. StoreInv => InSync
  BY DEF StoreInv, Mirrors, InSync
<1> QED
  BY <1>1, <1>2, PTL

-----------------------------------------------------------------------------
(*************************** Variables are kept ****************************)

\* After a reclaim a variable has an entry, unless it is the one that was
\* replaced and nothing was put in its place.
LEMMA ReclaimKeeps ==
  ASSUME StoreInv, NEW n, NEW i, Live(flash, n, i), pc \notin {"off", "valid", "data", "added"},
         pc \in Updating => job.name # n
  PROVE  \E k : Live(Kept(flash), n, k)
<1>1. flash \in Seq(Entries) /\ cache = flash /\ i \in DOMAIN flash /\ i # 0
  BY DEF StoreInv, TypeInv, TypeOK, Mirrors, Live
<1>2. i \notin {cur, old}
  <2>1. CASE pc \in Updating
    BY <1>1, <2>1 DEF StoreInv, Replaces, Live
  <2>2. CASE pc \notin Updating
    BY <1>1, <2>2 DEF StoreInv, TypeInv
  <2> QED
    BY <2>1, <2>2
<1> QED
  BY <1>1, <1>2, KeptEntries

\* A step that leaves no entry of a variable is a step of its deletion.
LEMMA LossStep ==
  ASSUME EntriesWork, StoreInv, Next, NEW n, NEW i, Live(flash, n, i),
         \A k : ~Live(flash', n, k)
  PROVE  job # NoRequest /\ job.name = n /\ job.value = NoValue
<1>t. TypeInv /\ TypeInv'
  BY TypeStep DEF StoreInv
<1>u. /\ flash \in Seq(Entries) /\ cache \in Seq(Entries) /\ flash' \in Seq(Entries)
      /\ pc \notin {"off", "valid", "data", "added"} => cache = flash
      /\ pc \in Updating \ {"delete_old", "delete_cur"} => (job \in Jobs /\ job.value # NoValue)
      /\ pc \in Updating => job \in Jobs
  BY <1>t DEF StoreInv, Mirrors, TypeInv, TypeOK
<1>s. "header" \in States /\ "valid" \in States /\ "added" \in States /\ "torn" \in States
      /\ "transition" \in States \ {"torn", "header"} /\ "deleted" \in States \ {"torn", "header"}
  BY DEF States
<1>j. \A j \in Jobs : j # NoRequest
  BY ConstantsAssumption DEF Jobs
<1>i. i \in DOMAIN flash /\ i # 0 /\ flash[i].name = n
      /\ flash[i].state \in {"added", "transition"}
  BY <1>u DEF Live
<1>1. flash' # flash
  <2> SUFFICES ASSUME flash' = flash PROVE FALSE
    OBVIOUS
  <2> QED
    OBVIOUS
<1>2. CASE WriteServiceInitialize \/ ReadyToBoot
  <2>1. pc \in {"write_service", "idle"} /\ flash' = Kept(flash)
    BY <1>1, <1>2 DEF WriteServiceInitialize, ReadyToBoot, ReclaimTo, ReclaimFails
  <2>2. \E k : Live(Kept(flash), n, k)
    BY <2>1, ReclaimKeeps DEF Updating
  <2> QED
    BY <2>1, <2>2
<1>3. CASE DeleteOld \/ DeleteCurrent
  <2>1. PICK x \in {cur, old} : WriteState(x, "deleted")
    BY <1>3 DEF DeleteOld, DeleteCurrent
  <2>2. pc \in {"delete_old", "delete_cur"} /\ job \in Jobs /\ cache = flash
    BY <1>3, <1>u DEF DeleteOld, DeleteCurrent, Updating
  <2>3. /\ cache' = flash' /\ DOMAIN flash' = DOMAIN flash
        /\ \A k \in DOMAIN flash : k # x => flash'[k] = flash[k]
        /\ x # 0 => flash[x].name = job.name
    BY <1>s, <2>1, <2>2, StateWritten
  <2>4. i = x
    BY <1>i, <2>3 DEF Live
  <2>5. job.name = n
    BY <1>i, <2>3, <2>4
  <2>6. job.value = NoValue
    <3> SUFFICES ASSUME job.value # NoValue PROVE FALSE
      OBVIOUS
    <3>1. PICK k \in DOMAIN cache \ {cur, old} : cache[k] = Entry(job, "added")
      BY <2>2 DEF StoreInv, Replaces, Updating
    <3>2. flash'[k] = Entry(job, "added") /\ k \in DOMAIN flash'
      BY <2>2, <2>3, <3>1
    <3>3. Entry(job, "added").name = n /\ Entry(job, "added").state = "added"
      BY <2>5 DEF Entry
    <3> QED
      BY <3>2, <3>3 DEF Live
  <2> QED
    BY <1>j, <2>2, <2>5, <2>6
<1>4. CASE MarkOld
  <2>1. pc = "mark" /\ WriteState(cur, "transition") /\ cache = flash
    BY <1>4, <1>u DEF MarkOld
  <2>2. /\ cache' = flash' /\ DOMAIN flash' = DOMAIN flash
        /\ \A k \in DOMAIN flash : k # cur => flash'[k] = flash[k]
        /\ \A k \in DOMAIN flash : flash'[k].name = flash[k].name
        /\ cur \in DOMAIN flash => flash'[cur].state = "transition"
    BY <1>s, <2>1, StateWritten
  <2> QED
    BY <1>i, <2>2 DEF Live
<1>5. CASE FindSpace
  <2>1. pc = "space" /\ job \in Jobs /\ job.value # NoValue
    BY <1>5, <1>u DEF FindSpace, Updating
  <2>2. flash' = Kept(flash) \o <<Entry(job, "added")>>
    BY <1>1, <1>5 DEF FindSpace, ReclaimWith, ReclaimTo, ReclaimFails
  <2>3. Kept(flash) \in Seq(Entries) /\ Entry(job, "added") \in Entries
    BY <1>s, <1>t, <2>1, StoresTyped, NewEntry
  <2>4. /\ \A k \in DOMAIN Kept(flash) : k \in DOMAIN flash' /\ flash'[k] = Kept(flash)[k]
        /\ Len(Kept(flash)) + 1 \in DOMAIN flash'
        /\ flash'[Len(Kept(flash)) + 1] = Entry(job, "added")
    BY <2>2, <2>3
  <2>5. CASE job.name = n
    <3>1. Entry(job, "added").name = n /\ Entry(job, "added").state = "added"
      BY <2>5 DEF Entry
    <3> QED
      BY <2>4, <3>1 DEF Live
  <2>6. CASE job.name # n
    <3>1. \E k : Live(Kept(flash), n, k)
      BY <2>1, <2>6, ReclaimKeeps
    <3> QED
      BY <2>4, <3>1 DEF Live
  <2> QED
    BY <2>5, <2>6
<1>6. CASE WriteHeader
  <2>1. pc = "header" /\ job \in Jobs /\ job.value # NoValue /\ cache = flash
        /\ flash' = Append(flash, Entry(job, "header"))
    BY <1>6, <1>u, EntryWritten DEF WriteHeader, Updating
  <2>2. Entry(job, "header") \in Entries
    BY <1>s, <2>1, NewEntry
  <2>3. i \in DOMAIN flash' /\ flash'[i] = flash[i]
    BY <1>i, <1>u, <2>1, <2>2
  <2> QED
    BY <1>i, <2>3 DEF Live
<1>7. CASE WriteValid \/ WriteAdded
  <2>1. PICK a \in {"header", "valid"}, b \in {"valid", "added"} :
          flash = Append(cache, Entry(job, a)) /\ flash' = Append(cache, Entry(job, b))
    <3>1. CASE WriteValid
      BY <3>1, EntryWritten DEF WriteValid, StoreInv, Mirrors
    <3>2. CASE WriteAdded
      BY <3>2, EntryWritten DEF WriteAdded, StoreInv, Mirrors
    <3> QED
      BY <1>7, <3>1, <3>2
  <2>2. job \in Jobs /\ job.value # NoValue
    BY <1>7, <1>u DEF WriteValid, WriteAdded, Updating
  <2>3. Entry(job, a) \in Entries /\ Entry(job, b) \in Entries
        /\ Entry(job, a).state \notin {"added", "transition"}
    BY <1>s, <2>2, NewEntry
  <2>4. /\ DOMAIN flash = DOMAIN flash' /\ flash[Len(cache) + 1] = Entry(job, a)
        /\ \A k \in DOMAIN flash : k = Len(cache) + 1 \/ flash'[k] = flash[k]
    BY <1>u, <2>1, <2>3
  <2>5. i # Len(cache) + 1
    BY <1>i, <2>3, <2>4
  <2> QED
    BY <1>i, <2>4, <2>5 DEF Live
<1>8. CASE PowerLoss
  <2>1. pc = "header" /\ flash' = Append(flash, Entry(job, "torn"))
    BY <1>1, <1>8, EntryWritten DEF PowerLoss
  <2>2. job \in Jobs /\ job.value # NoValue
    BY <1>u, <2>1 DEF Updating
  <2>3. Entry(job, "torn") \in Entries
    BY <1>s, <2>2, NewEntry
  <2>4. i \in DOMAIN flash' /\ flash'[i] = flash[i]
    BY <1>i, <1>u, <2>1, <2>3
  <2> QED
    BY <1>i, <2>4 DEF Live
<1>9. ~EntryFails
  BY DEF EntryFails, EntriesWork
<1>10. CASE PowerOn \/ (\E j \in Jobs : SetVariable(j)) \/ Flush \/ StateFails
            \/ WriteData \/ ExitBootServices
  <2>1. flash' = flash
    BY <1>10 DEF PowerOn, SetVariable, Flush, FlushNext, FlushEnd, StateFails, WriteData,
                 DataWritten, ExitBootServices
  <2> QED
    BY <1>1, <2>1
<1> QED
  BY <1>2, <1>3, <1>4, <1>5, <1>6, <1>7, <1>8, <1>9, <1>10 DEF Next, UpdateVariable

\* No variable in flash is lost, between any two flash operations of updates,
\* of reclaims and of the recovery from power losses, but by its deletion.
THEOREM NeverLostHolds ==
  ASSUME EntriesWork
  PROVE  Spec => NeverLost
<1> DEFINE Lost(n) == Read(flash, n) # NoValue /\ Read(flash, n)' = NoValue
           Deleted(n) == job # NoRequest /\ job.name = n /\ job.value = NoValue
<1>1. Spec => []StoreInv
  BY StoreInvariant
<1>2. StoreInv /\ [Next]_vars => [\A n \in Names : Lost(n) => Deleted(n)]_vars
  <2> SUFFICES ASSUME StoreInv, Next, NEW n \in Names, Lost(n) PROVE Deleted(n)
    OBVIOUS
  <2>1. flash \in Seq(Entries) /\ flash' \in Seq(Entries)
    BY TypeStep DEF StoreInv, TypeInv, TypeOK
  <2>2. PICK i : Live(flash, n, i)
    BY <2>1, ReadLive
  <2>3. Read(flash', n) = NoValue
    OBVIOUS
  <2>4. \A k : ~Live(flash', n, k)
    BY <2>1, <2>3, ReadLive
  <2> QED
    BY <2>2, <2>4, LossStep
<1> QED
  BY <1>1, <1>2, PTL DEF Spec, NeverLost

\* What FlushHobVariableToFlash takes out of the HOB at once.
LEMMA FlushHobTakes ==
  ASSUME TypeInv, NEW skip, FlushHob(skip), NEW n \in Names, hob[n] # NoValue,
         hob'[n] = NoValue
  PROVE  n \in skip
BY DEF FlushHob

\* What the end of an update takes out: its variable, which the caller has set
\* or which the HOB holds with the same value.
LEMMA SucceedTakes ==
  ASSUME TypeInv, pc \in Updating, Succeed, NEW n \in Names, hob[n] # NoValue,
         hob'[n] = NoValue
  PROVE  /\ job.name = n
         /\ flushing => job.value = hob[n]
         /\ ~flushing => request' # NoRequest /\ request'.name = n /\ status' = "success"
<1>1. job \in Jobs /\ hob \in HobType /\ job # NoRequest
  BY ConstantsAssumption DEF TypeInv, TypeOK, HobType, Jobs
<1>2. CASE flushing
  <2>1. hob' = [hob EXCEPT ![job.name] = NoValue] /\ job.value = hob[job.name]
    BY <1>2 DEF Succeed, TypeInv, Asked
  <2>2. job.name = n
    BY <1>1, <2>1 DEF HobType
  <2> QED
    BY <1>2, <2>1, <2>2
<1>3. CASE ~flushing
  <2>1. FlushHob({job.name}) /\ status' = "success" /\ request' = request /\ job = request
    BY <1>3 DEF Succeed, TypeInv, Asked
  <2>2. n \in {job.name}
    BY <2>1, FlushHobTakes
  <2> QED
    BY <1>1, <1>3, <2>1, <2>2
<1> QED
  BY <1>2, <1>3

\* A variable of the HOB that is in flash.
InFlash(n) ==
  \E i \in DOMAIN flash' : /\ flash'[i].name = n /\ flash'[i].value = hob[n]
                           /\ flash'[i].state \in {"added", "transition"}

SetByCaller(n) == request' # NoRequest /\ request'.name = n /\ status' = "success"

\* A step that takes a variable out of the HOB finds it in flash, or is the end
\* of a call for it.
LEMMA HobStep ==
  ASSUME EntriesWork, StoreInv, Next, NEW n \in Names, hob[n] # NoValue,
         hob'[n] = NoValue, phase' # "off"
  PROVE  InFlash(n) \/ SetByCaller(n)
<1>t. TypeInv /\ TypeInv'
  BY TypeStep DEF StoreInv
<1>u. /\ flash \in Seq(Entries) /\ cache \in Seq(Entries) /\ flash' \in Seq(Entries)
      /\ pc \notin {"off", "valid", "data", "added"} => cache = flash
      /\ pc \in Updating \ {"delete_old", "delete_cur"} => (job \in Jobs /\ job.value # NoValue)
      /\ pc \in Updating => job \in Jobs
      /\ hob \in HobType
  BY <1>t DEF StoreInv, Mirrors, TypeInv, TypeOK, HobType
<1>s. "added" \in States /\ "deleted" \in States \ {"torn", "header"}
  BY DEF States
<1>e. /\ Entry(job, "added").name = job.name /\ Entry(job, "added").value = job.value
      /\ Entry(job, "added").state = "added"
  BY DEF Entry
\* The end of an update that leaves its new entry in flash.
<1>q. ASSUME pc \in Updating, Succeed, \E k \in DOMAIN flash' : flash'[k] = Entry(job, "added")
      PROVE  InFlash(n) \/ SetByCaller(n)
  <2>1. /\ job.name = n
        /\ flushing => job.value = hob[n]
        /\ ~flushing => SetByCaller(n)
    BY <1>t, <1>q, SucceedTakes DEF SetByCaller
  <2>2. flushing => InFlash(n)
    BY <1>e, <1>q, <2>1 DEF InFlash
  <2> QED
    BY <2>1, <2>2
<1>1. hob' # hob
  OBVIOUS
<1>2. ASSUME NEW j \in Jobs, SetVariable(j) PROVE InFlash(n) \/ SetByCaller(n)
  <2>1. FlushHob({j.name}) /\ request' = j /\ status' = "success"
    BY <1>1, <1>2 DEF SetVariable, hobs
  <2>2. n \in {j.name}
    BY <1>t, <2>1, FlushHobTakes
  <2>3. j # NoRequest
    BY ConstantsAssumption DEF Jobs
  <2> QED
    BY <2>1, <2>2, <2>3 DEF SetByCaller
<1>3. ASSUME NEW m \in Names, FlushNext(m) PROVE InFlash(n) \/ SetByCaller(n)
  <2> DEFINE j == [name |-> m, value |-> hob[m]]
  <2>1. /\ pc = "flush" /\ cache = flash /\ flash' = flash
        /\ Unchanged(j) /\ hob' = [hob EXCEPT ![m] = NoValue]
    BY <1>1, <1>3, <1>u DEF FlushNext
  <2>2. n = m /\ j.name = n /\ j.value = hob[n]
    BY <1>u, <2>1 DEF HobType
  <2>3. Read(flash, n) = hob[n]
    BY <2>1, <2>2 DEF Unchanged
  <2>4. Live(flash, n, Current(flash, n)) /\ flash[Current(flash, n)].value = hob[n]
    BY <1>u, <2>3, ReadLive
  <2> QED
    BY <2>1, <2>4 DEF InFlash, Live
<1>4. CASE DeleteCurrent
  <2>1. pc = "delete_cur" /\ WriteState(cur, "deleted") /\ Succeed /\ cache = flash
        /\ pc \in Updating
    BY <1>4, <1>u DEF DeleteCurrent, Updating
  <2>2. CASE job.value # NoValue
    <3>1. PICK k \in DOMAIN cache \ {cur, old} : cache[k] = Entry(job, "added")
      BY <2>1, <2>2 DEF StoreInv, Replaces
    <3>2. cache' = flash' /\ DOMAIN cache' = DOMAIN cache /\ cache'[k] = cache[k]
      BY <1>s, <2>1, <3>1, StateWritten
    <3> QED
      BY <1>q, <2>1, <3>1, <3>2
  <2>3. CASE job.value = NoValue
    BY <1>t, <2>1, <2>3, SucceedTakes DEF SetByCaller
  <2> QED
    BY <2>2, <2>3
<1>5. CASE FindSpace
  <2> DEFINE new == Kept(flash) \o <<Entry(job, "added")>>
  <2>1. pc = "space" /\ pc \in Updating /\ job \in Jobs /\ job.value # NoValue
    BY <1>5, <1>u DEF FindSpace, Updating
  <2>2. Succeed /\ flash' = new
    <3>1. \A error : ~Fail(error)
      BY <1>1 DEF Fail, hobs
    <3>2. ~Goto("header")
      BY <1>1 DEF Goto, hobs
    <3> QED
      BY <1>5, <3>1, <3>2 DEF FindSpace, ReclaimWith, ReclaimTo
  <2>3. Kept(flash) \in Seq(Entries) /\ Entry(job, "added") \in Entries
    BY <1>s, <1>t, <2>1, StoresTyped, NewEntry
  <2>4. Len(Kept(flash)) + 1 \in DOMAIN flash'
        /\ flash'[Len(Kept(flash)) + 1] = Entry(job, "added")
    BY <2>2, <2>3
  <2> QED
    BY <1>q, <2>1, <2>2, <2>4
<1>6. CASE WriteAdded
  <2>1. pc = "added" /\ pc \in Updating /\ job \in Jobs /\ job.value # NoValue
        /\ flash' = Append(cache, Entry(job, "added"))
    BY <1>6, <1>u, EntryWritten DEF WriteAdded, Updating
  <2>2. Succeed
    BY <1>1, <1>6 DEF WriteAdded, Replace, Goto, hobs
  <2>3. Entry(job, "added") \in Entries
    BY <1>s, <2>1, NewEntry
  <2>4. Len(cache) + 1 \in DOMAIN flash' /\ flash'[Len(cache) + 1] = Entry(job, "added")
    BY <1>u, <2>1, <2>3
  <2> QED
    BY <1>q, <2>1, <2>2, <2>4
<1>7. ~PowerOn
  BY <1>t DEF PowerOn, TypeInv, Asked
<1>8. ~WriteServiceInitialize
  <2> SUFFICES ASSUME WriteServiceInitialize PROVE FALSE
    OBVIOUS
  <2>1. FlushHob({})
    BY <1>1 DEF WriteServiceInitialize, hobs
  <2> QED
    BY <1>t, <2>1, FlushHobTakes
<1>9. ~PowerLoss
  BY DEF PowerLoss
<1>10. ~(FlushEnd \/ StateFails \/ EntryFails \/ DeleteOld \/ MarkOld \/ WriteHeader
         \/ WriteValid \/ WriteData \/ ReadyToBoot \/ ExitBootServices)
  BY <1>1 DEF FlushEnd, StateFails, EntryFails, Fail, DeleteOld, MarkOld, WriteHeader, WriteValid,
              WriteData, Goto, ReadyToBoot, ExitBootServices, hobs
<1> QED
  BY <1>2, <1>3, <1>4, <1>5, <1>6, <1>7, <1>8, <1>9, <1>10 DEF Next, Flush, UpdateVariable

\* A variable that PEI left in the HOB goes out of it only when it is in flash,
\* or when the caller has set or deleted it, whichever of the HOB's variables
\* could not be flushed.
THEOREM HobKeptHolds ==
  ASSUME EntriesWork
  PROVE  Spec => HobKept
<1>1. Spec => []StoreInv
  BY StoreInvariant
<1>2. StoreInv /\ [Next]_vars =>
        [\A n \in Names :
           hob[n] # NoValue /\ hob'[n] = NoValue /\ phase' # "off" =>
             \/ \E i \in DOMAIN flash' :
                  /\ flash'[i].name = n /\ flash'[i].value = hob[n]
                  /\ flash'[i].state \in {"added", "transition"}
             \/ request' # NoRequest /\ request'.name = n /\ status' = "success"]_vars
  <2> SUFFICES ASSUME StoreInv, Next, NEW n \in Names, hob[n] # NoValue, hob'[n] = NoValue,
                      phase' # "off"
               PROVE  InFlash(n) \/ SetByCaller(n)
    BY Zenon DEF InFlash, SetByCaller
  <2> QED
    BY HobStep
<1> QED
  BY <1>1, <1>2, PTL DEF Spec, HobKept

-----------------------------------------------------------------------------
(*************************** What a reclaim takes **************************)

\* The sizes of the common variables.
CommonSizes(s) == [i \in DOMAIN s |-> IF IsHwErr(s[i]) THEN 0 ELSE SizeOf(s[i])]

\* Their total is a sum as well.
LEMMA CommonSum ==
  ASSUME NEW s \in Seq(Entries)
  PROVE  /\ CommonSizes(s) \in Seq(Nat) /\ Len(CommonSizes(s)) = Len(s)
         /\ CommonTotal(s) = SumOf(CommonSizes(s))
<1>1. /\ Sizes(s) \in Seq(Nat) /\ HwSizes(s) \in Seq(Nat)
      /\ Len(Sizes(s)) = Len(s) /\ Len(HwSizes(s)) = Len(s)
  BY SizesType
<1>2. \A i \in 1 .. Len(s) : SizeOf(s[i]) \in Nat
  BY EntrySize
<1>3. CommonSizes(s) \in Seq(Nat) /\ Len(CommonSizes(s)) = Len(s)
  <2>1. CommonSizes(s) \in [1 .. Len(s) -> Nat]
    BY <1>2 DEF CommonSizes
  <2> QED
    BY <2>1
<1>4. \A i \in 1 .. Len(s) : Sizes(s)[i] = HwSizes(s)[i] + CommonSizes(s)[i]
  BY <1>2 DEF Sizes, HwSizes, CommonSizes
<1>5. SumOf(Sizes(s)) = SumOf(HwSizes(s)) + SumOf(CommonSizes(s))
  BY <1>1, <1>3, <1>4, SumPlus
<1>6. Total(s) = SumOf(Sizes(s)) /\ HwTotal(s) = SumOf(HwSizes(s))
  BY DEF Total, HwTotal, Sizes, HwSizes
<1>7. SumOf(HwSizes(s)) \in Nat /\ SumOf(CommonSizes(s)) \in Nat
  BY <1>1, <1>3, SumNumber
<1> QED
  BY <1>3, <1>5, <1>6, <1>7 DEF CommonTotal

\* The entries that are put back, one for each of the chosen indices.
LEMMA ReinstalledNth ==
  ASSUME NEW s \in Seq(Entries), NEW S, S \subseteq DOMAIN s
  PROVE  /\ Reinstall(s, S) \in Seq(Entries) /\ Cardinality(S) \in Nat
         /\ Len(Reinstall(s, S)) = Cardinality(S)
         /\ \A k \in 1 .. Cardinality(S) :
              /\ Nth(S, k) \in S
              /\ Reinstall(s, S)[k] = [s[Nth(S, k)] EXCEPT !.state = "added"]
         /\ \A k, l \in 1 .. Cardinality(S) : k < l => Nth(S, k) < Nth(S, l)
<1>1. /\ Subsequence(s, S) \in Seq(Entries)
      /\ Len(Subsequence(s, S)) = Cardinality(S)
      /\ DOMAIN Subsequence(s, S) = 1 .. Cardinality(S)
      /\ \A k \in 1 .. Cardinality(S) : /\ Nth(S, k) \in S
                                        /\ Subsequence(s, S)[k] = s[Nth(S, k)]
      /\ \A k, l \in 1 .. Cardinality(S) : k < l => Nth(S, k) < Nth(S, l)
  BY SubsequenceElements
<1>2. Reinstall(s, S) \in Seq(Entries)
  BY Reinstalled
<1>3. Cardinality(S) \in Nat
  <2>1. Len(Subsequence(s, S)) \in Nat
    BY <1>1
  <2> QED
    BY <1>1, <2>1
<1>4. /\ DOMAIN Reinstall(s, S) = 1 .. Cardinality(S)
      /\ \A k \in 1 .. Cardinality(S) :
           Reinstall(s, S)[k] = [Subsequence(s, S)[k] EXCEPT !.state = "added"]
  BY <1>1 DEF Reinstall
<1>5. Len(Reinstall(s, S)) = Cardinality(S)
  BY <1>2, <1>3, <1>4
<1> QED
  BY <1>1, <1>2, <1>3, <1>4, <1>5

\* An entry that is put back comes from one entry of its own.
LEMMA KeptFrom ==
  ASSUME NEW s \in Seq(Entries)
  PROVE  \E p \in [1 .. Len(Kept(s)) -> 1 .. Len(s)] :
           /\ \A k, l \in 1 .. Len(Kept(s)) : p[k] = p[l] => k = l
           /\ \A k \in 1 .. Len(Kept(s)) :
                /\ Kept(s)[k] = [s[p[k]] EXCEPT !.state = "added"]
                /\ s[p[k]].state \in {"added", "transition"}
<1> DEFINE A == {i \in DOMAIN s \ {cur} : s[i].state = "added"}
           D == {i \in DOMAIN s \ {cur, old} : s[i].state = "transition"}
           P == {i \in D : \A j \in A \cup D : s[j].name = s[i].name => j >= i /\ j \notin A}
           a == Cardinality(A)
           b == Cardinality(P)
<1>1. /\ A \subseteq DOMAIN s /\ P \subseteq DOMAIN s /\ A \cap P = {}
      /\ \A i \in A \cup P : s[i].state \in {"added", "transition"}
  OBVIOUS
<1>2. Kept(s) = Reinstall(s, A) \o Reinstall(s, P)
  BY DEF Kept
<1> HIDE DEF A, D, P
<1> DEFINE ra == Reinstall(s, A)
           rp == Reinstall(s, P)
           p == [k \in 1 .. Len(Kept(s)) |-> IF k <= a THEN Nth(A, k) ELSE Nth(P, k - a)]
<1>4. /\ ra \in Seq(Entries) /\ a \in Nat /\ Len(ra) = a
      /\ \A k \in 1 .. a : Nth(A, k) \in A /\ ra[k] = [s[Nth(A, k)] EXCEPT !.state = "added"]
      /\ \A k, l \in 1 .. a : k < l => Nth(A, k) < Nth(A, l)
  BY <1>1, ReinstalledNth
<1>5. /\ rp \in Seq(Entries) /\ b \in Nat /\ Len(rp) = b
      /\ \A k \in 1 .. b : Nth(P, k) \in P /\ rp[k] = [s[Nth(P, k)] EXCEPT !.state = "added"]
      /\ \A k, l \in 1 .. b : k < l => Nth(P, k) < Nth(P, l)
  BY <1>1, ReinstalledNth
<1> HIDE DEF a, b, ra, rp
<1>6. /\ Len(Kept(s)) = a + b
      /\ \A k \in 1 .. a + b : Kept(s)[k] = IF k <= a THEN ra[k] ELSE rp[k - a]
  <2>1. Kept(s) = ra \o rp
    BY <1>2 DEF ra, rp
  <2>2. Len(ra \o rp) = a + b
    <3>1. ra \in Seq(Entries) /\ rp \in Seq(Entries) /\ Len(ra) = a /\ Len(rp) = b
      BY <1>4, <1>5
    <3>2. Len(ra \o rp) = Len(ra) + Len(rp)
      BY <3>1
    <3> QED
      BY <3>1, <3>2, Zenon
  <2>3. ASSUME NEW k \in 1 .. a + b
        PROVE  (ra \o rp)[k] = IF k <= a THEN ra[k] ELSE rp[k - a]
    <3>1. ra \in Seq(Entries) /\ rp \in Seq(Entries) /\ k \in 1 .. Len(ra) + Len(rp)
      BY <1>4, <1>5
    <3>2. (ra \o rp)[k] = IF k <= Len(ra) THEN ra[k] ELSE rp[k - Len(ra)]
      BY <3>1
    <3> QED
      BY <1>4, <3>2
  <2> QED
    BY <2>1, <2>2, <2>3
<1>7. \A k \in 1 .. a + b : IF k <= a THEN k \in 1 .. a ELSE k - a \in 1 .. b
  BY <1>4, <1>5
<1>8. \A k \in 1 .. a + b : p[k] = IF k <= a THEN Nth(A, k) ELSE Nth(P, k - a)
  BY <1>6
<1>p. p \in [1 .. Len(Kept(s)) -> 1 .. Len(s)]
  <2>1. \A k \in 1 .. a + b : (IF k <= a THEN Nth(A, k) ELSE Nth(P, k - a)) \in 1 .. Len(s)
    BY <1>1, <1>4, <1>5, <1>7
  <2> QED
    BY <1>6, <2>1
<1> HIDE DEF p
<1>9. \A k \in 1 .. a + b : p[k] \in (IF k <= a THEN A ELSE P)
  BY <1>4, <1>5, <1>7, <1>8
<1>10. ASSUME NEW k \in 1 .. a + b, NEW l \in 1 .. a + b, k < l
       PROVE  p[k] # p[l]
  <2>i. \A i \in A \cup P : i \in Int
    BY <1>1
  <2>a. a \in Nat /\ b \in Nat
    BY <1>4, <1>5
  <2>1. CASE l <= a
    <3>1. k <= a /\ k \in 1 .. a /\ l \in 1 .. a
      BY <1>10, <2>1, <2>a
    <3>2. Nth(A, k) < Nth(A, l) /\ Nth(A, k) \in Int /\ Nth(A, l) \in Int
      BY <1>4, <1>10, <2>i, <3>1
    <3> QED
      BY <1>8, <2>1, <3>1, <3>2
  <2>2. CASE k <= a /\ ~(l <= a)
    BY <1>1, <1>9, <2>2
  <2>3. CASE ~(k <= a)
    <3>1. ~(l <= a) /\ k - a \in 1 .. b /\ l - a \in 1 .. b /\ k - a < l - a
      BY <1>10, <2>3, <2>a
    <3>2. /\ Nth(P, k - a) < Nth(P, l - a)
          /\ Nth(P, k - a) \in Int /\ Nth(P, l - a) \in Int
      BY <1>5, <2>i, <3>1
    <3> QED
      BY <1>8, <2>3, <3>1, <3>2
  <2> QED
    BY <2>1, <2>2, <2>3
<1>11. \A k, l \in 1 .. a + b : p[k] = p[l] => k = l
  <2> SUFFICES ASSUME NEW k \in 1 .. a + b, NEW l \in 1 .. a + b, p[k] = p[l], k # l
               PROVE  FALSE
    OBVIOUS
  <2>1. k < l \/ l < k
    BY <1>4, <1>5
  <2> QED
    BY <1>10, <2>1
<1>12. ASSUME NEW k \in 1 .. a + b
       PROVE  /\ Kept(s)[k] = [s[p[k]] EXCEPT !.state = "added"]
              /\ s[p[k]].state \in {"added", "transition"}
  <2>1. s[p[k]].state \in {"added", "transition"}
    BY <1>1, <1>9
  <2>2. CASE k <= a
    BY <1>4, <1>6, <1>7, <1>8, <2>1, <2>2
  <2>3. CASE ~(k <= a)
    BY <1>5, <1>6, <1>7, <1>8, <2>1, <2>3
  <2> QED
    BY <2>2, <2>3
<1> QED
  BY <1>6, <1>p, <1>11, <1>12

\* A reclaim makes room, for either kind of variables.
LEMMA KeptTotals ==
  ASSUME NEW s \in Seq(Entries)
  PROVE  /\ Kept(s) \in Seq(Entries)
         /\ HwTotal(Kept(s)) <= HwTotal(s) /\ CommonTotal(Kept(s)) <= CommonTotal(s)
<1> DEFINE t == Kept(s)
<1>1. t \in Seq(Entries)
  BY KeptEntries
<1>2. PICK p \in [1 .. Len(t) -> 1 .. Len(s)] :
        /\ \A k, l \in 1 .. Len(t) : p[k] = p[l] => k = l
        /\ \A k \in 1 .. Len(t) : /\ t[k] = [s[p[k]] EXCEPT !.state = "added"]
                                  /\ s[p[k]].state \in {"added", "transition"}
  BY KeptFrom
<1> HIDE DEF t
<1>3. ASSUME NEW e \in Entries, e.state \in {"added", "transition"}
      PROVE  /\ SizeOf([e EXCEPT !.state = "added"]) = SizeOf(e)
             /\ IsHwErr([e EXCEPT !.state = "added"]) <=> IsHwErr(e)
  BY <1>3 DEF SizeOf, IsHwErr, Entries
<1>4. \A k \in 1 .. Len(t) : /\ SizeOf(t[k]) = SizeOf(s[p[k]])
                             /\ IsHwErr(t[k]) <=> IsHwErr(s[p[k]])
  <2> SUFFICES ASSUME NEW k \in 1 .. Len(t)
               PROVE  /\ SizeOf(t[k]) = SizeOf(s[p[k]])
                      /\ IsHwErr(t[k]) <=> IsHwErr(s[p[k]])
    OBVIOUS
  <2> DEFINE e == s[p[k]]
  <2>1. p[k] \in 1 .. Len(s)
    BY <1>2
  <2>2. e \in Entries
    BY <2>1
  <2>3. t[k] = [e EXCEPT !.state = "added"] /\ e.state \in {"added", "transition"}
    BY <1>2
  <2> HIDE DEF e
  <2>4. /\ SizeOf([e EXCEPT !.state = "added"]) = SizeOf(e)
        /\ IsHwErr([e EXCEPT !.state = "added"]) <=> IsHwErr(e)
    BY <1>3, <2>2, <2>3
  <2>5. SizeOf(t[k]) = SizeOf(e) /\ (IsHwErr(t[k]) <=> IsHwErr(e))
    BY <2>3, <2>4
  <2> QED
    BY <2>5 DEF e
<1>5. /\ HwSizes(t) \in Seq(Nat) /\ HwSizes(s) \in Seq(Nat)
      /\ CommonSizes(t) \in Seq(Nat) /\ CommonSizes(s) \in Seq(Nat)
      /\ Len(HwSizes(t)) = Len(t) /\ Len(HwSizes(s)) = Len(s)
      /\ Len(CommonSizes(t)) = Len(t) /\ Len(CommonSizes(s)) = Len(s)
  BY <1>1, SizesType, CommonSum
<1>6. \A k \in 1 .. Len(t) : /\ HwSizes(t)[k] = HwSizes(s)[p[k]]
                             /\ CommonSizes(t)[k] = CommonSizes(s)[p[k]]
  BY <1>1, <1>2, <1>4 DEF HwSizes, CommonSizes
<1>7. \A k \in 1 .. Len(t) : /\ HwSizes(t)[k] <= HwSizes(s)[p[k]]
                             /\ CommonSizes(t)[k] <= CommonSizes(s)[p[k]]
  <2>1. \A k \in 1 .. Len(t) : HwSizes(t)[k] \in Nat /\ CommonSizes(t)[k] \in Nat
    BY <1>5
  <2> QED
    BY <1>6, <2>1
<1>8. SumOf(HwSizes(t)) <= SumOf(HwSizes(s))
  BY <1>2, <1>5, <1>7, SumPaired
<1>9. SumOf(CommonSizes(t)) <= SumOf(CommonSizes(s))
  BY <1>2, <1>5, <1>7, SumPaired
<1>10. /\ HwTotal(t) = SumOf(HwSizes(t)) /\ HwTotal(s) = SumOf(HwSizes(s))
       /\ CommonTotal(t) = SumOf(CommonSizes(t)) /\ CommonTotal(s) = SumOf(CommonSizes(s))
  <2>1. \A u : HwTotal(u) = SumOf(HwSizes(u))
    BY DEF HwTotal, HwSizes
  <2> QED
    BY <1>1, <2>1, CommonSum
<1> QED
  BY <1>1, <1>8, <1>9, <1>10 DEF t

-----------------------------------------------------------------------------
(****************************** Limits of a store **************************)

\* Neither kind of variables takes more than its part of the store.
Limits(s) == HwTotal(s) <= HwErrSize /\ CommonTotal(s) <= CommonSpace

\* There is room for the variable that is set.
RoomIn(s, j) == IF j.name \in HwNames THEN VarSize(j) + HwTotal(s) <= HwErrSize
                ELSE VarSize(j) + CommonTotal(s) <= CommonSpace

Writing == pc \in {"header", "valid", "data", "added"}

LimitsInv == Limits(flash) /\ (Writing => Limits(cache) /\ RoomIn(cache, job))

\* A store within its limits does not run over its end.
LEMMA LimitsSuffice ==
  ASSUME NEW s \in Seq(Entries), Limits(s)
  PROVE  Total(s) <= StoreSize
<1>1. Total(s) \in Nat /\ HwTotal(s) \in Nat
  BY TotalNumber
<1>2. StoreSize \in Nat /\ HwErrSize \in Nat
  BY ConstantsAssumption
<1> QED
  BY <1>1, <1>2 DEF Limits, CommonTotal, CommonSpace

\* A new entry stays within the limits when there was room for all of it.
LEMMA LimitsAppend ==
  ASSUME NEW s \in Seq(Entries), NEW j \in Jobs, j.value # NoValue,
         NEW state \in States \ {"torn"}, Limits(s), RoomIn(s, j)
  PROVE  Limits(Append(s, Entry(j, state)))
<1> DEFINE e == Entry(j, state)
<1>1. /\ e \in Entries /\ SizeOf(e) \in Nat /\ VarSize(j) \in Nat /\ SizeOf(e) <= VarSize(j)
      /\ IsHwErr(e) <=> j.name \in HwNames
  <2>1. e \in Entries
    BY NewEntry
  <2>2. SizeOf(e) \in Nat /\ SizeOf(e) <= 1 + DataSize[e.value] /\ DataSize[e.value] \in Nat
    BY <2>1, EntrySize
  <2>3. e.value = j.value /\ e.state # "torn" /\ e.name = j.name
    BY DEF Entry
  <2> HIDE DEF e
  <2> QED
    BY <2>1, <2>2, <2>3 DEF VarSize, IsHwErr
<1> HIDE DEF e
<1>2. /\ HwTotal(Append(s, e)) = HwTotal(s) + (IF IsHwErr(e) THEN SizeOf(e) ELSE 0)
      /\ CommonTotal(Append(s, e)) = CommonTotal(s) + (IF IsHwErr(e) THEN 0 ELSE SizeOf(e))
  BY <1>1, TotalAppend
<1>3. HwTotal(s) \in Nat /\ CommonTotal(s) \in Nat
  BY TotalNumber
<1>4. HwErrSize \in Int /\ CommonSpace \in Int
  BY ConstantsAssumption DEF CommonSpace
<1>5. CASE IsHwErr(e)
  BY <1>1, <1>2, <1>3, <1>4, <1>5 DEF Limits, RoomIn, e
<1>6. CASE ~IsHwErr(e)
  BY <1>1, <1>2, <1>3, <1>4, <1>6 DEF Limits, RoomIn, e
<1> QED
  BY <1>5, <1>6

\* A step that ends in no write of a new entry.
LEMMA LimitsStay ==
  ASSUME Limits(flash'), pc' \notin {"header", "valid", "data", "added"}
  PROVE  LimitsInv'
BY DEF LimitsInv, Writing

\* Every step keeps the limits.
LEMMA LimitsStep ==
  ASSUME EntriesWork, ~TornHeaders, StoreInv, LimitsInv, Next
  PROVE  LimitsInv'
<1>t. TypeInv /\ TypeInv' /\ StoreInv'
  BY TypeStep, StoreStep DEF StoreInv
<1>u. /\ flash \in Seq(Entries) /\ cache \in Seq(Entries)
      /\ Writing => job \in Jobs /\ job.value # NoValue
      /\ {"header", "valid", "data", "added"} \cap
           {"off", "write_service", "idle", "flush", "delete_old", "delete_cur", "mark",
            "space"} = {}
  BY <1>t DEF TypeInv, TypeOK, Updating, Writing
\* The steps that do not write.
<1>1. CASE PowerOn
  BY <1>1 DEF PowerOn, LimitsInv, Writing
<1>2. ASSUME NEW j \in Jobs, SetVariable(j) PROVE LimitsInv'
  <2>1. flash' = flash /\ pc' \in {"idle", "flush", "delete_old", "delete_cur", "mark", "space"}
    BY <1>2 DEF SetVariable, Start, Exit, FlushHob
  <2> QED
    BY <1>u, <2>1 DEF LimitsInv, Writing
<1>3. CASE Flush
  <2>1. flash' = flash /\ pc' \in {"idle", "flush", "delete_old", "delete_cur", "mark", "space"}
    BY <1>3 DEF Flush, FlushNext, FlushEnd, Start, Exit
  <2> QED
    BY <1>u, <2>1 DEF LimitsInv, Writing
<1>4. CASE StateFails \/ ExitBootServices
  <2>1. flash' = flash /\ pc' \in {"idle", "flush"}
    BY <1>4 DEF StateFails, Fail, Exit, ExitBootServices
  <2> QED
    BY <1>u, <2>1 DEF LimitsInv, Writing
<1>5. ~EntryFails
  BY DEF EntriesWork, EntryFails
\* Reclaims.
<1>6. CASE WriteServiceInitialize \/ ReadyToBoot
  <2>1. flash' \in {flash, Kept(flash)} /\ pc' \in {"idle", "flush"}
    BY <1>6 DEF WriteServiceInitialize, ReadyToBoot, ReclaimTo, ReclaimFails, FlushHob, Exit
  <2>2. Limits(Kept(flash))
    <3>1. /\ HwTotal(Kept(flash)) <= HwTotal(flash)
          /\ CommonTotal(Kept(flash)) <= CommonTotal(flash)
          /\ Kept(flash) \in Seq(Entries)
      BY <1>u, KeptTotals
    <3>2. /\ HwTotal(flash) \in Nat /\ CommonTotal(flash) \in Nat
          /\ HwTotal(Kept(flash)) \in Nat /\ CommonTotal(Kept(flash)) \in Nat
      BY <1>u, <3>1, TotalNumber
    <3>3. HwErrSize \in Int /\ CommonSpace \in Int
      BY ConstantsAssumption DEF CommonSpace
    <3> QED
      BY <3>1, <3>2, <3>3 DEF LimitsInv, Limits
  <2> QED
    BY <1>u, <2>1, <2>2 DEF LimitsInv, Writing
\* State bytes.
<1>7. CASE DeleteOld \/ DeleteCurrent \/ MarkOld
  <2>1. \E i \in {cur, old}, state \in {"deleted", "transition"} :
          /\ pc \in {"delete_old", "delete_cur", "mark"} /\ WriteState(i, state)
    BY <1>7 DEF DeleteOld, DeleteCurrent, MarkOld
  <2>2. PICK i \in {cur, old}, state \in {"deleted", "transition"} :
          /\ pc \in {"delete_old", "delete_cur", "mark"} /\ WriteState(i, state)
    BY <2>1
  <2>3. state \in States \ {"torn", "header"}
    BY DEF States
  <2>4. cache' = flash' /\ Accounts' /\ Accounts /\ cache = flash /\ UNCHANGED sizes
    BY <1>t, <2>2, <2>3, StateWritten DEF StoreInv, Mirrors, WriteState
  <2>5. HwTotal(flash') = HwTotal(flash) /\ CommonTotal(flash') = CommonTotal(flash)
    BY <2>4 DEF Accounts, sizes
  <2>6. pc' \in {"idle", "flush", "delete_cur", "space"}
    BY <1>7 DEF DeleteOld, DeleteCurrent, MarkOld, Goto, Succeed, FlushHob, Exit
  <2> QED
    BY <1>u, <2>5, <2>6 DEF LimitsInv, Limits, Writing
\* The decision on a new entry.
<1>8. CASE FindSpace
  <2>1. pc = "space" /\ cache = flash /\ Accounts /\ job \in Jobs /\ job.value # NoValue
    BY <1>8, <1>t DEF FindSpace, StoreInv, Mirrors, TypeInv, Updating
  <2>2. CASE ~NoSpace(job) /\ Goto("header") /\ UNCHANGED <<flash, dirty, cache, sizes>>
    <3>1. HwErrSize \in Int /\ CommonSpace \in Int /\ CommonRuntimeSpace \in Int
          /\ CommonRuntimeSpace <= CommonSpace
      BY ConstantsAssumption DEF CommonSpace, CommonRuntimeSpace
    <3>2. VarSize(job) \in Nat
      BY <2>1, ConstantsAssumption DEF VarSize, Jobs
    <3>3. HwTotal(cache) \in Nat /\ CommonTotal(cache) \in Nat
      BY <1>u, TotalNumber
    <3>4. hwTotal = HwTotal(cache) /\ commonTotal = CommonTotal(cache)
      BY <2>1 DEF Accounts
    <3>5. RoomIn(cache, job)
      BY <2>2, <3>1, <3>2, <3>3, <3>4 DEF NoSpace, RoomIn
    <3>6. cache' = cache /\ flash' = flash /\ job' = job
      BY <2>2 DEF Goto, call
    <3>7. RoomIn(cache', job')
      BY <3>5, <3>6
    <3> QED
      BY <2>1, <3>6, <3>7 DEF LimitsInv, Limits, RoomIn
  <2>3. CASE Limits(flash') /\ pc' \in {"idle", "flush"}
    BY <1>u, <2>3, LimitsStay
  <2>4. \/ ~NoSpace(job) /\ Goto("header") /\ UNCHANGED <<flash, dirty, cache, sizes>>
        \/ /\ flash' = flash \/ Fits(flash')
           /\ pc' \in {"idle", "flush"}
    BY <1>8 DEF FindSpace, ReclaimWith, ReclaimTo, ReclaimFails, Fail, Succeed, FlushHob, Exit
  <2> QED
    BY <2>2, <2>3, <2>4 DEF Fits, Limits, LimitsInv
\* The new entry.
<1>9. CASE WriteHeader \/ WriteValid \/ WriteAdded
  <2>1. Writing /\ Limits(cache) /\ RoomIn(cache, job) /\ job \in Jobs /\ job.value # NoValue
    BY <1>9, <1>u DEF WriteHeader, WriteValid, WriteAdded, Writing, LimitsInv
  <2>2. \E state \in States \ {"torn"} : flash' = Append(cache, Entry(job, state))
    <3>1. {"header", "valid", "added"} \subseteq States \ {"torn"}
      BY DEF States
    <3> QED
      BY <1>9, <3>1, EntryWritten DEF WriteHeader, WriteValid, WriteAdded
  <2>3. Limits(flash')
    BY <1>u, <2>1, <2>2, LimitsAppend
  <2>4. CASE WriteHeader \/ WriteValid
    <3>1. cache' = cache /\ job' = job
      BY <2>4 DEF WriteHeader, WriteValid, Goto, call
    <3> QED
      BY <2>1, <2>3, <3>1 DEF LimitsInv, Limits, RoomIn
  <2>5. CASE WriteAdded
    <3>1. pc' \in {"idle", "flush", "delete_old", "delete_cur"}
      BY <2>5 DEF WriteAdded, Replace, Goto, Succeed, FlushHob, Exit
    <3> QED
      BY <1>u, <2>3, <3>1, LimitsStay
  <2> QED
    BY <1>9, <2>4, <2>5
<1>10. CASE WriteData
  <2>1. Writing /\ UNCHANGED <<flash, cache, job>>
    BY <1>10 DEF WriteData, DataWritten, Writing, Goto, call
  <2> QED
    BY <2>1 DEF LimitsInv, Limits, RoomIn
\* The power is lost.
<1>11. CASE PowerLoss
  <2>1. pc' = "off" /\ Interrupted
    BY <1>11 DEF PowerLoss, Exit
  <2>2. flash' = flash
    BY <2>1, EntryWritten
  <2> QED
    BY <1>u, <2>1, <2>2, LimitsStay DEF LimitsInv
<1> QED
  BY <1>1, <1>2, <1>3, <1>4, <1>5, <1>6, <1>7, <1>8, <1>9, <1>10, <1>11
     DEF Next, UpdateVariable

\* The entries never run over the end of the store, although the space is only
\* checked for each kind of variables by itself (Variable.c:2570, 1189) and
\* against totals that are kept up to date by hand: after any sequence of calls,
\* whichever state bytes and reclaims fail, and wherever the power is lost,
\* unless the loss cuts a header in two.
THEOREM WithinHolds ==
  ASSUME EntriesWork, ~TornHeaders
  PROVE  Spec => []Within
<1>1. Init => LimitsInv
  <2> SUFFICES ASSUME Init PROVE LimitsInv
    OBVIOUS
  <2>1. flash = <<>> /\ ~Writing /\ flash \in Seq(Entries)
    BY DEF Init, Writing
  <2>2. HwTotal(flash) = 0 /\ CommonTotal(flash) = 0
    BY <2>1, TotalNumber
  <2>3. 0 <= HwErrSize /\ 0 <= CommonSpace
    BY ConstantsAssumption DEF CommonSpace
  <2> QED
    BY <2>1, <2>2, <2>3 DEF LimitsInv, Limits
<1>2. StoreInv /\ LimitsInv /\ [Next]_vars => LimitsInv'
  <2> SUFFICES ASSUME StoreInv, LimitsInv, [Next]_vars PROVE LimitsInv'
    OBVIOUS
  <2>1. CASE UNCHANGED vars
    BY <2>1 DEF vars, call, LimitsInv, Limits, RoomIn, Writing
  <2> QED
    BY <2>1, LimitsStep
<1>3. StoreInv /\ LimitsInv => Within
  BY LimitsSuffice DEF StoreInv, TypeInv, TypeOK, LimitsInv, Within
<1> QED
  BY StoreInvariant, <1>1, <1>2, <1>3, PTL DEF Spec
=============================================================================
