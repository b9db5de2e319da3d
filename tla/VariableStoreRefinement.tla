----------------------- MODULE VariableStoreRefinement -----------------------
(***************************************************************************)
(* VariableStore implements AtomicStore as long as no variable is left     *)
(* with two copies IN_DELETED_TRANSITION, and what follows for the caller  *)
(* and the operating system: for every set of variables and contents,      *)
(* every size of the store and any number of power losses.                 *)
(***************************************************************************)
EXTENDS VariableStoreProofs

\* No two entries of s are a variable's in that state.
Single(s, n, state) == \A i, j \in AllOf(s, n, state) : i = j

\* An ADDED entry comes after those that are IN_DELETED_TRANSITION.
OldFirst(s, n) ==
  \A i \in AllOf(s, n, "transition") : \A j \in AllOf(s, n, "added") : i < j

\* Outside of updates no variable has two entries IN_DELETED_TRANSITION.
OneOldCopy == pc \notin Updating => \A n \in Names : Single(flash, n, "transition")

\* UpdateVariable has written the new entry and deletes the old ones.
Committed == pc \in {"delete_old", "delete_cur"} /\ job.value # NoValue

\* During an update the copies of its variable are those it replaces, the older
\* one first, and the new one when that is ADDED.
Copies ==
  pc \in Updating =>
    /\ \A n \in Names : n # job.name => Single(flash, n, "transition")
    /\ \A i : Live(flash, job.name, i) =>
         \/ i \in {cur, old}
         \/ Committed /\ flash[i].state = "added" /\ flash[i].value = job.value
    /\ old # 0 => old < cur
    /\ old \notin AllOf(flash, job.name, "added")
    /\ (Committed \/ pc \notin {"delete_old", "delete_cur", "mark"}) =>
         cur \notin AllOf(flash, job.name, "added")
    /\ pc = "delete_cur" => ~Live(flash, job.name, old)
    /\ (pc \in {"delete_old", "mark"} /\ ~Committed /\ old # 0) =>
         cur \in AllOf(flash, job.name, "added")

\* What holds of them at any time.
Ordered(s) == \A n \in Names : Single(s, n, "added") /\ OldFirst(s, n)

CopyInv == Ordered(flash) /\ Copies

-----------------------------------------------------------------------------
(*************************** What a variable reads *************************)

\* Two stores with the same copies of a variable.
SameCopies(s, t, n) ==
  \A i : /\ Live(s, n, i) <=> Live(t, n, i)
         /\ Live(s, n, i) => s[i].state = t[i].state /\ s[i].value = t[i].value

\* It reads the same in both, and has as many copies.
LEMMA SameRead ==
  ASSUME NEW s \in Seq(Entries), NEW t \in Seq(Entries), NEW n, SameCopies(s, t, n)
  PROVE  /\ Read(t, n) = Read(s, n)
         /\ \A state \in {"added", "transition"} : AllOf(t, n, state) = AllOf(s, n, state)
<1>1. \A state \in {"added", "transition"} : AllOf(t, n, state) = AllOf(s, n, state)
  BY DEF SameCopies, Live, AllOf
<1>2. Current(t, n) = Current(s, n)
  BY <1>1 DEF Current
<1>3. CASE Current(s, n) = 0
  BY <1>1, <1>2, <1>3 DEF Read
<1>4. CASE Current(s, n) # 0
  <2>1. Live(s, n, Current(s, n))
    BY <1>4, FoundEntry
  <2> QED
    BY <1>1, <1>2, <1>4, <2>1 DEF Read, SameCopies
<1> QED
  BY <1>3, <1>4

\* The same for what the invariant says of the copies.
LEMMA SameInv ==
  ASSUME NEW s \in Seq(Entries), NEW t \in Seq(Entries), NEW n, SameCopies(s, t, n)
  PROVE  /\ Single(s, n, "added") => Single(t, n, "added")
         /\ Single(s, n, "transition") => Single(t, n, "transition")
         /\ OldFirst(s, n) => OldFirst(t, n)
BY SameRead DEF Single, OldFirst

\* A variable reads as its only ADDED entry.
LEMMA ReadAdded ==
  ASSUME NEW s \in Seq(Entries), NEW n, Single(s, n, "added"), NEW i, Live(s, n, i),
         s[i].state = "added"
  PROVE  Read(s, n) = s[i].value
<1>1. i \in AllOf(s, n, "added")
  BY DEF Live, AllOf
<1>2. Current(s, n) # 0 /\ Live(s, n, Current(s, n)) /\ s[Current(s, n)].state = "added"
  BY <1>1, FoundEntry
<1>3. Current(s, n) \in AllOf(s, n, "added")
  BY <1>2 DEF Live, AllOf
<1> QED
  BY <1>1, <1>2, <1>3 DEF Single, Read

\* One that has two copies at most, the first of them not ADDED, as the last.
LEMMA ReadLast ==
  ASSUME NEW s \in Seq(Entries), NEW n, NEW c, Live(s, n, c),
         NEW o, \A i : Live(s, n, i) => i \in {c, o},
         Live(s, n, o) => (o = c \/ (o < c /\ s[o].state # "added"))
  PROVE  Current(s, n) = c /\ Read(s, n) = s[c].value
<1>1. Current(s, n) # 0 /\ Live(s, n, Current(s, n))
  BY FoundEntry
<1>2. ASSUME Current(s, n) # c PROVE FALSE
  <2>1. Current(s, n) = o /\ Live(s, n, o) /\ o # c
    BY <1>1, <1>2
  <2>2. o < c /\ s[o].state # "added" /\ o \in Int /\ c \in Int
    BY <2>1 DEF Live
  <2>3. AllOf(s, n, "added") = {}
    BY <2>1, <2>2, FoundEntry
  <2>4. c \in AllOf(s, n, "transition")
    BY <2>3 DEF Live, AllOf
  <2>5. Current(s, n) = LastOrNull(AllOf(s, n, "transition"))
    BY <2>3 DEF Current
  <2>6. AllOf(s, n, "transition") \subseteq 0 .. Len(s) /\ Len(s) \in Nat
    BY DEF AllOf
  <2>7. c <= Current(s, n)
    BY <2>4, <2>5, <2>6, LastElement
  <2> QED
    BY <2>1, <2>2, <2>7
<1> QED
  BY <1>1, <1>2 DEF Read

\* One without copies does not exist.
LEMMA ReadNone ==
  ASSUME NEW s \in Seq(Entries), NEW n, \A i : ~Live(s, n, i)
  PROVE  Read(s, n) = NoValue
BY ReadLive

\* Each variable has one ADDED entry in what a reclaim keeps, and no other one.
LEMMA KeptOnce ==
  ASSUME NEW s \in Seq(Entries), \A n \in Names : Single(s, n, "added")
  PROVE  /\ Kept(s) \in Seq(Entries)
         /\ \A k \in DOMAIN Kept(s) : Kept(s)[k].state = "added"
         /\ \A k, l \in DOMAIN Kept(s) : Kept(s)[k].name = Kept(s)[l].name => k = l
         /\ \A n \in Names : /\ Single(Kept(s), n, "added")
                             /\ AllOf(Kept(s), n, "transition") = {}
<1>1. \A i, j \in DOMAIN s :
        (s[i].state = "added" /\ s[j].state = "added" /\ s[i].name = s[j].name) => i = j
  <2> SUFFICES ASSUME NEW i \in DOMAIN s, NEW j \in DOMAIN s, s[i].state = "added",
                      s[j].state = "added", s[i].name = s[j].name
               PROVE  i = j
    OBVIOUS
  <2>1. s[i].name \in Names
    <3>1. s[i] \in Entries
      OBVIOUS
    <3> QED
      BY <3>1 DEF Entries
  <2>2. i \in AllOf(s, s[i].name, "added") /\ j \in AllOf(s, s[i].name, "added")
    BY DEF AllOf
  <2> QED
    BY <2>1, <2>2 DEF Single
<1>2. /\ Kept(s) \in Seq(Entries)
      /\ \A k \in DOMAIN Kept(s) : Kept(s)[k].state = "added"
      /\ \A k, l \in DOMAIN Kept(s) : Kept(s)[k].name = Kept(s)[l].name => k = l
  BY <1>1, KeptEntries
<1> QED
  BY <1>2 DEF Single, AllOf

\* A reclaim changes nothing of a variable with one copy IN_DELETED_TRANSITION
\* at most that is not being updated.
LEMMA KeptReads ==
  ASSUME NEW s \in Seq(Entries), \A m \in Names : Single(s, m, "added"),
         NEW n \in Names, Single(s, n, "transition"),
         \A i : Live(s, n, i) => i \notin {cur, old}
  PROVE  Read(Kept(s), n) = Read(s, n)
<1>1. /\ Kept(s) \in Seq(Entries)
      /\ \A k \in DOMAIN Kept(s) : Kept(s)[k].state = "added"
      /\ Single(Kept(s), n, "added")
  BY KeptOnce
<1>2. /\ \A i : Live(s, n, i) => \E k : Live(Kept(s), n, k)
      /\ \A k \in DOMAIN Kept(s) : \E i \in DOMAIN s \ {cur} :
           /\ Kept(s)[k].name = s[i].name /\ Kept(s)[k].value = s[i].value
           /\ \/ s[i].state = "added"
              \/ /\ s[i].state = "transition" /\ i # old
                 /\ \A j \in DOMAIN s \ {cur} : s[j].state = "added" => s[j].name # s[i].name
  BY KeptEntries
<1>3. CASE \A i : ~Live(s, n, i)
  <2>1. \A k : ~Live(Kept(s), n, k)
    <3> SUFFICES ASSUME NEW k, Live(Kept(s), n, k) PROVE FALSE
      OBVIOUS
    <3>1. PICK i \in DOMAIN s \ {cur} : /\ Kept(s)[k].name = s[i].name
                                        /\ s[i].state \in {"added", "transition"}
      BY <1>2 DEF Live
    <3> QED
      BY <1>3, <3>1 DEF Live
  <2> QED
    BY <1>1, <1>3, <2>1, ReadNone
<1>4. CASE \E i : Live(s, n, i)
  <2>1. PICK k : Live(Kept(s), n, k)
    BY <1>2, <1>4
  <2>2. PICK i \in DOMAIN s \ {cur} :
          /\ Kept(s)[k].name = s[i].name /\ Kept(s)[k].value = s[i].value
          /\ \/ s[i].state = "added"
             \/ /\ s[i].state = "transition" /\ i # old
                /\ \A j \in DOMAIN s \ {cur} : s[j].state = "added" => s[j].name # s[i].name
    BY <1>2, <2>1 DEF Live
  <2>3. Live(s, n, i)
    BY <2>1, <2>2 DEF Live
  <2>4. Read(Kept(s), n) = s[i].value
    BY <1>1, <2>1, <2>2, ReadAdded DEF Live
  <2>5. CASE s[i].state = "added"
    BY <2>3, <2>4, <2>5, ReadAdded
  <2>6. CASE s[i].state = "transition"
    <3>1. \A j : Live(s, n, j) => j \in DOMAIN s \ {cur}
      BY DEF Live
    <3>2. \A j : Live(s, n, j) => s[j].state # "added"
      BY <2>1, <2>2, <2>6, <3>1 DEF Live
    <3>3. \A j : Live(s, n, j) => j = i
      BY <2>3, <2>6, <3>2 DEF Live, Single, AllOf
    <3>4. Read(s, n) = s[i].value
      BY <2>3, <3>3, ReadLast
    <3> QED
      BY <2>4, <3>4
  <2> QED
    BY <2>2, <2>5, <2>6
<1> QED
  BY <1>3, <1>4

\* A reclaim keeps nothing of a variable all copies of which are replaced.
LEMMA KeptNone ==
  ASSUME NEW s \in Seq(Entries), NEW n, \A i : Live(s, n, i) => i \in {cur, old},
         old \notin AllOf(s, n, "added")
  PROVE  \A k : ~Live(Kept(s), n, k)
<1> SUFFICES ASSUME NEW k, Live(Kept(s), n, k) PROVE FALSE
  OBVIOUS
<1>1. PICK i \in DOMAIN s \ {cur} :
        /\ Kept(s)[k].name = s[i].name
        /\ s[i].state = "added" \/ (s[i].state = "transition" /\ i # old)
  BY KeptEntries DEF Live
<1>2. Live(s, n, i)
  BY <1>1 DEF Live
<1>3. i = old /\ s[i].state = "added"
  BY <1>1, <1>2
<1> QED
  BY <1>2, <1>3 DEF Live, AllOf

-----------------------------------------------------------------------------
(******************************* The mapping *******************************)

\* No variable reads anything else after the step.
SameReads == \A n \in Names : Read(flash', n) = Read(flash, n)

\* While no update is under way none is in flight, and a committed one is not.
LEMMA InFlightCases ==
  ASSUME TypeInv
  PROVE  /\ pc \notin Updating => InFlight = NoRequest
         /\ pc \in Updating /\ Committed => InFlight = NoRequest
         /\ pc \in Updating /\ ~Committed =>
              /\ InFlight = [keys |-> {job.name}, value |-> job.value]
              /\ InFlight \in Store!Requests /\ InFlight # NoRequest
<1>1. pc \notin Updating => InFlight = NoRequest
  BY DEF TypeInv, InFlight
<1>2. pc \in Updating /\ Committed => InFlight = NoRequest
  BY DEF Committed, InFlight
<1>3. ASSUME pc \in Updating, ~Committed
      PROVE  /\ InFlight = [keys |-> {job.name}, value |-> job.value]
             /\ InFlight \in Store!Requests /\ InFlight # NoRequest
  <2>1. job \in Jobs /\ job # NoRequest
    BY <1>3, ConstantsAssumption DEF TypeInv, Jobs
  <2>2. InFlight = [keys |-> {job.name}, value |-> job.value]
    BY <1>3, <2>1 DEF InFlight, Committed
  <2>3. InFlight \in [keys : SUBSET Names, value : Values \cup {NoValue}]
    BY <2>1, <2>2 DEF Jobs
  <2> QED
    BY <2>2, <2>3, ConstantsAssumption DEF Store!Requests
<1> QED
  BY <1>1, <1>2, <1>3

\* A step after which everything reads the same stutters, submits the update
\* that it begins, or drops the one that it ends.
LEMMA Quiet ==
  ASSUME TypeInv, TypeInv', SameReads,
         (pc \in Updating /\ pc' \in Updating) =>
           (job' = job /\ (Committed' <=> Committed))
  PROVE  [Store!Next]_(Store!vars)
<1>1. [n \in Names |-> Read(flash, n)]' = [n \in Names |-> Read(flash, n)]
  BY DEF SameReads
<1>2. /\ pc' \notin Updating => InFlight' = NoRequest
      /\ pc' \in Updating /\ Committed' => InFlight' = NoRequest
      /\ pc' \in Updating /\ ~Committed' =>
           /\ InFlight' = [keys |-> {job'.name}, value |-> job'.value]
           /\ InFlight' \in Store!Requests /\ InFlight' # NoRequest
  <2>1. pc' \notin Updating => InFlight' = NoRequest
    BY DEF TypeInv, InFlight
  <2>2. pc' \in Updating /\ Committed' => InFlight' = NoRequest
    BY DEF Committed, InFlight
  <2>3. ASSUME pc' \in Updating, ~Committed'
        PROVE  /\ InFlight' = [keys |-> {job'.name}, value |-> job'.value]
               /\ InFlight' \in Store!Requests /\ InFlight' # NoRequest
    <3>1. job' \in Jobs /\ job' # NoRequest
      BY <2>3, ConstantsAssumption DEF TypeInv, Jobs
    <3>2. InFlight' = [keys |-> {job'.name}, value |-> job'.value]
      BY <2>3, <3>1 DEF InFlight, Committed
    <3>3. InFlight' \in [keys : SUBSET Names, value : Values \cup {NoValue}]
      BY <3>1, <3>2 DEF Jobs
    <3> QED
      BY <3>2, <3>3, ConstantsAssumption DEF Store!Requests
  <2> QED
    BY <2>1, <2>2, <2>3
<1>3. CASE InFlight' = InFlight
  BY <1>1, <1>3 DEF Store!vars
<1>4. CASE InFlight = NoRequest /\ InFlight' \in Store!Requests
  BY <1>1, <1>4 DEF Store!Next, Store!Submit
<1>5. CASE InFlight # NoRequest /\ InFlight' = NoRequest
  BY <1>1, <1>5 DEF Store!Next, Store!Drop
<1> QED
  BY <1>2, <1>3, <1>4, <1>5, InFlightCases

\* A step after which the variable of an update reads as what it is set to, and
\* the others as before, commits.
LEMMA Commits ==
  ASSUME TypeInv, TypeInv', pc \in Updating, ~Committed, pc' \in Updating => Committed',
         \A n \in Names : Read(flash', n) = IF n = job.name THEN job.value ELSE Read(flash, n)
  PROVE  [Store!Next]_(Store!vars)
<1>1. InFlight = [keys |-> {job.name}, value |-> job.value] /\ InFlight # NoRequest
  BY InFlightCases
<1>2. InFlight' = NoRequest
  BY DEF TypeInv, InFlight, Committed
<1>3. [n \in Names |-> Read(flash, n)]' =
        [k \in Names |-> IF k \in InFlight.keys THEN InFlight.value
                         ELSE [n \in Names |-> Read(flash, n)][k]]
  BY <1>1
<1> QED
  BY <1>1, <1>2, <1>3 DEF Store!Next, Store!Commit

-----------------------------------------------------------------------------
(****************************** Lemmas on steps ****************************)

\* A step that leaves every copy where it is.
LEMMA KeptCopies ==
  ASSUME TypeInv, TypeInv', Ordered(flash), \A n \in Names : SameCopies(flash, flash', n)
  PROVE  SameReads /\ Ordered(flash')
<1>1. flash \in Seq(Entries) /\ flash' \in Seq(Entries)
  BY DEF TypeInv, TypeOK
<1>2. ASSUME NEW n \in Names
      PROVE  /\ Read(flash', n) = Read(flash, n)
             /\ Single(flash', n, "added") /\ OldFirst(flash', n)
  BY <1>1, SameRead, SameInv DEF Ordered
<1> QED
  BY <1>2 DEF SameReads, Ordered

\* The same stores have the same copies.
LEMMA SameStore ==
  ASSUME NEW s, NEW n
  PROVE  SameCopies(s, s, n)
BY DEF SameCopies

\* An entry that is no copy of any variable is appended.
LEMMA AppendedCopies ==
  ASSUME NEW s \in Seq(Entries), NEW e \in Entries, NEW n,
         e.state \notin {"added", "transition"} \/ e.name # n
  PROVE  SameCopies(s, Append(s, e), n)
<1>1. /\ DOMAIN s = 1 .. Len(s) /\ Len(s) \in Nat
      /\ DOMAIN Append(s, e) = 1 .. Len(s) + 1
      /\ \A i \in 1 .. Len(s) : Append(s, e)[i] = s[i]
      /\ Append(s, e)[Len(s) + 1] = e
  OBVIOUS
<1>2. ASSUME NEW i, Live(Append(s, e), n, i) PROVE i \in DOMAIN s
  BY <1>1, <1>2 DEF Live
<1> QED
  BY <1>1, <1>2 DEF SameCopies, Live

\* An update that goes on after a step that leaves every copy where it is.
LEMMA KeptUpdate ==
  ASSUME TypeInv, TypeInv', Copies, \A n \in Names : SameCopies(flash, flash', n),
         pc \in Updating, UNCHANGED <<job, cur, old>>,
         pc \notin {"delete_old", "delete_cur", "mark"},
         pc' \notin {"delete_old", "delete_cur", "mark"}
  PROVE  Copies'
<1>1. flash \in Seq(Entries) /\ flash' \in Seq(Entries) /\ job \in Jobs
  BY DEF TypeInv, TypeOK
<1>2. job.name \in Names
  BY <1>1 DEF Jobs
<1>3. \A n \in Names : Single(flash, n, "transition") => Single(flash', n, "transition")
  BY <1>1, SameInv
<1>4. AllOf(flash', job.name, "added") = AllOf(flash, job.name, "added")
  BY <1>1, <1>2, SameRead
<1>5. \A i : Live(flash', job.name, i) => Live(flash, job.name, i)
  BY <1>2 DEF SameCopies
<1>6. ~Committed /\ ~Committed'
  BY DEF Committed
<1> QED
  BY <1>3, <1>4, <1>5, <1>6 DEF Copies

\* An update begins with the copies of its variable that it finds.
LEMMA StartCopies ==
  ASSUME TypeInv, OneOldCopy, Ordered(flash), pc \notin Updating,
         flash' = flash, cache = flash, NEW j \in Jobs, Start(j)
  PROVE  Copies'
<1>1. flash \in Seq(Entries) /\ j.name \in Names
  BY DEF TypeInv, TypeOK, Jobs
<1>2. /\ job' = j /\ cur' = Current(flash, j.name) /\ old' = InDeleted(flash, j.name)
      /\ pc' = IF j.value = NoValue
               THEN IF old' = 0 THEN "delete_cur" ELSE "delete_old"
               ELSE IF cur' = 0 THEN "space" ELSE "mark"
  BY DEF Start
<1>3. ~Committed'
  BY <1>2 DEF Committed
<1> DEFINE c == Current(flash, j.name)
           o == InDeleted(flash, j.name)
           A == AllOf(flash, j.name, "added")
           T == AllOf(flash, j.name, "transition")
<1>4. /\ Single(flash, j.name, "added") /\ OldFirst(flash, j.name)
      /\ \A n \in Names : Single(flash, n, "transition")
  BY <1>1 DEF Ordered, OneOldCopy
<1>5. \A i : Live(flash, j.name, i) <=> i \in A \cup T
  BY DEF Live, AllOf
<1>6. /\ c \in 0 .. Len(flash) /\ o \in 0 .. Len(flash)
      /\ c # 0 => Live(flash, j.name, c)
      /\ c = 0 => \A i : ~Live(flash, j.name, i)
      /\ A # {} => flash[c].state = "added"
      /\ o # 0 => /\ Live(flash, j.name, o) /\ flash[o].state = "transition"
                  /\ o < c
  BY <1>1, FoundEntry
<1>7. /\ o # 0 => o < c
      /\ o # 0 => flash[o].state = "transition"
  BY <1>6, Zenon
<1>8. o \notin A
  <2>1. 0 \notin A
    BY <1>1 DEF AllOf
  <2>2. \A i \in A : flash[i].state = "added"
    BY DEF AllOf
  <2> HIDE DEF A, o
  <2> QED
    BY <1>7, <2>1, <2>2
<1>9. c = 0 => c \notin A
  BY <1>1 DEF AllOf
<1>10. ASSUME NEW i, Live(flash, j.name, i) PROVE i \in {c, o}
  <2>1. CASE A = {}
    <3>1. i \in T /\ c \in T
      BY <1>5, <1>6, <1>10, <2>1
    <3> QED
      BY <1>1, <1>4, <3>1 DEF Single
  <2>2. CASE A # {}
    <3>1. c # 0 /\ c \in A
      BY <1>5, <1>6, <2>2 DEF Live, AllOf
    <3>2. CASE i \in A
      BY <1>4, <3>1, <3>2 DEF Single
    <3>3. CASE i \in T
      <4> DEFINE D == {k \in T : k < c}
      <4>1. o = LastOrNull(D)
        BY <2>2 DEF InDeleted
      <4>2. i \in D
        BY <1>4, <3>1, <3>3 DEF OldFirst
      <4>3. D \subseteq 0 .. Len(flash) /\ Len(flash) \in Nat
        BY <1>1 DEF AllOf
      <4>4. LastOrNull(D) \in D
        <5> HIDE DEF D
        <5> QED
          BY <4>2, <4>3, LastElement
      <4>5. o \in T
        BY <4>1, <4>4
      <4> QED
        BY <1>1, <1>4, <3>3, <4>5 DEF Single
    <3> QED
      BY <1>5, <1>10, <3>2, <3>3
  <2> QED
    BY <2>1, <2>2
<1>11. ~Live(flash, j.name, 0)
  BY <1>1 DEF Live
<1>16. o # 0 => c \in A
  <2>1. o # 0 => A # {}
    BY DEF InDeleted
  <2>2. A # {} => c \in A
    BY <1>5, <1>6 DEF Live, AllOf
  <2> QED
    BY <2>1, <2>2
<1> HIDE DEF c, o, A
<1>12. /\ cur' = c /\ old' = o
  BY <1>2 DEF c, o
<1>13. /\ \A n \in Names : n # job'.name => Single(flash', n, "transition")
       /\ \A i : Live(flash', job'.name, i) => i \in {cur', old'}
       /\ old' # 0 => old' < cur'
       /\ old' \notin AllOf(flash', job'.name, "added")
  BY <1>2, <1>4, <1>7, <1>8, <1>10, <1>12 DEF A
<1>14. pc' \notin {"delete_old", "delete_cur", "mark"} =>
         cur' \notin AllOf(flash', job'.name, "added")
  BY <1>2, <1>9, <1>12 DEF A
<1>15. pc' = "delete_cur" => ~Live(flash', job'.name, old')
  BY <1>2, <1>11
<1>17. old' # 0 => cur' \in AllOf(flash', job'.name, "added")
  BY <1>2, <1>12, <1>16 DEF A
<1> QED
  BY <1>3, <1>13, <1>14, <1>15, <1>17 DEF Copies

\* A step that leaves every copy where it is and either ends in no update or
\* goes on with one that writes its new entry.
LEMMA Stands ==
  ASSUME TypeInv, TypeInv', CopyInv, \A n \in Names : SameCopies(flash, flash', n),
         \/ pc' \notin Updating
         \/ /\ pc \in Updating /\ UNCHANGED <<job, cur, old>>
            /\ pc \notin {"delete_old", "delete_cur", "mark"}
            /\ pc' \notin {"delete_old", "delete_cur", "mark"}
  PROVE  CopyInv' /\ [Store!Next]_(Store!vars)
<1>1. SameReads /\ Ordered(flash')
  BY KeptCopies DEF CopyInv
<1>2. CASE pc' \notin Updating
  BY <1>1, <1>2, Quiet DEF CopyInv, Copies, Ordered
<1>3. CASE /\ pc \in Updating /\ UNCHANGED <<job, cur, old>>
           /\ pc \notin {"delete_old", "delete_cur", "mark"}
           /\ pc' \notin {"delete_old", "delete_cur", "mark"}
  <2>1. Copies'
    BY <1>3, KeptUpdate DEF CopyInv
  <2>2. ~Committed /\ ~Committed'
    BY <1>3 DEF Committed
  <2>3. [Store!Next]_(Store!vars)
    BY <1>1, <1>3, <2>2, Quiet
  <2> QED
    BY <1>1, <2>1, <2>3 DEF CopyInv, Ordered
<1> QED
  BY <1>2, <1>3

\* The same if the flash is not written.
LEMMA Rests ==
  ASSUME TypeInv, TypeInv', CopyInv, flash' = flash,
         \/ pc' \notin Updating
         \/ /\ pc \in Updating /\ UNCHANGED <<job, cur, old>>
            /\ pc \notin {"delete_old", "delete_cur", "mark"}
            /\ pc' \notin {"delete_old", "delete_cur", "mark"}
  PROVE  CopyInv' /\ [Store!Next]_(Store!vars)
BY SameStore, Stands

\* An update begins.
LEMMA Begins ==
  ASSUME StoreInv, TypeInv, TypeInv', OneOldCopy, CopyInv, pc \in {"idle", "flush"},
         flash' = flash, NEW j \in Jobs, Start(j)
  PROVE  CopyInv' /\ [Store!Next]_(Store!vars)
<1>1. pc \notin Updating /\ cache = flash
  BY DEF StoreInv, Mirrors, Updating
<1>2. SameReads /\ Ordered(flash')
  BY SameStore, KeptCopies DEF CopyInv
<1>3. Copies'
  BY <1>1, StartCopies DEF CopyInv
<1>4. [Store!Next]_(Store!vars)
  BY <1>1, <1>2, Quiet
<1> QED
  BY <1>2, <1>3, <1>4 DEF CopyInv, Ordered

\* A caller sets a variable, or the loop over the HOB does.
LEMMA SetSteps ==
  ASSUME StoreInv, TypeInv, TypeInv', OneOldCopy, CopyInv,
         Flush \/ \E j \in Jobs : SetVariable(j)
  PROVE  CopyInv' /\ [Store!Next]_(Store!vars)
<1>i. {"idle", "flush"} \cap Updating = {}
  BY DEF Updating
<1>1. ASSUME NEW j \in Jobs, SetVariable(j)
      PROVE  CopyInv' /\ [Store!Next]_(Store!vars)
  <2>1. flash' = flash /\ pc \in {"idle", "flush"}
    BY <1>1 DEF SetVariable
  <2>2. pc' \in {"idle", "flush"} \/ Start(j)
    BY <1>1 DEF SetVariable, FlushHob, Exit
  <2> QED
    BY <1>i, <2>1, <2>2, Rests, Begins
<1>2. ASSUME NEW n \in Names, FlushNext(n)
      PROVE  CopyInv' /\ [Store!Next]_(Store!vars)
  <2> DEFINE j == [name |-> n, value |-> hob[n]]
  <2>1. flash' = flash /\ pc \in {"idle", "flush"}
    BY <1>2 DEF FlushNext
  <2>2. pc' \in {"idle", "flush"} \/ Start(j)
    BY <1>2 DEF FlushNext, Exit
  <2>3. j \in Jobs
    BY DEF TypeInv, TypeOK, Jobs
  <2> HIDE DEF j
  <2> QED
    BY <1>i, <2>1, <2>2, <2>3, Rests, Begins
<1>3. CASE FlushEnd
  <2>1. flash' = flash /\ pc' = "idle"
    BY <1>3 DEF FlushEnd, Exit
  <2> QED
    BY <1>i, <2>1, Rests
<1> QED
  BY <1>1, <1>2, <1>3 DEF Flush

\* The new entry while it is not ADDED is no copy of its variable.
LEMMA NewIsNoCopy ==
  ASSUME NEW s \in Seq(Entries), NEW j \in Jobs, j.value # NoValue,
         NEW a \in States \ {"added", "transition"},
         NEW b \in States \ {"added", "transition"}, NEW n
  PROVE  /\ SameCopies(s, Append(s, Entry(j, b)), n)
         /\ SameCopies(Append(s, Entry(j, a)), Append(s, Entry(j, b)), n)
<1>1. SameCopies(s, Append(s, Entry(j, a)), n) /\ SameCopies(s, Append(s, Entry(j, b)), n)
  BY NewEntry, AppendedCopies
<1> QED
  BY <1>1 DEF SameCopies

\* The writes of a new entry before it is ADDED.
LEMMA EntrySteps ==
  ASSUME StoreInv, TypeInv, TypeInv', CopyInv, WriteHeader \/ WriteValid \/ WriteData
  PROVE  CopyInv' /\ [Store!Next]_(Store!vars)
<1>1. /\ pc \in {"header", "valid", "data"} /\ pc' \in {"valid", "data", "added"}
      /\ UNCHANGED <<job, cur, old>>
  BY DEF WriteHeader, WriteValid, WriteData, Goto, call
<1>2. /\ pc \in Updating /\ job \in Jobs /\ job.value # NoValue /\ cache \in Seq(Entries)
      /\ pc \notin {"delete_old", "delete_cur", "mark"}
      /\ pc' \notin {"delete_old", "delete_cur", "mark"}
  BY <1>1 DEF TypeInv, TypeOK, Updating
<1>s. {"header", "valid"} \subseteq States \ {"added", "transition"}
  BY DEF States
<1>3. CASE WriteHeader
  <2>1. flash = cache /\ flash' = Append(cache, Entry(job, "header"))
    BY <1>3, EntryWritten DEF WriteHeader
  <2>2. \A n \in Names : SameCopies(flash, flash', n)
    BY <1>2, <1>s, <2>1, NewIsNoCopy
  <2> QED
    BY <1>1, <1>2, <2>2, Stands
<1>4. CASE WriteValid
  <2>1. flash = Append(cache, Entry(job, "header")) /\ flash' = Append(cache, Entry(job, "valid"))
    BY <1>4, EntryWritten DEF WriteValid, StoreInv, Mirrors
  <2>2. \A n \in Names : SameCopies(flash, flash', n)
    BY <1>2, <1>s, <2>1, NewIsNoCopy
  <2> QED
    BY <1>1, <1>2, <2>2, Stands
<1>5. CASE WriteData
  <2>1. flash' = flash
    BY <1>5 DEF WriteData, DataWritten
  <2> QED
    BY <1>1, <1>2, <2>1, Rests
<1> QED
  BY <1>3, <1>4, <1>5

\* The power is lost.
LEMMA PowerSteps ==
  ASSUME StoreInv, TypeInv, TypeInv', CopyInv, PowerOn \/ PowerLoss
  PROVE  CopyInv' /\ [Store!Next]_(Store!vars)
<1>i. {"off", "write_service"} \cap Updating = {}
  BY DEF Updating
<1>1. CASE PowerOn
  BY <1>1, <1>i, Rests DEF PowerOn
<1>2. CASE PowerLoss
  <2>1. pc' \notin Updating /\ Interrupted
    BY <1>2, <1>i DEF PowerLoss, Exit
  <2>2. CASE flash' = flash
    BY <2>1, <2>2, Rests
  <2>3. CASE flash' # flash
    <3>1. pc = "header" /\ cache = flash /\ flash' = Append(flash, Entry(job, "torn"))
      BY <2>1, <2>3, EntryWritten
    <3>2. /\ job \in Jobs /\ job.value # NoValue /\ flash \in Seq(Entries)
          /\ "torn" \in States \ {"added", "transition"}
      BY <3>1 DEF TypeInv, TypeOK, Updating, States
    <3>3. \A n \in Names : SameCopies(flash, flash', n)
      BY <2>3, <3>1, <3>2, NewIsNoCopy
    <3> QED
      BY <2>1, <3>3, Stands
  <2> QED
    BY <2>2, <2>3
<1> QED
  BY <1>1, <1>2

\* A reclaim between updates, at boot or for the operating system.
LEMMA ReclaimSteps ==
  ASSUME StoreInv, TypeInv, TypeInv', OneOldCopy, CopyInv,
         WriteServiceInitialize \/ ReadyToBoot \/ ExitBootServices
  PROVE  CopyInv' /\ [Store!Next]_(Store!vars) /\ SameReads
<1>1. /\ pc \in {"write_service", "idle"} /\ pc' \in {"idle", "flush"}
      /\ flash' \in {flash, Kept(flash)}
  BY DEF WriteServiceInitialize, ReadyToBoot, ExitBootServices, ReclaimTo, ReclaimFails,
     FlushHob, Exit
<1>2. pc \notin Updating /\ pc' \notin Updating
  BY <1>1 DEF Updating
<1>3. CASE flash' = flash
  BY <1>2, <1>3, Rests DEF SameReads
<1>4. CASE flash' = Kept(flash)
  <2>1. flash \in Seq(Entries) /\ cur = 0 /\ old = 0
    BY <1>2 DEF TypeInv, TypeOK
  <2>2. /\ \A n \in Names : Single(flash, n, "added")
        /\ \A n \in Names : Single(flash, n, "transition")
    BY <1>2 DEF CopyInv, Ordered, OneOldCopy
  <2>3. ASSUME NEW n \in Names PROVE Read(Kept(flash), n) = Read(flash, n)
    <3>1. \A i : Live(flash, n, i) => i \notin {cur, old}
      BY <2>1 DEF Live
    <3> QED
      BY <2>1, <2>2, <3>1, KeptReads
  <2>4. \A n \in Names : Single(Kept(flash), n, "added") /\ OldFirst(Kept(flash), n)
    BY <2>1, <2>2, KeptOnce DEF OldFirst
  <2>5. [Store!Next]_(Store!vars)
    BY <1>2, <1>4, <2>3, Quiet DEF SameReads
  <2> QED
    BY <1>2, <1>4, <2>3, <2>4, <2>5 DEF CopyInv, Ordered, Copies, SameReads
<1> QED
  BY <1>1, <1>3, <1>4

\* A new entry that is ADDED at the end is what its variable reads as.
LEMMA AddedCopies ==
  ASSUME NEW s \in Seq(Entries), Ordered(s), NEW j \in Jobs, j.value # NoValue,
         AllOf(s, j.name, "added") = {}
  PROVE  LET t == Append(s, Entry(j, "added"))
         IN  /\ Ordered(t) /\ Read(t, j.name) = j.value
             /\ \A n : n # j.name => SameCopies(s, t, n)
             /\ AllOf(t, j.name, "added") = {Len(s) + 1}
             /\ \A k : Live(t, j.name, k) => Live(s, j.name, k) \/ k = Len(s) + 1
             /\ t[Len(s) + 1] = Entry(j, "added")
<1> DEFINE e == Entry(j, "added")
           t == Append(s, e)
           m == Len(s) + 1
<1>1. e \in Entries /\ e.name = j.name /\ e.value = j.value /\ e.state = "added"
  BY NewEntry DEF States
<1> HIDE DEF e
<1>2. /\ t \in Seq(Entries) /\ DOMAIN t = 1 .. m /\ DOMAIN s = 1 .. Len(s) /\ Len(s) \in Nat
      /\ \A k \in 1 .. Len(s) : t[k] = s[k]
      /\ t[m] = e
  BY <1>1
<1>3. \A n : n # j.name => SameCopies(s, t, n)
  BY <1>1, AppendedCopies
<1> HIDE DEF t, m
<1>4. \A k : Live(t, j.name, k) => Live(s, j.name, k) \/ k = m
  <2> SUFFICES ASSUME NEW k, Live(t, j.name, k), k # m PROVE Live(s, j.name, k)
    OBVIOUS
  <2>1. k \in 1 .. Len(s)
    BY <1>2 DEF Live, m
  <2> QED
    BY <1>2, <2>1 DEF Live
<1>5. m \in AllOf(t, j.name, "added") /\ Live(t, j.name, m)
  BY <1>1, <1>2 DEF AllOf, Live, m
<1>6. ASSUME NEW k \in AllOf(t, j.name, "added") PROVE k = m
  <2> SUFFICES ASSUME k # m PROVE FALSE
    OBVIOUS
  <2>1. k \in 1 .. Len(s) /\ t[k].name = j.name /\ t[k].state = "added"
    BY <1>2 DEF AllOf, m
  <2> QED
    BY <1>2, <2>1 DEF AllOf
<1>7. AllOf(t, j.name, "added") = {m}
  BY <1>5, <1>6
<1>8. Single(t, j.name, "added")
  BY <1>7 DEF Single
<1>9. OldFirst(t, j.name)
  <2> SUFFICES ASSUME NEW i \in AllOf(t, j.name, "transition") PROVE i < m
    BY <1>7 DEF OldFirst
  <2>1. i \in 1 .. m /\ t[i].state = "transition"
    BY <1>2 DEF AllOf
  <2>2. i # m
    BY <1>1, <1>2, <2>1
  <2> QED
    BY <1>2, <2>1, <2>2 DEF m
<1>10. ASSUME NEW n \in Names PROVE Single(t, n, "added") /\ OldFirst(t, n)
  <2>1. CASE n = j.name
    BY <1>8, <1>9, <2>1
  <2>2. CASE n # j.name
    BY <1>2, <1>3, <2>2, SameInv DEF Ordered
  <2> QED
    BY <2>1, <2>2
<1>11. Read(t, j.name) = j.value
  BY <1>1, <1>2, <1>5, <1>8, ReadAdded
<1> QED
  BY <1>2, <1>3, <1>4, <1>7, <1>10, <1>11 DEF Ordered, t, m, e

\* An update of a variable whose entries are all deleted or replaced.
LEMMA NoneAdded ==
  ASSUME Copies, pc \in {"space", "header", "valid", "data", "added"}
  PROVE  /\ AllOf(flash, job.name, "added") = {}
         /\ \A i : Live(flash, job.name, i) => i \in {cur, old}
<1>1. pc \in Updating /\ ~Committed /\ pc \notin {"delete_old", "delete_cur", "mark"}
  BY DEF Updating, Committed
<1>2. \A i \in AllOf(flash, job.name, "added") : Live(flash, job.name, i)
  BY DEF AllOf, Live
<1> QED
  BY <1>1, <1>2 DEF Copies

\* The new entry becomes ADDED: the update commits.
LEMMA AddedSteps ==
  ASSUME StoreInv, TypeInv, TypeInv', CopyInv, WriteAdded
  PROVE  /\ CopyInv' /\ [Store!Next]_(Store!vars)
         /\ Read(flash', job.name) = job.value
<1> DEFINE t == Append(cache, Entry(job, "added"))
<1>1. /\ pc = "added" /\ pc \in Updating /\ job \in Jobs /\ job.value # NoValue
      /\ cache \in Seq(Entries) /\ cur \in 0 .. Len(cache) /\ old \in 0 .. Len(cache)
      /\ flash \in Seq(Entries)
  BY DEF WriteAdded, TypeInv, TypeOK, Updating
<1>2. flash = Append(cache, Entry(job, "valid")) /\ flash' = t
  BY <1>1, EntryWritten DEF WriteAdded, StoreInv, Mirrors
<1>3. \A n : SameCopies(cache, flash, n)
  BY <1>1, <1>2, NewIsNoCopy DEF States
<1>4. \A n : SameCopies(flash, cache, n)
  BY <1>3 DEF SameCopies
<1>5. Ordered(cache)
  BY <1>1, <1>4, SameInv DEF CopyInv, Ordered
<1>6. /\ AllOf(cache, job.name, "added") = {}
      /\ \A i : Live(cache, job.name, i) => i \in {cur, old}
  <2>1. /\ AllOf(flash, job.name, "added") = {}
        /\ \A i : Live(flash, job.name, i) => i \in {cur, old}
    BY <1>1, NoneAdded DEF CopyInv
  <2>2. AllOf(cache, job.name, "added") = AllOf(flash, job.name, "added")
    BY <1>1, <1>4, SameRead
  <2>3. \A i : Live(cache, job.name, i) => Live(flash, job.name, i)
    BY <1>3 DEF SameCopies
  <2> QED
    BY <2>1, <2>2, <2>3
<1>7. /\ Ordered(t) /\ Read(t, job.name) = job.value
      /\ \A n : n # job.name => SameCopies(cache, t, n)
      /\ AllOf(t, job.name, "added") = {Len(cache) + 1}
      /\ \A k : Live(t, job.name, k) => Live(cache, job.name, k) \/ k = Len(cache) + 1
      /\ t[Len(cache) + 1] = Entry(job, "added")
  BY <1>1, <1>5, <1>6, AddedCopies
<1>8. t \in Seq(Entries)
  BY <1>1, <1>2 DEF TypeInv, TypeOK
<1> HIDE DEF t
<1>9. \A n : n # job.name => SameCopies(flash, t, n)
  BY <1>4, <1>7 DEF SameCopies
<1>10. \A n \in Names : Read(t, n) = IF n = job.name THEN job.value ELSE Read(flash, n)
  BY <1>1, <1>7, <1>8, <1>9, SameRead
<1>11. \/ pc' \in {"idle", "flush"}
       \/ /\ pc' \in {"delete_old", "delete_cur"} /\ UNCHANGED <<job, cur, old>>
          /\ pc' = "delete_cur" => old = 0
  BY DEF WriteAdded, Replace, Succeed, FlushHob, Exit, Goto, call
<1>12. ~Committed /\ (pc' \in Updating => Committed')
  BY <1>1, <1>11 DEF Committed, Updating
<1>13. [Store!Next]_(Store!vars)
  BY <1>1, <1>2, <1>10, <1>12, Commits
<1>14. Copies'
  <2>1. CASE pc' \in {"idle", "flush"}
    BY <2>1 DEF Copies, Updating
  <2>2. CASE /\ pc' \in {"delete_old", "delete_cur"} /\ UNCHANGED <<job, cur, old>>
             /\ pc' = "delete_cur" => old = 0
    <3>1. \A n \in Names : n # job.name => Single(t, n, "transition")
      BY <1>1, <1>8, <1>9, SameInv DEF CopyInv, Copies
    <3>2. ASSUME NEW i, Live(t, job.name, i)
          PROVE  i \in {cur, old} \/ (t[i].state = "added" /\ t[i].value = job.value)
      <4>1. CASE i = Len(cache) + 1
        BY <1>7, <4>1 DEF Entry
      <4>2. CASE i # Len(cache) + 1
        BY <1>6, <1>7, <3>2, <4>2
      <4> QED
        BY <4>1, <4>2
    <3>3. cur \notin AllOf(t, job.name, "added") /\ old \notin AllOf(t, job.name, "added")
      BY <1>1, <1>7
    <3>4. old # 0 => old < cur
      BY <1>1 DEF CopyInv, Copies
    <3>5. pc' = "delete_cur" => ~Live(t, job.name, old)
      BY <1>8, <2>2 DEF Live
    <3>6. Committed'
      BY <1>12, <2>2 DEF Updating
    <3> QED
      BY <1>2, <2>2, <3>1, <3>2, <3>3, <3>4, <3>5, <3>6 DEF Copies
  <2> QED
    BY <1>11, <2>1, <2>2
<1> QED
  BY <1>2, <1>7, <1>13, <1>14 DEF CopyInv, Ordered

\* The new entry goes into a reclaimed store: the update commits.
LEMMA SpaceSteps ==
  ASSUME StoreInv, TypeInv, TypeInv', CopyInv, FindSpace
  PROVE  /\ CopyInv' /\ [Store!Next]_(Store!vars)
         /\ (status # "success" /\ status' = "success") => Read(flash', job.name) = job.value
<1> DEFINE kept == Kept(flash)
           t == Append(kept, Entry(job, "added"))
<1>1. /\ pc = "space" /\ pc \in Updating /\ job \in Jobs /\ job.value # NoValue
      /\ flash \in Seq(Entries) /\ cache = flash
  BY DEF FindSpace, TypeInv, TypeOK, Updating, StoreInv, Mirrors
<1>2. \/ /\ flash' = flash /\ pc' \in {"idle", "flush"}
         /\ status' \in {status, "out_of_resources", "device_error"}
      \/ flash' = flash /\ pc' = "header" /\ UNCHANGED <<job, cur, old, status>>
      \/ flash' = kept \o <<Entry(job, "added")>> /\ pc' \in {"idle", "flush"}
  BY DEF FindSpace, ReclaimWith, ReclaimTo, ReclaimFails, Fail, Succeed, FlushHob, Exit,
     Goto, call
<1>3. {"idle", "flush"} \cap Updating = {}
  BY DEF Updating
<1>4. CASE /\ flash' = flash /\ pc' \in {"idle", "flush"}
           /\ status' \in {status, "out_of_resources", "device_error"}
  BY <1>3, <1>4, Rests
<1>5. CASE flash' = flash /\ pc' = "header" /\ UNCHANGED <<job, cur, old, status>>
  BY <1>1, <1>5, Rests
<1>6. CASE flash' = kept \o <<Entry(job, "added")>> /\ pc' \in {"idle", "flush"}
  <2>1. /\ \A n \in Names : Single(flash, n, "added")
        /\ \A n \in Names : n # job.name => Single(flash, n, "transition")
    BY <1>1 DEF CopyInv, Ordered, Copies
  <2>2. /\ kept \in Seq(Entries)
        /\ \A n \in Names : Single(kept, n, "added") /\ OldFirst(kept, n)
    BY <1>1, <2>1, KeptOnce DEF OldFirst
  <2>3. ASSUME NEW n \in Names, n # job.name PROVE Read(kept, n) = Read(flash, n)
    <3>1. ASSUME NEW i, Live(flash, n, i) PROVE i \notin {cur, old}
      <4>1. i \in DOMAIN flash /\ flash[i].name = n /\ i # 0
        BY <1>1, <3>1 DEF Live
      <4>2. /\ cur # 0 => flash[cur].name = job.name
            /\ old # 0 => flash[old].name = job.name
        BY <1>1 DEF StoreInv, Replaces, Live
      <4> QED
        BY <2>3, <4>1, <4>2
    <3> QED
      BY <1>1, <2>1, <2>3, <3>1, KeptReads
  <2>4. AllOf(kept, job.name, "added") = {}
    <3>1. /\ AllOf(flash, job.name, "added") = {}
          /\ \A i : Live(flash, job.name, i) => i \in {cur, old}
      BY <1>1, NoneAdded DEF CopyInv
    <3>2. \A k : ~Live(kept, job.name, k)
      BY <1>1, <3>1, KeptNone
    <3> QED
      BY <3>2 DEF Live, AllOf
  <2>5. Entry(job, "added") \in Entries
    BY <1>1, NewEntry DEF States
  <2> HIDE DEF kept
  <2>6. flash' = t
    BY <1>6, <2>2, <2>5
  <2>7. /\ Ordered(t) /\ Read(t, job.name) = job.value
        /\ \A n : n # job.name => SameCopies(kept, t, n)
    BY <1>1, <2>2, <2>4, AddedCopies DEF Ordered
  <2>8. t \in Seq(Entries)
    BY <2>2, <2>5
  <2> HIDE DEF t
  <2>9. \A n \in Names : Read(t, n) = IF n = job.name THEN job.value ELSE Read(flash, n)
    BY <2>2, <2>3, <2>7, <2>8, SameRead
  <2>10. ~Committed /\ pc' \notin Updating
    BY <1>1, <1>3, <1>6 DEF Committed
  <2>11. [Store!Next]_(Store!vars)
    BY <1>1, <2>6, <2>9, <2>10, Commits
  <2> QED
    BY <2>6, <2>7, <2>10, <2>11 DEF CopyInv, Ordered, Copies
<1> QED
  BY <1>2, <1>4, <1>5, <1>6

\* A copy is deleted.
LEMMA DeletedCopies ==
  ASSUME NEW s \in Seq(Entries), NEW i, Ordered(s)
  PROVE  LET t == Advance(s, i, "deleted")
         IN  /\ t \in Seq(Entries) /\ Ordered(t)
             /\ \A n, k : Live(t, n, k) <=> (Live(s, n, k) /\ k # i)
             /\ \A k \in DOMAIN s : k # i => t[k] = s[k]
             /\ \A n : Single(s, n, "transition") => Single(t, n, "transition")
             /\ \A n, state : state \in {"added", "transition"} =>
                  AllOf(t, n, state) = AllOf(s, n, state) \ {i}
             /\ \A n : ~Live(s, n, i) => SameCopies(s, t, n)
<1> DEFINE t == Advance(s, i, "deleted")
<1>1. /\ t \in Seq(Entries) /\ DOMAIN t = DOMAIN s
      /\ \A k \in DOMAIN s : k # i => t[k] = s[k]
      /\ i \in DOMAIN s => t[i].state = "deleted"
  BY Advanced DEF States
<1> HIDE DEF t
<1>2. \A n, k : Live(t, n, k) <=> (Live(s, n, k) /\ k # i)
  BY <1>1 DEF Live
<1>3. \A n, state : state \in {"added", "transition"} =>
        AllOf(t, n, state) = AllOf(s, n, state) \ {i}
  BY <1>1 DEF AllOf
<1>4. /\ Ordered(t)
      /\ \A n : Single(s, n, "transition") => Single(t, n, "transition")
  BY <1>3 DEF Ordered, Single, OldFirst
<1>5. ASSUME NEW n, ~Live(s, n, i) PROVE SameCopies(s, t, n)
  BY <1>1, <1>2, <1>5 DEF SameCopies, Live
<1> QED
  BY <1>1, <1>2, <1>3, <1>4, <1>5 DEF t

\* What the deletions of an update know of its variable's copies.
LEMMA Deleting ==
  ASSUME StoreInv, TypeInv, CopyInv, pc \in {"delete_old", "delete_cur", "mark"}
  PROVE  /\ cache = flash /\ flash \in Seq(Entries) /\ job \in Jobs /\ job.name \in Names
         /\ cur \in 0 .. Len(flash) /\ old \in 0 .. Len(flash)
         /\ pc \in Updating /\ Single(flash, job.name, "added")
         /\ cur # 0 => Live(flash, job.name, cur)
         /\ old # 0 => flash[old].name = job.name
         /\ \A n, i : (Live(flash, n, i) /\ i \in {cur, old}) => n = job.name
         /\ ~Committed => \A i : Live(flash, job.name, i) => i \in {cur, old}
         /\ Committed => \E i \in DOMAIN flash \ {cur, old} :
              /\ Live(flash, job.name, i) /\ flash[i].state = "added"
              /\ flash[i].value = job.value
<1>1. /\ cache = flash /\ flash \in Seq(Entries) /\ job \in Jobs
      /\ cur \in 0 .. Len(flash) /\ old \in 0 .. Len(flash) /\ pc \in Updating
  BY DEF StoreInv, Mirrors, TypeInv, TypeOK, Updating
<1>2. job.name \in Names
  BY <1>1 DEF Jobs
<1>3. Single(flash, job.name, "added")
  BY <1>2 DEF CopyInv, Ordered
<1>4. /\ cur # 0 => Live(flash, job.name, cur)
      /\ old # 0 => flash[old].name = job.name
  BY <1>1 DEF StoreInv, Replaces
<1>5. ASSUME NEW n, NEW i, Live(flash, n, i), i \in {cur, old} PROVE n = job.name
  <2>1. i # 0 /\ flash[i].name = n
    BY <1>1, <1>5 DEF Live
  <2> QED
    BY <1>4, <1>5, <2>1 DEF Live
<1>6. ~Committed => \A i : Live(flash, job.name, i) => i \in {cur, old}
  BY <1>1 DEF CopyInv, Copies
<1>7. ASSUME Committed
      PROVE  \E i \in DOMAIN flash \ {cur, old} :
               /\ Live(flash, job.name, i) /\ flash[i].state = "added"
               /\ flash[i].value = job.value
  <2>1. PICK i \in DOMAIN flash \ {cur, old} : flash[i] = Entry(job, "added")
    BY <1>1, <1>7 DEF Committed, StoreInv, Replaces
  <2> QED
    BY <2>1 DEF Entry, Live
<1> QED
  BY <1>1, <1>2, <1>3, <1>4, <1>5, <1>6, <1>7

\* The older copy is deleted: the variable reads as the newer one, or as the new
\* entry.
LEMMA DeleteOldSteps ==
  ASSUME StoreInv, TypeInv, TypeInv', CopyInv, DeleteOld
  PROVE  CopyInv' /\ [Store!Next]_(Store!vars)
<1> DEFINE t == Advance(flash, old, "deleted")
<1>1. /\ pc = "delete_old" /\ pc' = "delete_cur" /\ flash' = t /\ UNCHANGED <<job, cur, old>>
  BY DEF DeleteOld, WriteState, Goto, call
<1>2. /\ flash \in Seq(Entries) /\ job.name \in Names
      /\ cur \in 0 .. Len(flash) /\ old \in 0 .. Len(flash)
      /\ pc \in Updating /\ Single(flash, job.name, "added")
      /\ cur # 0 => Live(flash, job.name, cur)
      /\ \A n, i : (Live(flash, n, i) /\ i \in {cur, old}) => n = job.name
      /\ ~Committed => \A i : Live(flash, job.name, i) => i \in {cur, old}
      /\ Committed => \E i \in DOMAIN flash \ {cur, old} :
           /\ Live(flash, job.name, i) /\ flash[i].state = "added"
           /\ flash[i].value = job.value
  BY <1>1, Deleting
<1>3. /\ t \in Seq(Entries) /\ Ordered(t)
      /\ \A n, k : Live(t, n, k) <=> (Live(flash, n, k) /\ k # old)
      /\ \A k \in DOMAIN flash : k # old => t[k] = flash[k]
      /\ \A n : Single(flash, n, "transition") => Single(t, n, "transition")
      /\ \A n, state : state \in {"added", "transition"} =>
           AllOf(t, n, state) = AllOf(flash, n, state) \ {old}
      /\ \A n : ~Live(flash, n, old) => SameCopies(flash, t, n)
  BY <1>2, DeletedCopies DEF CopyInv
<1> HIDE DEF t
<1>4. Committed' <=> Committed
  BY <1>1 DEF Committed
<1>5. /\ \A n \in Names : n # job.name => Single(flash, n, "transition")
      /\ \A i : Live(flash, job.name, i) =>
           \/ i \in {cur, old}
           \/ Committed /\ flash[i].state = "added" /\ flash[i].value = job.value
      /\ old # 0 => old < cur
      /\ old \notin AllOf(flash, job.name, "added")
      /\ Committed => cur \notin AllOf(flash, job.name, "added")
  BY <1>2 DEF CopyInv, Copies
<1>6. Copies'
  <2>1. ASSUME NEW i, Live(t, job.name, i)
        PROVE  \/ i \in {cur, old}
               \/ Committed /\ t[i].state = "added" /\ t[i].value = job.value
    <3>1. Live(flash, job.name, i) /\ i # old
      BY <1>3, <2>1
    <3>2. t[i] = flash[i]
      BY <1>3, <3>1 DEF Live
    <3> QED
      BY <1>5, <3>1, <3>2
  <2>2. old \notin AllOf(t, job.name, "added")
    BY <1>3
  <2>3. Committed => cur \notin AllOf(t, job.name, "added")
    BY <1>3, <1>5
  <2>4. \A n \in Names : n # job.name => Single(t, n, "transition")
    BY <1>3, <1>5
  <2>5. ~Live(t, job.name, old)
    BY <1>3
  <2> QED
    BY <1>1, <1>4, <1>5, <2>1, <2>2, <2>3, <2>4, <2>5 DEF Copies
<1>7. ASSUME NEW n \in Names PROVE Read(t, n) = Read(flash, n)
  <2>1. CASE ~Live(flash, n, old)
    BY <1>2, <1>3, <2>1, SameRead
  <2>2. CASE Live(flash, n, old) /\ Committed
    <3>1. n = job.name
      BY <1>2, <2>2
    <3>2. PICK i \in DOMAIN flash \ {cur, old} :
            /\ Live(flash, n, i) /\ flash[i].state = "added"
            /\ flash[i].value = job.value
      BY <1>2, <2>2, <3>1
    <3>3. Live(t, n, i) /\ t[i] = flash[i]
      BY <1>3, <3>2
    <3>4. Single(t, n, "added")
      BY <1>3 DEF Ordered
    <3>5. Read(flash, n) = job.value
      BY <1>2, <3>1, <3>2, ReadAdded
    <3>6. Read(t, n) = job.value
      BY <1>3, <3>2, <3>3, <3>4, ReadAdded
    <3> QED
      BY <3>5, <3>6
  <2>3. CASE Live(flash, n, old) /\ ~Committed
    <3>1. n = job.name /\ old # 0 /\ old < cur /\ cur # 0 /\ cur # old
      BY <1>2, <1>5, <2>3 DEF Live
    <3>2. /\ \A i : Live(flash, n, i) => i \in {cur, old}
          /\ Live(flash, n, cur)
      BY <1>2, <2>3, <3>1
    <3>3. flash[old].state # "added"
      BY <1>5, <2>3, <3>1 DEF Live, AllOf
    <3>4. Read(flash, n) = flash[cur].value
      BY <1>2, <3>1, <3>2, <3>3, ReadLast
    <3>5. /\ Live(t, n, cur) /\ t[cur] = flash[cur]
          /\ \A i : Live(t, n, i) => i \in {cur}
      <4>1. cur \in DOMAIN flash
        BY <3>2 DEF Live
      <4>2. Live(t, n, cur) /\ t[cur] = flash[cur]
        BY <1>3, <3>1, <3>2, <4>1
      <4>3. \A i : Live(t, n, i) => (i \in {cur, old} /\ i # old)
        BY <1>3, <3>2
      <4> QED
        BY <4>2, <4>3
    <3>6. Read(t, n) = t[cur].value
      BY <1>3, <3>5, ReadLast
    <3> QED
      BY <3>4, <3>5, <3>6
  <2> QED
    BY <2>1, <2>2, <2>3
<1>8. [Store!Next]_(Store!vars)
  BY <1>1, <1>4, <1>7, Quiet DEF SameReads
<1> QED
  BY <1>1, <1>3, <1>6, <1>8 DEF CopyInv, Ordered

\* The last copy is deleted: a delete commits, an update has done so before.
LEMMA DeleteCurrentSteps ==
  ASSUME StoreInv, TypeInv, TypeInv', CopyInv, DeleteCurrent
  PROVE  /\ CopyInv' /\ [Store!Next]_(Store!vars)
         /\ Read(flash', job.name) = job.value
<1> DEFINE t == Advance(flash, cur, "deleted")
<1>1. /\ pc = "delete_cur" /\ pc' \in {"idle", "flush"} /\ flash' = t
  BY DEF DeleteCurrent, WriteState, Succeed, FlushHob, Exit
<1>2. /\ flash \in Seq(Entries) /\ job.name \in Names /\ pc \in Updating
      /\ Single(flash, job.name, "added")
      /\ \A n, i : (Live(flash, n, i) /\ i \in {cur, old}) => n = job.name
      /\ ~Committed => \A i : Live(flash, job.name, i) => i \in {cur, old}
      /\ Committed => \E i \in DOMAIN flash \ {cur, old} :
           /\ Live(flash, job.name, i) /\ flash[i].state = "added"
           /\ flash[i].value = job.value
  BY <1>1, Deleting
<1>3. /\ t \in Seq(Entries) /\ Ordered(t)
      /\ \A n, k : Live(t, n, k) <=> (Live(flash, n, k) /\ k # cur)
      /\ \A k \in DOMAIN flash : k # cur => t[k] = flash[k]
      /\ \A n : ~Live(flash, n, cur) => SameCopies(flash, t, n)
  BY <1>2, DeletedCopies DEF CopyInv
<1> HIDE DEF t
<1>4. pc' \notin Updating
  BY <1>1 DEF Updating
<1>5. ASSUME NEW n \in Names, n # job.name PROVE Read(t, n) = Read(flash, n)
  <2>1. ~Live(flash, n, cur)
    BY <1>2, <1>5
  <2> QED
    BY <1>2, <1>3, <2>1, SameRead
<1>6. ASSUME Committed PROVE [Store!Next]_(Store!vars) /\ Read(t, job.name) = job.value
  <2>1. PICK i \in DOMAIN flash \ {cur, old} :
          /\ Live(flash, job.name, i) /\ flash[i].state = "added"
          /\ flash[i].value = job.value
    BY <1>2, <1>6
  <2>2. Live(t, job.name, i) /\ t[i] = flash[i]
    BY <1>3, <2>1
  <2>3. Single(t, job.name, "added")
    BY <1>2, <1>3 DEF Ordered
  <2>4. Read(flash, job.name) = job.value
    BY <1>2, <2>1, ReadAdded
  <2>5. Read(t, job.name) = job.value
    BY <1>3, <2>1, <2>2, <2>3, ReadAdded
  <2>6. \A n \in Names : Read(t, n) = Read(flash, n)
    BY <1>5, <2>4, <2>5
  <2> QED
    BY <1>1, <1>4, <2>5, <2>6, Quiet DEF SameReads
<1>7. ASSUME ~Committed PROVE [Store!Next]_(Store!vars) /\ Read(t, job.name) = job.value
  <2>1. job.value = NoValue
    BY <1>1, <1>7 DEF Committed
  <2>2. ~Live(flash, job.name, old)
    BY <1>1, <1>2 DEF CopyInv, Copies
  <2>3. \A i : ~Live(t, job.name, i)
    BY <1>2, <1>3, <1>7, <2>2
  <2>4. Read(t, job.name) = NoValue
    BY <1>3, <2>3, ReadNone
  <2>5. \A n \in Names : Read(t, n) = IF n = job.name THEN job.value ELSE Read(flash, n)
    BY <1>5, <2>1, <2>4
  <2> QED
    BY <1>1, <1>2, <1>4, <1>7, <2>1, <2>4, <2>5, Commits
<1> QED
  BY <1>1, <1>3, <1>4, <1>6, <1>7 DEF CopyInv, Ordered, Copies

\* The current entry becomes IN_DELETED_TRANSITION: it is still what the
\* variable reads as.
LEMMA MarkSteps ==
  ASSUME StoreInv, TypeInv, TypeInv', CopyInv, MarkOld
  PROVE  CopyInv' /\ [Store!Next]_(Store!vars)
<1> DEFINE t == Advance(flash, cur, "transition")
<1>1. /\ pc = "mark" /\ pc' = "space" /\ flash' = t /\ UNCHANGED <<job, cur, old>>
  BY DEF MarkOld, WriteState, Goto, call
<1>2. /\ flash \in Seq(Entries) /\ job.name \in Names
      /\ cur \in 0 .. Len(flash) /\ old \in 0 .. Len(flash) /\ pc \in Updating
      /\ cur # 0 => Live(flash, job.name, cur)
      /\ ~Committed
      /\ ~Committed => \A i : Live(flash, job.name, i) => i \in {cur, old}
  <2>1. ~Committed
    BY <1>1 DEF Committed
  <2> QED
    BY <1>1, <2>1, Deleting
<1>3. /\ t \in Seq(Entries) /\ DOMAIN t = DOMAIN flash
      /\ \A k \in DOMAIN flash : k # cur => t[k] = flash[k]
      /\ \A k \in DOMAIN flash : t[k].name = flash[k].name /\ t[k].value = flash[k].value
      /\ cur \in DOMAIN flash => t[cur].state = "transition"
  <2>1. /\ "transition" \in States /\ flash \in Seq(Entries)
        /\ cur \in DOMAIN flash => flash[cur].state # "deleted"
    BY <1>2 DEF States, Live
  <2> QED
    BY <2>1, Advanced
<1> HIDE DEF t
<1>4. /\ \A n \in Names : n # job.name => Single(flash, n, "transition")
      /\ old # 0 => old < cur
      /\ old \notin AllOf(flash, job.name, "added")
  BY <1>2 DEF CopyInv, Copies
<1>5. /\ cur \in DOMAIN flash => Live(flash, job.name, cur)
      /\ \A n, i : Live(flash, n, i) => i \in DOMAIN flash
  <2>1. 0 \notin DOMAIN flash
    BY <1>2
  <2> QED
    BY <1>2, <2>1 DEF Live
<1>6. \A n, i : Live(t, n, i) <=> Live(flash, n, i)
  BY <1>3, <1>5 DEF Live
<1>7. ASSUME NEW n, n # job.name PROVE SameCopies(flash, t, n)
  <2> SUFFICES ASSUME NEW i, Live(flash, n, i)
               PROVE  flash[i].state = t[i].state /\ flash[i].value = t[i].value
    BY <1>6 DEF SameCopies
  <2>1. i \in DOMAIN flash /\ i # cur
    BY <1>5, <1>7 DEF Live
  <2> QED
    BY <1>3, <2>1
<1>8. AllOf(t, job.name, "added") = {}
  <2> SUFFICES ASSUME NEW i \in AllOf(t, job.name, "added") PROVE FALSE
    OBVIOUS
  <2>1. Live(t, job.name, i) /\ t[i].state = "added" /\ i \in DOMAIN flash
    BY <1>3 DEF AllOf, Live
  <2>2. i \in {cur, old} /\ i # cur
    BY <1>2, <1>3, <1>6, <2>1
  <2>3. i = old /\ i \in DOMAIN flash /\ t[i] = flash[i]
    BY <1>3, <2>1, <2>2
  <2> QED
    BY <1>4, <1>6, <2>1, <2>3 DEF AllOf, Live
<1>9. Ordered(t)
  <2>1. Single(t, job.name, "added") /\ OldFirst(t, job.name)
    BY <1>8 DEF Single, OldFirst
  <2>2. ASSUME NEW n \in Names, n # job.name PROVE Single(t, n, "added") /\ OldFirst(t, n)
    BY <1>2, <1>3, <1>7, <2>2, SameInv DEF CopyInv, Ordered
  <2> QED
    BY <2>1, <2>2 DEF Ordered
<1>10. Copies'
  <2>1. \A n \in Names : n # job.name => Single(t, n, "transition")
    BY <1>2, <1>3, <1>4, <1>7, SameInv
  <2>2. \A i : Live(t, job.name, i) => i \in {cur, old}
    BY <1>2, <1>6
  <2> QED
    BY <1>1, <1>4, <1>8, <2>1, <2>2 DEF Copies
<1>11. ASSUME NEW n \in Names PROVE Read(t, n) = Read(flash, n)
  <2>1. CASE n # job.name
    BY <1>2, <1>3, <1>7, <2>1, SameRead
  <2>2. CASE n = job.name /\ cur \notin DOMAIN flash
    <3>1. SameCopies(flash, t, n)
      BY <1>3, <1>5, <1>6, <2>2 DEF SameCopies
    <3> QED
      BY <1>2, <1>3, <3>1, SameRead
  <2>3. CASE n = job.name /\ cur \in DOMAIN flash
    <3>1. Live(flash, n, cur) /\ \A i : Live(flash, n, i) => i \in {cur, old}
      BY <1>2, <1>5, <2>3
    <3>2. Live(flash, n, old) => (old < cur /\ flash[old].state # "added")
      BY <1>2, <1>4, <2>3 DEF Live, AllOf
    <3>3. Read(flash, n) = flash[cur].value
      BY <1>2, <3>1, <3>2, ReadLast
    <3>4. Live(t, n, cur) /\ \A i : Live(t, n, i) => i \in {cur, old}
      BY <1>6, <3>1
    <3>5. Live(t, n, old) => (old < cur /\ t[old].state # "added")
      BY <1>6, <1>8, <2>3, <3>2 DEF Live, AllOf
    <3>6. Read(t, n) = t[cur].value
      BY <1>3, <3>4, <3>5, ReadLast
    <3> QED
      BY <1>3, <2>3, <3>3, <3>6
  <2> QED
    BY <2>1, <2>2, <2>3
<1>12. ~Committed'
  BY <1>1 DEF Committed
<1>13. [Store!Next]_(Store!vars)
  BY <1>1, <1>2, <1>11, <1>12, Quiet DEF SameReads
<1> QED
  BY <1>1, <1>9, <1>10, <1>13 DEF CopyInv, Ordered

\* Every step keeps the invariant and is a step of AtomicStore or a stutter.
LEMMA CopyStep ==
  ASSUME EntriesWork, StoreInv, OneOldCopy, CopyInv, [Next]_vars
  PROVE  CopyInv' /\ [Store!Next]_(Store!vars)
<1>1. CASE UNCHANGED vars
  <2>1. flash' = flash /\ UNCHANGED <<pc, job, cur, old>>
    BY <1>1 DEF vars, call
  <2>2. CopyInv'
    BY <2>1 DEF CopyInv, Ordered, Copies, Committed
  <2>3. InFlight' = InFlight
    BY <2>1 DEF InFlight
  <2>4. [n \in Names |-> Read(flash, n)]' = [n \in Names |-> Read(flash, n)]
    BY <2>1
  <2> QED
    BY <2>2, <2>3, <2>4 DEF Store!vars
<1>2. CASE Next
  <2>1. TypeInv /\ TypeInv'
    BY <1>2, TypeStep DEF StoreInv
  <2>2. CASE StateFails
    <3>1. flash' = flash /\ pc' \notin Updating
      BY <2>2 DEF StateFails, Fail, Exit, Updating
    <3> QED
      BY <2>1, <3>1, Rests
  <2>3. ~EntryFails
    BY DEF EntriesWork, EntryFails
  <2> QED
    BY <1>2, <2>1, <2>2, <2>3, SetSteps, EntrySteps, AddedSteps, SpaceSteps,
       DeleteOldSteps, DeleteCurrentSteps, MarkSteps, PowerSteps, ReclaimSteps
       DEF Next, UpdateVariable
<1> QED
  BY <1>1, <1>2

\* An empty store has no variable.
LEMMA InitMaps == Init => CopyInv /\ Store!Init
<1> SUFFICES ASSUME Init PROVE CopyInv /\ Store!Init
  OBVIOUS
<1>1. flash = <<>> /\ flash \in Seq(Entries) /\ pc \notin Updating
  BY DEF Init, Updating
<1>2. \A n : /\ \A state : AllOf(flash, n, state) = {}
             /\ \A i : ~Live(flash, n, i)
  BY <1>1 DEF AllOf, Live
<1>3. CopyInv
  BY <1>1, <1>2 DEF CopyInv, Ordered, Single, OldFirst, Copies
<1>4. \A n \in Names : Read(flash, n) = NoValue
  BY <1>1, <1>2, ReadNone
<1>5. InFlight = NoRequest
  BY DEF Init, InFlight
<1> QED
  BY <1>3, <1>4, <1>5 DEF Store!Init

-----------------------------------------------------------------------------
(************************** One copy that is old ***************************)

\* A step that ends an update adds no copy that is IN_DELETED_TRANSITION.
LEMMA NoNewOldCopy ==
  ASSUME EntriesWork, StoreInv, TypeInv', CopyInv, Next, pc' \notin Updating, NEW n \in Names
  PROVE  AllOf(flash', n, "transition") \subseteq AllOf(flash, n, "transition")
<1>1. flash \in Seq(Entries) /\ flash' \in Seq(Entries) /\ TypeInv
  BY DEF StoreInv, TypeInv, TypeOK
<1>2. CASE flash' = flash
  BY <1>2
<1>3. CASE SameCopies(flash, flash', n)
  BY <1>1, <1>3, SameRead
<1>4. /\ Kept(flash) \in Seq(Entries) /\ AllOf(Kept(flash), n, "transition") = {}
      /\ \A k \in DOMAIN Kept(flash) : Kept(flash)[k].state = "added"
  BY <1>1, KeptOnce DEF CopyInv, Ordered
<1>5. CASE WriteServiceInitialize \/ ReadyToBoot
  <2>1. flash' \in {flash, Kept(flash)}
    BY <1>5 DEF WriteServiceInitialize, ReadyToBoot, ReclaimTo, ReclaimFails
  <2> QED
    BY <1>2, <1>4, <2>1
<1>6. CASE DeleteCurrent
  <2>1. flash' = Advance(flash, cur, "deleted")
    BY <1>6 DEF DeleteCurrent, WriteState
  <2> QED
    BY <1>1, <2>1, DeletedCopies DEF CopyInv
<1>7. CASE FindSpace
  <2>1. /\ pc = "space" /\ job \in Jobs /\ job.value # NoValue
        /\ flash' = flash \/ flash' = Kept(flash) \o <<Entry(job, "added")>>
    BY <1>1, <1>7 DEF FindSpace, ReclaimWith, ReclaimTo, ReclaimFails, TypeInv, Updating
  <2>2. Entry(job, "added") \in Entries /\ Entry(job, "added").state = "added"
    BY <2>1, NewEntry DEF States
  <2>3. CASE flash' = Kept(flash) \o <<Entry(job, "added")>>
    <3> DEFINE kept == Kept(flash)
               e == Entry(job, "added")
    <3> HIDE DEF kept, e
    <3>1. kept \in Seq(Entries) /\ e \in Entries /\ flash' = kept \o <<e>>
      BY <1>4, <2>2, <2>3 DEF kept, e
    <3>2. /\ e.state = "added"
          /\ \A k \in DOMAIN kept : kept[k].state = "added"
      BY <1>4, <2>2 DEF kept, e
    <3>3. \A k \in DOMAIN flash' : flash'[k].state = "added"
      BY <3>1, <3>2
    <3> QED
      BY <3>3 DEF AllOf
  <2> QED
    BY <1>2, <2>1, <2>3
<1>8. CASE WriteAdded
  <2>1. /\ pc = "added" /\ job \in Jobs /\ job.value # NoValue /\ cache \in Seq(Entries)
        /\ flash = Append(cache, Entry(job, "valid"))
        /\ flash' = Append(cache, Entry(job, "added"))
    BY <1>1, <1>8, EntryWritten
       DEF WriteAdded, TypeInv, TypeOK, Updating, StoreInv, Mirrors
  <2>2. Entry(job, "added") \in Entries /\ Entry(job, "added").state = "added"
        /\ Entry(job, "valid") \in Entries
    BY <2>1, NewEntry DEF States
  <2>3. ASSUME NEW i \in DOMAIN flash', flash'[i].state = "transition"
        PROVE  i \in DOMAIN flash /\ flash[i] = flash'[i]
    <3> DEFINE e == Entry(job, "added")
               f == Entry(job, "valid")
    <3> HIDE DEF e, f
    <3>1. /\ cache \in Seq(Entries) /\ e \in Entries /\ f \in Entries /\ e.state = "added"
          /\ flash = Append(cache, f) /\ flash' = Append(cache, e)
      BY <2>1, <2>2 DEF e, f
    <3>2. i # Len(cache) + 1
      BY <2>3, <3>1
    <3> QED
      BY <2>3, <3>1, <3>2
  <2> QED
    BY <2>3 DEF AllOf
<1>9. CASE PowerLoss
  <2>1. Interrupted
    BY <1>9 DEF PowerLoss
  <2>2. CASE flash' # flash
    <3>1. pc = "header" /\ cache = flash /\ flash' = Append(flash, Entry(job, "torn"))
      BY <2>1, <2>2, EntryWritten
    <3>2. /\ job \in Jobs /\ job.value # NoValue
          /\ "torn" \in States \ {"added", "transition"}
      BY <1>1, <3>1 DEF TypeInv, Updating, States
    <3>3. SameCopies(flash, flash', n)
      BY <1>1, <2>2, <3>1, <3>2, NewIsNoCopy
    <3> QED
      BY <1>3, <3>3
  <2> QED
    BY <1>2, <2>2
<1>10. CASE \/ PowerOn \/ ExitBootServices \/ StateFails
            \/ Flush \/ \E j \in Jobs : SetVariable(j)
  <2>1. flash' = flash
    BY <1>10 DEF PowerOn, ExitBootServices, StateFails, Flush, FlushNext, FlushEnd, SetVariable
  <2> QED
    BY <1>2, <2>1
<1>11. CASE DeleteOld \/ MarkOld \/ WriteHeader \/ WriteValid \/ WriteData
  BY <1>11 DEF DeleteOld, MarkOld, WriteHeader, WriteValid, WriteData, Goto, Updating
<1>12. ~EntryFails
  BY DEF EntriesWork, EntryFails
<1> QED
  BY <1>5, <1>6, <1>7, <1>8, <1>9, <1>10, <1>11, <1>12 DEF Next, UpdateVariable

\* An update that found an older copy of its variable ends with one: it was
\* refused, or interrupted, between its first write and the deletion of that
\* copy.
LeavesOldCopy ==
  /\ pc \in {"space", "header", "valid", "data", "added", "delete_old"}
  /\ job.value # NoValue /\ old # 0
  /\ pc' \notin Updating /\ AllOf(flash', job.name, "transition") # {}

\* Nothing else leaves a variable with two.
LEMMA OldCopyStep ==
  ASSUME EntriesWork, StoreInv, OneOldCopy, CopyInv, Next, ~LeavesOldCopy
  PROVE  OneOldCopy'
<1> SUFFICES ASSUME pc' \notin Updating, NEW n \in Names
             PROVE  Single(flash', n, "transition")
  BY DEF OneOldCopy
<1>1. TypeInv'
  BY TypeStep DEF StoreInv
<1>2. AllOf(flash', n, "transition") \subseteq AllOf(flash, n, "transition")
  BY <1>1, NoNewOldCopy
<1>3. CASE Single(flash, n, "transition")
  BY <1>2, <1>3 DEF Single
<1>4. CASE pc \notin Updating
  BY <1>3, <1>4 DEF OneOldCopy
<1>5. CASE pc \in Updating /\ n # job.name
  BY <1>3, <1>5 DEF CopyInv, Copies
<1>6. CASE pc \in Updating /\ n = job.name
  <2> DEFINE T == AllOf(flash, n, "transition")
  <2>1. /\ \A i \in T : Live(flash, n, i) /\ flash[i].state = "transition"
        /\ \A i \in T : i \notin AllOf(flash, n, "added")
        /\ 0 \notin T
    <3>1. flash \in Seq(Entries)
      BY DEF StoreInv, TypeInv, TypeOK
    <3> QED
      BY <3>1 DEF AllOf, Live
  <2>2. T \subseteq {cur, old}
    BY <1>6, <2>1 DEF CopyInv, Copies
  <2>3. CASE old \notin T
    BY <1>3, <2>2, <2>3 DEF Single
  <2>4. CASE cur \notin T
    BY <1>3, <2>2, <2>4 DEF Single
  <2>5. CASE pc = "delete_cur"
    BY <1>6, <2>1, <2>3, <2>5 DEF CopyInv, Copies
  <2>6. CASE pc = "mark" \/ (pc = "delete_old" /\ ~Committed)
    BY <1>6, <2>1, <2>3, <2>4, <2>6 DEF CopyInv, Copies, Committed
  <2>7. CASE \/ pc \in {"space", "header", "valid", "data", "added"}
             \/ pc = "delete_old" /\ Committed
    <3>1. job.value # NoValue
      BY <2>7 DEF Committed, StoreInv, TypeInv, Updating
    <3>2. CASE old = 0
      BY <2>1, <2>3, <3>2
    <3>3. CASE old # 0
      <4>1. AllOf(flash', n, "transition") = {}
        BY <1>6, <2>7, <3>1, <3>3 DEF LeavesOldCopy
      <4> QED
        BY <4>1 DEF Single
    <3> QED
      BY <3>2, <3>3
  <2>8. \/ pc = "delete_cur" \/ pc = "mark" \/ pc = "delete_old"
        \/ pc \in {"space", "header", "valid", "data", "added"}
    BY <1>6 DEF Updating
  <2>9. CASE pc = "delete_old"
    BY <2>6, <2>7, <2>9
  <2> QED
    BY <2>5, <2>6, <2>7, <2>8, <2>9
<1> QED
  BY <1>4, <1>5, <1>6

\* What holds of the copies of the variables at any time.
LEMMA CopyInvariant ==
  ASSUME EntriesWork
  PROVE  Spec /\ [][~LeavesOldCopy]_vars => [](OneOldCopy /\ CopyInv)
<1>1. Init => OneOldCopy /\ CopyInv
  BY InitMaps DEF Init, OneOldCopy, Single, AllOf
<1>2. StoreInv /\ OneOldCopy /\ CopyInv /\ [Next]_vars /\ [~LeavesOldCopy]_vars =>
        OneOldCopy' /\ CopyInv'
  <2> SUFFICES ASSUME StoreInv, OneOldCopy, CopyInv, [Next]_vars, [~LeavesOldCopy]_vars
               PROVE  OneOldCopy' /\ CopyInv'
    OBVIOUS
  <2>1. CopyInv'
    BY CopyStep
  <2>2. CASE UNCHANGED vars
    BY <2>1, <2>2 DEF vars, OneOldCopy
  <2>3. CASE Next /\ ~LeavesOldCopy
    BY <2>1, <2>3, OldCopyStep
  <2> QED
    BY <2>2, <2>3
<1> QED
  BY StoreInvariant, <1>1, <1>2, PTL DEF Spec

\* SetVariable takes effect or does not, and nothing else changes what a
\* variable reads, neither a reclaim, nor any number of power losses, nor the
\* recovery from them, unless an update that completes an earlier one that was
\* interrupted (Variable.c:2769) is itself cut short: FindVariableEx and Reclaim
\* then disagree on the copy that counts (Variable.c:1122), and a delete does
\* not find all of them.
THEOREM SetIsAtomic ==
  ASSUME EntriesWork
  PROVE  Spec /\ [][~LeavesOldCopy]_vars => AtomicSet
<1>1. StoreInv /\ OneOldCopy /\ CopyInv /\ [Next]_vars => [Store!Next]_(Store!vars)
  BY CopyStep
<1> QED
  BY StoreInvariant, CopyInvariant, InitMaps, <1>1, PTL DEF Spec, AtomicSet, Store!Spec

-----------------------------------------------------------------------------
(***************************** What the caller sees ************************)

\* FlushHobVariableToFlash cannot set a variable, which then stays in the HOB.
KeepsHob == flushing /\ pc \in Updating /\ pc' = "flush" /\ hob'[job.name] # NoValue

\* A variable of the HOB has yet to be visited, or is being set.
HobVisited ==
  /\ ~flushing => todo = {}
  /\ pc # "write_service" =>
       \A n \in Names : hob[n] # NoValue =>
         flushing /\ (n \in todo \/ (pc \in Updating /\ job.name = n))

\* What the caller has set is in flash, and the loop over the HOB, which may
\* still be running, does not set it again.
Settled ==
  status = "success" =>
    /\ pc \notin {"off", "write_service"}
    /\ request # NoRequest /\ Read(flash, request.name) = request.value
    /\ request.name \notin todo
    /\ pc \in Updating => job.name # request.name

\* Only the variable of an update reads anything else after a step.
LEMMA OthersRead ==
  ASSUME EntriesWork, StoreInv, OneOldCopy, CopyInv, Next, NEW n \in Names,
         pc \in Updating => job.name # n
  PROVE  Read(flash', n) = Read(flash, n)
<1> DEFINE f == [m \in Names |-> Read(flash, m)]
<1>1. [Store!Next]_(Store!vars)
  BY CopyStep
<1>2. InFlight # NoRequest => pc \in Updating /\ InFlight.keys = {job.name}
  BY InFlightCases DEF StoreInv
<1>3. f' = f \/ (InFlight # NoRequest /\ Store!Commit)
  BY <1>1 DEF Store!Next, Store!Submit, Store!Drop, Store!Commit, Store!vars
<1>4. CASE InFlight # NoRequest /\ Store!Commit
  <2>1. f' = [k \in Names |-> IF k \in InFlight.keys THEN InFlight.value ELSE f[k]]
    BY <1>4 DEF Store!Commit
  <2>2. n \notin InFlight.keys
    BY <1>2, <1>4
  <2>3. f'[n] = f[n]
    BY <2>1, <2>2
  <2> QED
    BY <2>3
<1>5. CASE f' = f
  <2>1. f'[n] = f[n]
    BY <1>5
  <2> QED
    BY <2>1
<1> QED
  BY <1>3, <1>4, <1>5

\* FlushHobVariableToFlash visits every variable that it leaves in the HOB.
LEMMA FlushHobVisits ==
  ASSUME NEW skip, FlushHob(skip), pc' # "write_service"
  PROVE  HobVisited'
BY DEF FlushHob, HobVisited

\* So does its loop: a variable is taken out of the HOB when it is set, and
\* kept only if it cannot be.
LEMMA VisitStep ==
  ASSUME EntriesWork, StoreInv, HobVisited, Next, ~KeepsHob
  PROVE  HobVisited'
<1>1. TypeInv /\ TypeInv'
  BY TypeStep DEF StoreInv
<1>2. /\ hob \in HobType /\ todo \subseteq Names
      /\ pc \in Updating => job \in Jobs
      /\ pc \in {"off", "write_service", "idle"} => ~flushing
      /\ pc = "flush" => flushing
      /\ {"off", "write_service", "idle", "flush"} \cap Updating = {}
  BY <1>1 DEF TypeInv, TypeOK, HobType, Asked, Updating
\* The labels of an update go on with it.
<1>3. ASSUME NEW label, label \in Updating, Goto(label), pc \in Updating
      PROVE  HobVisited'
  BY <1>2, <1>3 DEF Goto, call, hobs, HobVisited
\* A failure.
<1>4. ASSUME NEW error, Fail(error), pc \in Updating
      PROVE  HobVisited'
  <2>1. CASE flushing
    <3>1. /\ pc' = "flush" /\ UNCHANGED <<hob, flushing, todo>>
      BY <1>4, <2>1 DEF Fail, Exit, hobs
    <3>2. hob[job.name] = NoValue
      BY <1>4, <2>1, <3>1 DEF KeepsHob
    <3> QED
      BY <1>2, <1>4, <2>1, <3>1, <3>2 DEF HobVisited
  <2>2. CASE ~flushing
    BY <1>2, <1>4, <2>2 DEF Fail, Exit, hobs, HobVisited
  <2> QED
    BY <2>1, <2>2
\* The end of an update.
<1>5. ASSUME Succeed, pc \in Updating
      PROVE  HobVisited'
  <2>1. CASE flushing
    <3>1. /\ pc' = "flush" /\ UNCHANGED <<flushing, todo>>
          /\ hob' = [hob EXCEPT ![job.name] = NoValue]
      BY <1>5, <2>1 DEF Succeed, Exit
    <3> QED
      BY <1>2, <1>5, <2>1, <3>1 DEF HobVisited, HobType
  <2>2. CASE ~flushing
    <3>1. FlushHob({job.name})
      BY <1>5, <2>2 DEF Succeed
    <3>2. pc' # "write_service"
      BY <3>1 DEF FlushHob, Exit
    <3> QED
      BY <3>1, <3>2, FlushHobVisits
  <2> QED
    BY <2>1, <2>2
<1>6. ASSUME NEW j \in Jobs, SetVariable(j) PROVE HobVisited'
  <2>1. pc = "idle" /\ ~flushing
    BY <1>2, <1>6 DEF SetVariable
  <2>2. CASE FlushHob({j.name})
    <3>1. pc' # "write_service"
      BY <2>2 DEF FlushHob, Exit
    <3> QED
      BY <2>2, <3>1, FlushHobVisits
  <2>3. CASE UNCHANGED hobs
    BY <2>1, <2>3 DEF HobVisited, hobs
  <2> QED
    BY <1>6, <2>2, <2>3 DEF SetVariable
<1>7. ASSUME NEW n \in Names, FlushNext(n) PROVE HobVisited'
  <2> DEFINE j == [name |-> n, value |-> hob[n]]
  <2>1. /\ pc = "flush" /\ flushing /\ flushing' = flushing /\ todo' = todo \ {n}
        /\ \A m \in Names : hob[m] # NoValue => m \in todo
    BY <1>2, <1>7 DEF FlushNext, HobVisited
  <2>2. CASE hob' = [hob EXCEPT ![n] = NoValue]
    BY <1>2, <2>1, <2>2 DEF HobVisited, HobType
  <2>3. CASE Start(j) /\ hob' = hob
    <3>1. job' = j /\ pc' \in Updating
      BY <2>3 DEF Start, Updating
    <3> QED
      BY <2>1, <2>3, <3>1 DEF HobVisited
  <2> QED
    BY <1>7, <2>2, <2>3 DEF FlushNext
<1>8. CASE FlushEnd
  BY <1>2, <1>8 DEF FlushEnd, Exit, HobVisited
<1>9. CASE UpdateVariable
  <2>1. CASE DeleteOld
    BY <1>3, <2>1 DEF DeleteOld, Updating
  <2>2. CASE DeleteCurrent
    BY <1>5, <2>2 DEF DeleteCurrent, Updating
  <2>3. CASE MarkOld
    BY <1>3, <2>3 DEF MarkOld, Updating
  <2>4. CASE FindSpace
    BY <1>3, <1>4, <1>5, <2>4 DEF FindSpace, ReclaimWith, Updating
  <2>5. CASE WriteHeader \/ WriteValid \/ WriteData
    BY <1>3, <2>5 DEF WriteHeader, WriteValid, WriteData, Updating
  <2>6. CASE WriteAdded
    BY <1>3, <1>5, <2>6 DEF WriteAdded, Replace, Updating
  <2> QED
    BY <1>9, <2>1, <2>2, <2>3, <2>4, <2>5, <2>6 DEF UpdateVariable
<1>10. CASE StateFails
  BY <1>4, <1>10 DEF StateFails, Updating
<1>11. ~EntryFails
  BY DEF EntriesWork, EntryFails
<1>12. CASE WriteServiceInitialize
  <2>1. FlushHob({})
    BY <1>12 DEF WriteServiceInitialize, EntriesWork
  <2>2. pc' # "write_service"
    BY <2>1 DEF FlushHob, Exit
  <2> QED
    BY <2>1, <2>2, FlushHobVisits
<1>13. CASE PowerOn
  BY <1>13 DEF PowerOn, HobVisited
<1>14. CASE PowerLoss
  BY <1>14 DEF PowerLoss, HobVisited
<1>15. CASE ReadyToBoot \/ ExitBootServices
  BY <1>2, <1>15 DEF ReadyToBoot, ExitBootServices, hobs, HobVisited
<1> QED
  BY <1>6, <1>7, <1>8, <1>9, <1>10, <1>11, <1>12, <1>13, <1>14, <1>15 DEF Next, Flush

\* What is set stays so while the loop sets other variables, and the caller is
\* told of a success only when the flash reads as it asked.
LEMMA SettledStep ==
  ASSUME EntriesWork, StoreInv, OneOldCopy, CopyInv, HobVisited, Settled, Next
  PROVE  Settled'
<1> SUFFICES ASSUME status' = "success" PROVE Settled'
  BY DEF Settled
<1>1. TypeInv /\ TypeInv'
  BY TypeStep DEF StoreInv
<1>2. /\ hob \in HobType /\ todo \subseteq Names
      /\ request # NoRequest => request \in Jobs
      /\ pc \in Updating => job \in Jobs
      /\ pc \in {"off", "write_service", "idle"} => ~flushing
      /\ {"off", "write_service", "idle", "flush"} \cap Updating = {}
      /\ (pc \in Updating /\ ~flushing) => job = request
      /\ \A j \in Jobs : j # NoRequest
  BY <1>1, ConstantsAssumption DEF TypeInv, TypeOK, HobType, Asked, Updating, Jobs
<1>3. pc = "idle" => \A n \in Names : hob[n] = NoValue
  BY <1>2 DEF HobVisited
\* It was settled, and the step sets nothing else.
<1>4. ASSUME status = "success", request' = request, todo' \subseteq todo,
             pc' \notin {"off", "write_service"},
             pc' \in Updating => (pc \in Updating /\ job' = job) \/ job'.name \in todo
      PROVE  Settled'
  <2>1. /\ request # NoRequest /\ request \in Jobs /\ Read(flash, request.name) = request.value
        /\ request.name \notin todo
        /\ pc \in Updating => job.name # request.name
    BY <1>2, <1>4 DEF Settled
  <2>2. request.name \in Names
    BY <2>1 DEF Jobs
  <2>3. Read(flash', request.name) = Read(flash, request.name)
    BY <2>1, <2>2, OthersRead
  <2>4. pc' \in Updating => job'.name # request.name
    BY <1>4, <2>1
  <2> QED
    BY <1>4, <2>1, <2>3, <2>4 DEF Settled
\* The caller's update ends.
<1>5. ASSUME pc \in Updating, Succeed, Read(flash', job.name) = job.value, ~flushing
      PROVE  Settled'
  <2>1. request' = request /\ FlushHob({job.name}) /\ job = request /\ request # NoRequest
    BY <1>2, <1>5 DEF Succeed
  <2>2. pc' \in {"idle", "flush"}
    BY <2>1 DEF FlushHob, Exit
  <2>3. job.name \notin todo'
    BY <2>1 DEF FlushHob
  <2> QED
    BY <1>2, <1>5, <2>1, <2>2, <2>3 DEF Settled
<1>6. ASSUME pc \in Updating, Succeed, Read(flash', job.name) = job.value
      PROVE  Settled'
  <2>1. CASE flushing
    <3>1. UNCHANGED <<status, request, todo>> /\ pc' = "flush"
      BY <1>6, <2>1 DEF Succeed, Exit
    <3> QED
      BY <1>2, <1>4, <3>1
  <2> QED
    BY <1>5, <1>6, <2>1
<1>7. ASSUME NEW label \in Updating, Goto(label), pc \in Updating
      PROVE  Settled'
  BY <1>2, <1>4, <1>7 DEF Goto, call, hobs
<1>8. ASSUME NEW error, error # "success", Fail(error)
      PROVE  Settled'
  <2>1. flushing /\ UNCHANGED <<status, request, todo>> /\ pc' = "flush"
    BY <1>8 DEF Fail, Exit, hobs
  <2> QED
    BY <1>2, <1>4, <2>1
<1>9. ASSUME NEW j \in Jobs, SetVariable(j) PROVE Settled'
  <2>1. pc = "idle" /\ request' = j /\ flash' = flash
    BY <1>9 DEF SetVariable
  <2>6. cache = flash
    BY <2>1 DEF StoreInv, Mirrors
  <2>2. ~HobOnly(j)
    BY <1>3, <2>1 DEF HobOnly, Jobs
  <2>3. Unchanged(j) /\ Exit("idle") /\ UNCHANGED hobs
    BY <1>9, <2>2 DEF SetVariable
  <2>4. pc' = "idle"
    BY <2>3 DEF Exit
  <2>5. j.name \notin todo'
    BY <1>2, <2>1, <2>3 DEF HobVisited, hobs
  <2> QED
    BY <1>2, <2>1, <2>3, <2>4, <2>5, <2>6 DEF Settled, Unchanged
<1>10. ASSUME NEW n \in Names, FlushNext(n) PROVE Settled'
  <2> DEFINE j == [name |-> n, value |-> hob[n]]
  <2>1. UNCHANGED <<status, request>> /\ todo' = todo \ {n} /\ n \in todo
    BY <1>10 DEF FlushNext
  <2>2. /\ pc' \in Updating => job' = j
        /\ pc' \notin {"off", "write_service"}
    BY <1>2, <1>10 DEF FlushNext, Start, Exit
  <2> QED
    BY <1>4, <2>1, <2>2
<1>11. CASE FlushEnd
  <2>1. UNCHANGED <<status, request, todo>> /\ pc' = "idle"
    BY <1>11 DEF FlushEnd, Exit
  <2> QED
    BY <1>2, <1>4, <2>1
<1>12. CASE DeleteOld \/ MarkOld \/ WriteHeader \/ WriteValid \/ WriteData
  BY <1>7, <1>12 DEF DeleteOld, MarkOld, WriteHeader, WriteValid, WriteData, Updating
<1>13. CASE DeleteCurrent
  <2>1. pc \in Updating /\ Succeed
    BY <1>13 DEF DeleteCurrent, Updating
  <2>2. Read(flash', job.name) = job.value
    BY <1>1, <1>13, DeleteCurrentSteps
  <2> QED
    BY <1>6, <2>1, <2>2
<1>14. CASE FindSpace
  <2>1. pc \in Updating
    BY <1>14 DEF FindSpace, Updating
  <2>2. (status # "success" /\ status' = "success") => Read(flash', job.name) = job.value
    BY <1>1, <1>14, SpaceSteps
  <2>3. CASE Succeed /\ status # "success"
    BY <1>6, <2>1, <2>2, <2>3
  <2>4. CASE Succeed /\ status = "success"
    <3>1. flushing
      BY <1>2, <2>1, <2>4 DEF Settled
    <3>2. UNCHANGED <<status, request, todo>> /\ pc' = "flush"
      BY <2>4, <3>1 DEF Succeed, Exit
    <3> QED
      BY <1>2, <1>4, <3>2
  <2> QED
    BY <1>7, <1>8, <1>14, <2>1, <2>3, <2>4 DEF FindSpace, ReclaimWith, Updating
<1>15. CASE WriteAdded
  <2>1. pc \in Updating
    BY <1>15 DEF WriteAdded, Updating
  <2>2. Read(flash', job.name) = job.value
    BY <1>1, <1>15, AddedSteps
  <2> QED
    BY <1>6, <1>7, <1>15, <2>1, <2>2 DEF WriteAdded, Replace, Updating
<1>16. CASE StateFails
  BY <1>8, <1>16 DEF StateFails
<1>17. ~EntryFails
  BY DEF EntriesWork, EntryFails
<1>18. CASE WriteServiceInitialize \/ PowerOn
  <2>1. status = "success" /\ request' = request /\ pc \in {"off", "write_service"}
    BY <1>1, <1>18 DEF WriteServiceInitialize, PowerOn, call, TypeInv
  <2> QED
    BY <2>1 DEF Settled
<1>19. ~PowerLoss
  BY DEF PowerLoss
<1>20. CASE ReadyToBoot \/ ExitBootServices
  <2>1. UNCHANGED <<status, request, todo, pc>> /\ pc = "idle"
    BY <1>20 DEF ReadyToBoot, ExitBootServices, hobs, call
  <2> QED
    BY <1>2, <1>4, <2>1
<1> QED
  BY <1>9, <1>10, <1>11, <1>12, <1>13, <1>14, <1>15, <1>16, <1>17, <1>18, <1>19, <1>20
     DEF Next, Flush, UpdateVariable

\* A variable that SetVariable has set, or deleted, is the one that GetVariable
\* returns, from the memory copy or from the HOB, as long as every variable of
\* the HOB can be moved to flash: setting a variable to what the flash has
\* already leaves its other value in the HOB (Variable.c:2376).
THEOREM SetVisibleHolds ==
  ASSUME EntriesWork
  PROVE  Spec /\ [][~LeavesOldCopy]_vars /\ [][~KeepsHob]_vars => []SetVisible
<1>1. Init => HobVisited /\ Settled
  BY DEF Init, HobVisited, Settled
<1>2. /\ StoreInv /\ OneOldCopy /\ CopyInv /\ HobVisited /\ Settled
      /\ [Next]_vars /\ [~KeepsHob]_vars
      => HobVisited' /\ Settled'
  <2> SUFFICES ASSUME StoreInv, OneOldCopy, CopyInv, HobVisited, Settled,
                      [Next]_vars, [~KeepsHob]_vars
               PROVE  HobVisited' /\ Settled'
    OBVIOUS
  <2>1. CASE UNCHANGED vars
    BY <2>1 DEF vars, hobs, call, HobVisited, Settled
  <2>2. CASE Next /\ ~KeepsHob
    BY <2>2, VisitStep, SettledStep
  <2> QED
    BY <2>1, <2>2
<1>3. StoreInv /\ HobVisited /\ Settled => SetVisible
  <2> SUFFICES ASSUME StoreInv, HobVisited, Settled, pc = "idle", status = "success"
               PROVE  Get(request.name) = request.value
    BY DEF SetVisible
  <2>1. ~flushing /\ cache = flash /\ request \in Jobs
    BY DEF StoreInv, Mirrors, TypeInv, TypeOK, Asked, Settled
  <2>2. hob[request.name] = NoValue
    BY <2>1 DEF HobVisited, Jobs
  <2> QED
    BY <2>1, <2>2 DEF Get, Settled
<1> QED
  BY StoreInvariant, CopyInvariant, <1>1, <1>2, <1>3, PTL DEF Spec

-----------------------------------------------------------------------------
(***************************** What the OS finds ***************************)

\* After ReadyToBoot there is room for one more common variable of the largest
\* size, or nothing is left to reclaim, neither deleted entries nor older copies:
\* whatever the updates and the interrupted boots before it have left there.  A
\* second IN_DELETED_TRANSITION copy would be kept beside the newer one.
THEOREM RoomForOsHolds ==
  ASSUME EntriesWork, "ftw" \notin Failing, MaxVariableSize > 0
  PROVE  Spec /\ [][~LeavesOldCopy]_vars => RoomForOs
<1> DEFINE Clean == \A i, j \in DOMAIN flash' :
                      /\ flash'[i].state = "added"
                      /\ flash'[i].name = flash'[j].name => i = j
           Room == commonTotal' + MaxVariableSize <= CommonRuntimeSpace
<1>1. StoreInv /\ CopyInv /\ [Next]_vars => [(~reclaimed /\ reclaimed') => (Room \/ Clean)]_vars
  <2> SUFFICES ASSUME StoreInv, CopyInv, Next, ~reclaimed, reclaimed'
               PROVE  Room \/ Clean
    OBVIOUS
  <2>1. reclaimed' # reclaimed
    OBVIOUS
  <2>2. ReadyToBoot
    BY <2>1 DEF Next, PowerOn, WriteServiceInitialize, SetVariable, Flush, FlushNext, FlushEnd,
       UpdateVariable, StateFails, EntryFails, ExitBootServices, PowerLoss, DeleteOld,
       DeleteCurrent, MarkOld, FindSpace, WriteHeader, WriteValid, WriteData, WriteAdded,
       WriteState, mode
  <2>3. CASE ~BelowThreshold /\ UNCHANGED <<flash, dirty, cache, sizes>>
    <3>1. /\ commonTotal' = commonTotal /\ commonTotal \in Int /\ MaxVariableSize \in Nat
          /\ CommonRuntimeSpace \in Int
      BY <2>3, ConstantsAssumption
         DEF sizes, StoreInv, TypeInv, TypeOK, CommonRuntimeSpace, CommonSpace
    <3> QED
      BY <2>3, <3>1 DEF BelowThreshold
  <2>4. CASE ReclaimTo(Kept(flash))
    <3>1. flash \in Seq(Entries) /\ flash' = Kept(flash) /\ pc = "idle"
      BY <2>2, <2>4 DEF ReadyToBoot, ReclaimTo, StoreInv, TypeInv, TypeOK
    <3>2. \A n \in Names : Single(flash, n, "added")
      BY DEF CopyInv, Ordered
    <3> QED
      BY <3>1, <3>2, KeptOnce
  <2> QED
    BY <2>2, <2>3, <2>4 DEF ReadyToBoot
<1> QED
  BY StoreInvariant, CopyInvariant, <1>1, PTL DEF Spec, RoomForOs
=============================================================================
