--------------------------- MODULE DxeEventProofs ---------------------------
(***************************************************************************)
(* The types and the safety of DxeEvent, proved for any events, groups,    *)
(* levels, delays and uses, and any depth of the stack.                    *)
(*                                                                         *)
(* The invariant, Inv, says of the stack what each frame and each pair of  *)
(* neighbours are (Sound); what is true of frames that are further apart   *)
(* follows by induction on their distance (Rising).  Where the other parts *)
(* need the stack they name only the events its frames have in hand        *)
(* (EventsOf), so that a step that moves no such event keeps them (Quiet). *)
(* That closed events are not used has an invariant of its own, CloseInv,  *)
(* which needs a hypothesis about who closes what, BottomCloses.           *)
(***************************************************************************)
EXTENDS DxeEvent, SubsequencesProofs

-----------------------------------------------------------------------------
(********************************* Lists ***********************************)

\* A list in the order of what f gives for its elements.
Ordered(s, f) == \A i, j \in DOMAIN s : i < j => f[s[i]] <= f[s[j]]

\* A part of a list is a list of the elements at the indices, each once and in
\* order where the list's are.
LEMMA PartOf ==
  ASSUME NEW T, NEW s \in Seq(T), NEW S, S \subseteq DOMAIN s
  PROVE  /\ Subsequence(s, S) \in Seq(T)
         /\ ToSet(Subsequence(s, S)) = {s[i] : i \in S}
         /\ IsInjective(s) => IsInjective(Subsequence(s, S))
         /\ \A f : Ordered(s, f) => Ordered(Subsequence(s, S), f)
<1> DEFINE t == Subsequence(s, S)
<1>1. /\ t \in Seq(T) /\ DOMAIN t = 1 .. Cardinality(S)
      /\ \A k \in 1 .. Cardinality(S) : Nth(S, k) \in S /\ t[k] = s[Nth(S, k)]
      /\ \A k, l \in 1 .. Cardinality(S) : k < l => Nth(S, k) < Nth(S, l)
      /\ \A i \in S : \E k \in 1 .. Cardinality(S) : Nth(S, k) = i
  BY SubsequenceElements
<1> HIDE DEF t
<1>2. ToSet(t) = {s[i] : i \in S}
  BY <1>1 DEF ToSet
<1>3. ASSUME IsInjective(s) PROVE IsInjective(t)
  <2> SUFFICES ASSUME NEW k \in DOMAIN t, NEW l \in DOMAIN t, t[k] = t[l] PROVE k = l
    BY DEF IsInjective
  <2>1. Nth(S, k) = Nth(S, l) /\ Nth(S, k) \in Int /\ k \in Int /\ l \in Int
    <3>1. Nth(S, k) \in DOMAIN s /\ Nth(S, l) \in DOMAIN s /\ DOMAIN s \subseteq Int
      BY <1>1
    <3> QED
      BY <1>1, <1>3, <3>1 DEF IsInjective
  <2> QED
    BY <1>1, <2>1
<1>4. ASSUME NEW f, Ordered(s, f) PROVE Ordered(t, f)
  <2> SUFFICES ASSUME NEW k \in DOMAIN t, NEW l \in DOMAIN t, k < l
               PROVE  f[t[k]] <= f[t[l]]
    BY DEF Ordered
  <2>1. Nth(S, k) \in DOMAIN s /\ Nth(S, l) \in DOMAIN s /\ Nth(S, k) < Nth(S, l)
    BY <1>1
  <2> QED
    BY <1>1, <1>4, <2>1 DEF Ordered
<1> QED
  BY <1>1, <1>2, <1>3, <1>4 DEF t

\* A list without some elements.
LEMMA WithoutThem ==
  ASSUME NEW T, NEW s \in Seq(T), NEW S
  PROVE  /\ Without(s, S) \in Seq(T)
         /\ ToSet(Without(s, S)) = ToSet(s) \ S
         /\ IsInjective(s) => IsInjective(Without(s, S))
         /\ \A f : Ordered(s, f) => Ordered(Without(s, S), f)
<1> DEFINE I == {i \in DOMAIN s : s[i] \notin S}
<1>1. I \subseteq DOMAIN s
  OBVIOUS
<1>2. {s[i] : i \in I} = ToSet(s) \ S
  BY DEF ToSet
<1> HIDE DEF I
<1>3. Without(s, S) = Subsequence(s, I)
  BY DEF I, Without
<1> QED
  BY <1>1, <1>2, <1>3, PartOf

\* The elements of two lists, one after the other.
LEMMA JoinedElements ==
  ASSUME NEW T, NEW s \in Seq(T), NEW t \in Seq(T)
  PROVE  /\ s \o t \in Seq(T) /\ Len(s \o t) = Len(s) + Len(t)
         /\ Len(s) \in Nat /\ Len(t) \in Nat
         /\ \A i \in 1 .. Len(s) : (s \o t)[i] = s[i]
         /\ \A i \in 1 .. Len(s) + Len(t) : i > Len(s) => /\ (s \o t)[i] = t[i - Len(s)]
                                                         /\ i - Len(s) \in 1 .. Len(t)
         /\ \A i \in 1 .. Len(t) : /\ (s \o t)[Len(s) + i] = t[i]
                                   /\ Len(s) + i \in 1 .. Len(s) + Len(t)
OBVIOUS

\* Two lists, one after the other.
LEMMA Joined ==
  ASSUME NEW T, NEW s \in Seq(T), NEW t \in Seq(T)
  PROVE  /\ s \o t \in Seq(T)
         /\ ToSet(s \o t) = ToSet(s) \cup ToSet(t)
         /\ IsInjective(s) /\ IsInjective(t) /\ ToSet(s) \cap ToSet(t) = {} => IsInjective(s \o t)
<1> DEFINE u == s \o t
<1>1. /\ u \in Seq(T) /\ Len(u) = Len(s) + Len(t) /\ Len(s) \in Nat /\ Len(t) \in Nat
      /\ DOMAIN s = 1 .. Len(s) /\ DOMAIN t = 1 .. Len(t) /\ DOMAIN u = 1 .. Len(u)
      /\ \A i \in 1 .. Len(s) : u[i] = s[i]
      /\ \A i \in 1 .. Len(u) : i > Len(s) => u[i] = t[i - Len(s)] /\ i - Len(s) \in 1 .. Len(t)
      /\ \A i \in 1 .. Len(t) : u[Len(s) + i] = t[i] /\ Len(s) + i \in 1 .. Len(u)
  BY JoinedElements
<1> HIDE DEF u
<1>2. ToSet(u) = ToSet(s) \cup ToSet(t)
  <2>1. ASSUME NEW i \in DOMAIN u PROVE u[i] \in ToSet(s) \cup ToSet(t)
    <3>1. CASE i <= Len(s)
      BY <1>1, <3>1 DEF ToSet
    <3>2. CASE i > Len(s)
      BY <1>1, <3>2 DEF ToSet
    <3> QED
      BY <1>1, <3>1, <3>2
  <2>2. \A i \in DOMAIN s : s[i] \in ToSet(u)
    BY <1>1 DEF ToSet
  <2>3. \A i \in DOMAIN t : t[i] \in ToSet(u)
    BY <1>1 DEF ToSet
  <2> QED
    BY <2>1, <2>2, <2>3 DEF ToSet
<1>3. ASSUME IsInjective(s), IsInjective(t), ToSet(s) \cap ToSet(t) = {} PROVE IsInjective(u)
  <2> SUFFICES ASSUME NEW i \in DOMAIN u, NEW j \in DOMAIN u, u[i] = u[j] PROVE i = j
    BY DEF IsInjective
  <2>1. \A k \in DOMAIN s : s[k] \in ToSet(s)
    BY DEF ToSet
  <2>2. \A k \in DOMAIN t : t[k] \in ToSet(t)
    BY DEF ToSet
  <2>3. CASE i <= Len(s) /\ j <= Len(s)
    BY <1>1, <1>3, <2>3 DEF IsInjective
  <2>4. CASE i > Len(s) /\ j > Len(s)
    <3>1. /\ i - Len(s) \in DOMAIN t /\ j - Len(s) \in DOMAIN t
          /\ t[i - Len(s)] = t[j - Len(s)]
      BY <1>1, <2>4
    <3>2. i - Len(s) = j - Len(s)
      BY <1>3, <3>1 DEF IsInjective
    <3> QED
      BY <1>1, <3>2
  <2>5. CASE i <= Len(s) /\ j > Len(s)
    BY <1>1, <1>3, <2>1, <2>2, <2>5
  <2>6. CASE i > Len(s) /\ j <= Len(s)
    BY <1>1, <1>3, <2>1, <2>2, <2>6
  <2> QED
    BY <1>1, <2>3, <2>4, <2>5, <2>6
<1> QED
  BY <1>1, <1>2, <1>3 DEF u

\* A list of one element.
LEMMA OneElement ==
  ASSUME NEW T, NEW e \in T
  PROVE  /\ <<e>> \in Seq(T) /\ ToSet(<<e>>) = {e} /\ IsInjective(<<e>>)
         /\ IsInjective(<<>>) /\ ToSet(<<>>) = {}
<1>1. DOMAIN <<e>> = {1} /\ <<e>>[1] = e /\ DOMAIN <<>> = {}
  OBVIOUS
<1> QED
  BY <1>1 DEF ToSet, IsInjective

\* A timer that is inserted in the order of the trigger times.
LEMMA Inserted ==
  ASSUME NEW T, armed \in Seq(T), NEW e \in T, NEW time \in Int, NEW f,
         \A x \in T : trigger[x] \in Int,
         \A x \in T : x # e => f[x] = trigger[x], f[e] = time,
         IsInjective(armed), e \notin ToSet(armed), Ordered(armed, trigger)
  PROVE  /\ Insert(e, time) \in Seq(T)
         /\ ToSet(Insert(e, time)) = ToSet(armed) \cup {e}
         /\ IsInjective(Insert(e, time))
         /\ Ordered(Insert(e, time), f)
<1> DEFINE later == {i \in DOMAIN armed : trigger[armed[i]] > time}
           p == IF later = {} THEN Len(armed) + 1 ELSE Min(later)
           u == Insert(e, time)
           n == Len(armed)
<1>1. /\ n \in Nat /\ DOMAIN armed = 1 .. n /\ \A i \in 1 .. n : armed[i] \in T
      /\ \A i \in 1 .. n : armed[i] # e /\ trigger[armed[i]] \in Int
  BY DEF ToSet
<1>2. later # {} => Min(later) \in later /\ \A i \in later : Min(later) <= i
  <2> SUFFICES ASSUME later # {} PROVE \E i \in later : \A j \in later : i <= j
    BY DEF Min
  <2>1. later \subseteq Nat
    BY <1>1
  <2> HIDE DEF later
  <2> QED
    BY <2>1, Smallest
<1>3. /\ p \in 1 .. n + 1
      /\ \A i \in 1 .. n : i < p => trigger[armed[i]] <= time
      /\ \A i \in 1 .. n : i >= p => trigger[armed[i]] > time
  <2>1. CASE later = {}
    BY <1>1, <2>1
  <2>2. CASE later # {}
    <3>1. PICK m \in later : m = Min(later) /\ \A i \in later : m <= i
      BY <1>2, <2>2
    <3>2. m \in 1 .. n /\ trigger[armed[m]] > time /\ p = m
      <4>1. p = Min(later)
        BY <2>2
      <4>2. m \in DOMAIN armed /\ trigger[armed[m]] > time
        OBVIOUS
      <4> HIDE DEF p, later
      <4> QED
        BY <1>1, <3>1, <4>1, <4>2
    <3> HIDE DEF p
    <3>3. ASSUME NEW i \in 1 .. n, i < m, trigger[armed[i]] > time PROVE FALSE
      <4>1. i \in later
        BY <1>1, <3>3
      <4>2. m <= i /\ m \in Int /\ i \in Int
        BY <1>1, <3>1, <3>2, <4>1
      <4> QED
        BY <3>3, <4>2
    <3>4. \A i \in 1 .. n : i > m => trigger[armed[m]] <= trigger[armed[i]]
      BY <1>1, <3>2 DEF Ordered
    <3>5. p \in 1 .. n + 1
      BY <1>1, <3>2
    <3>6. \A i \in 1 .. n : i < p => trigger[armed[i]] <= time
      BY <1>1, <3>2, <3>3
    <3>7. \A i \in 1 .. n : i >= p => trigger[armed[i]] > time
      BY <1>1, <3>2, <3>4
    <3> QED
      BY <3>5, <3>6, <3>7
  <2> QED
    BY <2>1, <2>2
<1>4. u = SubSeq(armed, 1, p - 1) \o <<e>> \o SubSeq(armed, p, n)
  BY DEF Insert, InsertAt
<1> HIDE DEF p, u, later
<1>5. /\ u \in Seq(T) /\ Len(u) = n + 1
      /\ \A i \in 1 .. n + 1 : /\ i < p => u[i] = armed[i] /\ i \in 1 .. n
                               /\ i = p => u[i] = e
                               /\ i > p => u[i] = armed[i - 1] /\ i - 1 \in 1 .. n
  <2> DEFINE a == SubSeq(armed, 1, p - 1)
             b == SubSeq(armed, p, n)
  <2>1. /\ a \in Seq(T) /\ Len(a) = p - 1 /\ \A i \in 1 .. p - 1 : a[i] = armed[i]
        /\ b \in Seq(T) /\ Len(b) = n - p + 1
        /\ \A i \in 1 .. n - p + 1 : b[i] = armed[p + i - 1]
    BY <1>1, <1>3
  <2>2. u = (a \o <<e>>) \o b
    BY <1>4
  <2> HIDE DEF a, b
  <2> DEFINE c == a \o <<e>>
  <2>7. <<e>> \in Seq(T) /\ Len(<<e>>) = 1 /\ <<e>>[1] = e
    OBVIOUS
  <2>8. /\ c \in Seq(T) /\ Len(c) = Len(a) + 1
        /\ \A i \in 1 .. Len(a) : c[i] = a[i]
        /\ \A i \in 1 .. 1 : c[Len(a) + i] = <<e>>[i]
    BY <2>1, <2>7, JoinedElements
  <2>3. c \in Seq(T) /\ Len(c) = p /\ c[p] = e /\ \A i \in 1 .. p - 1 : c[i] = armed[i]
    <3>1. Len(a) + 1 = p /\ p \in Int
      BY <1>1, <1>3, <2>1
    <3>2. c[p] = e
      BY <2>7, <2>8, <3>1
    <3> QED
      BY <2>1, <2>8, <3>1, <3>2
  <2> HIDE DEF c
  <2>9. u = c \o b
    BY <2>2 DEF c
  <2>4. /\ u \in Seq(T) /\ Len(u) = Len(c) + Len(b)
        /\ \A i \in 1 .. Len(c) : u[i] = c[i]
        /\ \A i \in 1 .. Len(c) + Len(b) : i > Len(c) => /\ u[i] = b[i - Len(c)]
                                                        /\ i - Len(c) \in 1 .. Len(b)
    <3>1. /\ c \o b \in Seq(T) /\ Len(c \o b) = Len(c) + Len(b)
          /\ \A i \in 1 .. Len(c) : (c \o b)[i] = c[i]
          /\ \A i \in 1 .. Len(c) + Len(b) : i > Len(c) => /\ (c \o b)[i] = b[i - Len(c)]
                                                          /\ i - Len(c) \in 1 .. Len(b)
      <4>1. c \in Seq(T) /\ b \in Seq(T)
        BY <2>1, <2>3
      <4> QED
        BY <4>1, JoinedElements
    <3> QED
      BY <2>9, <3>1
  <2>10. Len(c) + Len(b) = n + 1 /\ Len(c) = p /\ Len(b) = n - p + 1 /\ p \in Int
    BY <1>1, <1>3, <2>1, <2>3
  <2>5. \A i \in 1 .. n + 1 : i > p => u[i] = armed[i - 1] /\ i - 1 \in 1 .. n
    <3> SUFFICES ASSUME NEW i \in 1 .. n + 1, i > p PROVE u[i] = armed[i - 1] /\ i - 1 \in 1 .. n
      OBVIOUS
    <3>1. i - p \in 1 .. n - p + 1 /\ p + (i - p) - 1 = i - 1 /\ i - 1 \in 1 .. n
      BY <1>1, <1>3
    <3>2. u[i] = b[i - p]
      BY <2>4, <2>10
    <3> QED
      BY <2>1, <3>1, <3>2
  <2>6. \A i \in 1 .. n + 1 : i < p => u[i] = armed[i] /\ i \in 1 .. n
    <3> SUFFICES ASSUME NEW i \in 1 .. n + 1, i < p PROVE u[i] = armed[i] /\ i \in 1 .. n
      OBVIOUS
    <3>1. i \in 1 .. p - 1 /\ i \in 1 .. n /\ i \in 1 .. p
      BY <1>1, <1>3
    <3> QED
      BY <2>3, <2>4, <2>10, <3>1
  <2>11. u[p] = e
    BY <1>3, <2>3, <2>4, <2>10
  <2> QED
    BY <1>3, <2>4, <2>5, <2>6, <2>10, <2>11
<1> DEFINE at(i) == IF i < p THEN i ELSE i - 1
<1>6. \A i \in 1 .. n + 1 : i # p => u[i] = armed[at(i)] /\ at(i) \in 1 .. n
  BY <1>1, <1>3, <1>5
<1>7. \A i, j \in 1 .. n + 1 : i # p /\ j # p /\ i < j => at(i) < at(j)
  BY <1>1, <1>3
<1>8. ToSet(u) = ToSet(armed) \cup {e}
  <2>1. \A i \in DOMAIN u : u[i] \in ToSet(armed) \cup {e}
    BY <1>1, <1>5, <1>6 DEF ToSet
  <2>2. ASSUME NEW i \in DOMAIN armed PROVE armed[i] \in ToSet(u)
    <3>1. CASE i < p
      BY <1>1, <1>5, <3>1 DEF ToSet
    <3>2. CASE i >= p
      <4>1. i + 1 \in 1 .. n + 1 /\ i + 1 > p /\ (i + 1) - 1 = i
        BY <1>1, <1>3, <3>2
      <4>2. u[i + 1] = armed[i] /\ i + 1 \in DOMAIN u
        BY <1>5, <4>1
      <4> QED
        BY <4>2 DEF ToSet
    <3> QED
      BY <1>1, <1>3, <3>1, <3>2
  <2>3. e \in ToSet(u)
    BY <1>3, <1>5 DEF ToSet
  <2> QED
    BY <2>1, <2>2, <2>3 DEF ToSet
<1>9. IsInjective(u)
  <2> SUFFICES ASSUME NEW i \in 1 .. n + 1, NEW j \in 1 .. n + 1, u[i] = u[j], i < j PROVE FALSE
    BY <1>1, <1>5 DEF IsInjective
  <2>1. i # p /\ j # p
    BY <1>1, <1>5, <1>6
  <2>2. at(i) < at(j) /\ at(i) = at(j)
    BY <1>1, <1>6, <1>7, <2>1 DEF IsInjective
  <2> QED
    BY <1>1, <1>6, <2>1, <2>2
<1>10. Ordered(u, f)
  <2> SUFFICES ASSUME NEW i \in 1 .. n + 1, NEW j \in 1 .. n + 1, i < j PROVE f[u[i]] <= f[u[j]]
    BY <1>1, <1>5 DEF Ordered
  <2>1. CASE i # p /\ j # p
    <3>1. /\ at(i) < at(j) /\ u[i] = armed[at(i)] /\ u[j] = armed[at(j)]
          /\ at(i) \in 1 .. n /\ at(j) \in 1 .. n
      BY <1>6, <1>7, <2>1
    <3> HIDE DEF at
    <3>2. trigger[armed[at(i)]] <= trigger[armed[at(j)]]
      BY <1>1, <3>1 DEF Ordered
    <3> QED
      BY <1>1, <3>1, <3>2
  <2>2. CASE i = p
    <3>1. u[i] = e /\ u[j] = armed[j - 1] /\ j - 1 \in 1 .. n /\ j - 1 >= p
      BY <1>3, <1>5, <2>2
    <3>2. trigger[armed[j - 1]] > time /\ f[armed[j - 1]] = trigger[armed[j - 1]]
      BY <1>1, <1>3, <3>1
    <3> QED
      BY <1>1, <3>1, <3>2
  <2>3. CASE j = p
    <3>1. u[j] = e /\ u[i] = armed[i] /\ i \in 1 .. n /\ i < p
      BY <1>3, <1>5, <2>3
    <3>2. trigger[armed[i]] <= time /\ f[armed[i]] = trigger[armed[i]]
      BY <1>1, <1>3, <3>1
    <3> QED
      BY <3>1, <3>2
  <2> QED
    BY <2>1, <2>2, <2>3
<1> QED
  BY <1>5, <1>8, <1>9, <1>10 DEF u

-----------------------------------------------------------------------------
(******************************** The stack ********************************)

Frames == [at : Labels, tpl : Levels, event : All \cup {Base}, time : Nat]

SettingTimer   == {"cancel", "relative", "periodic", "time", "insert"}
CheckingTimers == {"timers", "expire", "again"}
Function       == {"code"} \cup CheckingTimers
Service        == SettingTimer \cup {"group", "consume", "close", "free"}
Unmasking      == {"restore", "lower"}
Dispatching    == {"dispatch", "notify"}

\* The level a frame runs at, or, where it unmasks, the one it runs above.
Floor(f) == IF f.at \in SettingTimer THEN TimerLevel ELSE f.tpl

\* The level a frame leaves behind when it returns.
Back(f) == IF f.at = "code" THEN OwnLevel(f) ELSE f.tpl

\* What is true of each frame by itself.
FrameOk(f) ==
  /\ f.at = "code" => f.event # CheckTimer /\ OwnLevel(f) <= f.tpl /\ f.tpl <= Notify
  /\ f.at \in CheckingTimers => f.tpl = TimerLevel
  /\ f.at \in Service => f.tpl <= Notify /\ f.event \in Events
  /\ f.at \in SettingTimer \cup {"again"} => f.event \in Timers
  /\ f.at = "group" => Grouped(f.event)
  /\ f.at = "notify" => f.event # Base /\ LevelOf(f.event) = f.tpl

\* What is true of a frame f and the next one, h.
On(f, h) ==
  /\ h.at \in Function => f.at = "dispatch" /\ f.tpl = Back(h)
  /\ h.at = "code" => h.event # Base
  /\ h.at \in Dispatching => f.at = "restore" /\ f.tpl < h.tpl
  /\ f.at \in Unmasking => f.tpl <= Back(h)
  /\ f.at \notin Unmasking => Floor(f) = Back(h)

\* The frame that runs, with the current level and whether interrupts are on.
Runs(f, level, on) ==
  /\ f.at \in Unmasking => f.tpl <= level
  /\ f.at \notin Unmasking => Floor(f) = level
  /\ on \/ f.at = "restore"

\* A frame t may go on as f.
Continues(f, t) ==
  /\ FrameOk(f)
  /\ Back(f) = Back(t)
  /\ f.at \in Function => t.at \in Function
  /\ f.at \in Dispatching => t.at \in Dispatching
  /\ f.at = "code" /\ f.event = Base <=> t.at = "code" /\ t.event = Base

\* A stack as it is at a level.
Sound(s, level, on) ==
  /\ s \in Seq(Frames) /\ s # <<>> /\ level \in Levels
  /\ s[1].at = "code" /\ s[1].event = Base
  /\ \A i \in 1 .. Len(s) : FrameOk(s[i])
  /\ \A i \in 1 .. Len(s) : i # 1 => On(s[i - 1], s[i])
  /\ Runs(s[Len(s)], level, on)

\* The stack without the frame that runs.
LEMMA FrontOf ==
  ASSUME NEW T, NEW s \in Seq(T), s # <<>>
  PROVE  /\ Len(s) \in Nat /\ Len(s) > 0
         /\ Front(s) \in Seq(T) /\ Len(Front(s)) = Len(s) - 1
         /\ \A i \in 1 .. Len(s) - 1 : Front(s)[i] = s[i]
<1>1. Len(s) \in Nat /\ Len(s) > 0
  OBVIOUS
<1>2. \A i \in 1 .. Len(s) - 1 : s[i] \in T
  BY <1>1
<1>3. Front(s) = [i \in 1 .. Len(s) - 1 |-> s[i]]
  BY <1>1 DEF Front
<1> QED
  BY <1>1, <1>2, <1>3

\* The frames after the one that runs has become f.
LEMMA Gone ==
  ASSUME NEW T, NEW s \in Seq(T), s # <<>>, NEW f \in T
  PROVE  /\ Append(Front(s), f) \in Seq(T) /\ Len(Append(Front(s), f)) = Len(s)
         /\ \A i \in 1 .. Len(s) - 1 : Append(Front(s), f)[i] = s[i]
         /\ Append(Front(s), f)[Len(s)] = f
BY FrontOf

\* The frames after a call.
LEMMA Called ==
  ASSUME NEW T, NEW s \in Seq(T), s # <<>>, NEW f \in T
  PROVE  /\ Append(s, f) \in Seq(T) /\ Len(Append(s, f)) = Len(s) + 1
         /\ \A i \in 1 .. Len(s) : Append(s, f)[i] = s[i]
         /\ Append(s, f)[Len(s) + 1] = f
         /\ Len(s) \in Nat /\ Len(s) > 0
OBVIOUS

-----------------------------------------------------------------------------
(******************************** The levels *******************************)

\* The levels of the events' functions.
LEMMA LevelNumbers ==
  /\ \A e \in Events : NotifyTpl[e] \in {Callback, Notify} /\ e # CheckTimer /\ e # Base
  /\ \A e \in All : /\ LevelOf(e) \in {Callback, Notify, TimerLevel}
                  /\ LevelOf(e) \in Levels /\ e # Base
  /\ \A e \in All \cup {Base} : e # Base => e \in All
  /\ CheckTimer \in All /\ CheckTimer # Base
BY ConstantsAssumption DEF All, LevelOf, Levels

\* The levels are numbers.
LEMMA LevelInt == Levels \subseteq Int
BY DEF Levels, Application, Callback, Notify, TimerLevel, High

\* The levels of a frame.
LEMMA FrameLevels ==
  ASSUME NEW f \in Frames, FrameOk(f)
  PROVE  /\ f.tpl \in Levels /\ Floor(f) \in Levels /\ Back(f) \in Levels
         /\ f.tpl \in Int /\ Floor(f) \in Int /\ Back(f) \in Int
         /\ Back(f) <= Floor(f)
<1>1. f.at \in Labels /\ f.tpl \in Levels /\ f.event \in All \cup {Base}
  BY DEF Frames
<1>2. CASE f.at = "code"
  <2>1. OwnLevel(f) \in Levels
    BY <1>1, <1>2, LevelNumbers DEF OwnLevel, Levels
  <2> QED
    BY <1>1, <1>2, <2>1, LevelInt DEF FrameOk, Floor, Back, SettingTimer
<1>3. CASE f.at # "code"
  BY <1>1, <1>3 DEF FrameOk, Floor, Back, SettingTimer, Service, Levels, Notify, TimerLevel,
     Application, Callback, High
<1> QED
  BY <1>2, <1>3

-----------------------------------------------------------------------------
(*************************** Steps of the stack ****************************)

\* The frame that runs goes on as f, which leaves the same level behind.
LEMMA SoundGoto ==
  ASSUME NEW s, NEW level, NEW on, Sound(s, level, on), NEW f \in Frames,
         NEW level2 \in Levels, NEW on2,
         Continues(f, s[Len(s)]), Runs(f, level2, on2)
  PROVE  Sound(Append(Front(s), f), level2, on2)
<1> DEFINE s2 == Append(Front(s), f)
<1>1. /\ s2 \in Seq(Frames) /\ Len(s2) = Len(s) /\ \A i \in 1 .. Len(s) - 1 : s2[i] = s[i]
      /\ s2[Len(s)] = f /\ Len(s) \in Nat /\ Len(s) > 0
  BY Gone, FrontOf DEF Sound
<1> HIDE DEF s2
<1>2. \A i \in 1 .. Len(s2) : FrameOk(s2[i])
  BY <1>1 DEF Sound, Continues
<1>3. ASSUME NEW i \in 1 .. Len(s2), i # 1 PROVE On(s2[i - 1], s2[i])
  <2>1. On(s[i - 1], s[i]) /\ s2[i - 1] = s[i - 1]
    BY <1>1, <1>3 DEF Sound
  <2>2. CASE i # Len(s)
    BY <1>1, <2>1, <2>2
  <2>3. CASE i = Len(s)
    <3>1. On(s[i - 1], f)
      BY <2>1, <2>3 DEF On, Continues, Back, Dispatching
    <3> QED
      BY <2>1, <2>3, <3>1, <1>1
  <2> QED
    BY <2>2, <2>3
<1>4. s2[1].at = "code" /\ s2[1].event = Base /\ s2 # <<>>
  BY <1>1 DEF Sound, Continues
<1> QED
  BY <1>1, <1>2, <1>3, <1>4 DEF Sound, s2

\* The frame that runs calls h, or is interrupted.
LEMMA SoundPush ==
  ASSUME NEW s, NEW level, NEW on, Sound(s, level, on), NEW h \in Frames,
         NEW level2 \in Levels, NEW on2,
         FrameOk(h), Runs(h, level2, on2), On(s[Len(s)], h)
  PROVE  Sound(Append(s, h), level2, on2)
<1> DEFINE s2 == Append(s, h)
<1>1. /\ s2 \in Seq(Frames) /\ Len(s2) = Len(s) + 1 /\ \A i \in 1 .. Len(s) : s2[i] = s[i]
      /\ s2[Len(s) + 1] = h /\ Len(s) \in Nat /\ Len(s) > 0
  BY Called DEF Sound
<1> HIDE DEF s2
<1>2. \A i \in 1 .. Len(s2) : FrameOk(s2[i])
  BY <1>1 DEF Sound
<1>3. ASSUME NEW i \in 1 .. Len(s2), i # 1 PROVE On(s2[i - 1], s2[i])
  <2>1. CASE i \in 1 .. Len(s)
    BY <1>1, <1>3, <2>1 DEF Sound
  <2>2. CASE i = Len(s) + 1
    BY <1>1, <2>2
  <2> QED
    BY <1>1, <2>1, <2>2
<1>4. s2[1].at = "code" /\ s2[1].event = Base /\ s2 # <<>>
  BY <1>1 DEF Sound
<1> QED
  BY <1>1, <1>2, <1>3, <1>4 DEF Sound, s2

\* The frame that runs returns.
LEMMA SoundReturn ==
  ASSUME NEW s, NEW level, NEW on, Sound(s, level, on),
         s[Len(s)].at # "code" \/ s[Len(s)].event # Base
  PROVE  Sound(Front(s), Back(s[Len(s)]), TRUE)
<1> DEFINE s2 == Front(s)
<1>1. /\ s2 \in Seq(Frames) /\ Len(s2) = Len(s) - 1 /\ \A i \in 1 .. Len(s) - 1 : s2[i] = s[i]
      /\ Len(s) \in Nat /\ Len(s) > 0
  BY FrontOf DEF Sound
<1>2. Len(s) # 1
  BY DEF Sound
<1> HIDE DEF s2
<1>3. On(s2[Len(s2)], s[Len(s)])
  BY <1>1, <1>2 DEF Sound
<1>4. Runs(s2[Len(s2)], Back(s[Len(s)]), TRUE)
  BY <1>3 DEF On, Runs
<1>7. Back(s[Len(s)]) \in Levels
  BY <1>1, FrameLevels DEF Sound
<1>5. \A i \in 1 .. Len(s2) : FrameOk(s2[i]) /\ (i # 1 => On(s2[i - 1], s2[i]))
  BY <1>1, <1>2 DEF Sound
<1>6. s2[1].at = "code" /\ s2[1].event = Base /\ s2 # <<>>
  BY <1>1, <1>2 DEF Sound
<1> QED
  BY <1>1, <1>4, <1>5, <1>6, <1>7 DEF Sound, s2

\* The frame that runs goes on as f and calls h.
LEMMA SoundCall ==
  ASSUME NEW s, NEW level, NEW on, Sound(s, level, on), NEW f \in Frames, NEW h \in Frames,
         NEW level2 \in Levels, NEW on2, Continues(f, s[Len(s)]),
         FrameOk(h), On(f, h), Runs(h, level2, on2)
  PROVE  Sound(Append(Append(Front(s), f), h), level2, on2)
<1> DEFINE t == Append(Front(s), f)
<1>1. Floor(f) \in Levels /\ f.tpl \in Int
  BY FrameLevels DEF Continues
<1>2. Runs(f, Floor(f), TRUE)
  BY <1>1 DEF Runs, Floor, Unmasking, SettingTimer
<1>3. Sound(t, Floor(f), TRUE)
  BY <1>1, <1>2, SoundGoto
<1>4. Len(t) = Len(s) /\ t[Len(s)] = f
  BY Gone DEF Sound
<1> HIDE DEF t
<1>5. On(t[Len(t)], h)
  BY <1>4
<1> QED
  BY <1>3, <1>5, SoundPush DEF t

-----------------------------------------------------------------------------
(***************************** What is nested ******************************)

\* No frame leaves a lower level behind than the frames under it run at.
LEMMA Rising ==
  ASSUME NEW s, NEW level, NEW on, Sound(s, level, on),
         NEW i \in 1 .. Len(s), NEW j \in 1 .. Len(s), i < j
  PROVE  Floor(s[i]) <= Back(s[j])
<1> DEFINE S == {n \in Nat : \A k, l \in 1 .. Len(s) : l = k + n + 1 => Floor(s[k]) <= Back(s[l])}
<1>1. /\ Len(s) \in Nat
      /\ \A k \in 1 .. Len(s) : s[k] \in Frames /\ FrameOk(s[k])
      /\ \A k \in 1 .. Len(s) : k # 1 => On(s[k - 1], s[k])
  BY DEF Sound
<1>2. \A k \in 1 .. Len(s) : /\ Floor(s[k]) \in Int /\ Back(s[k]) \in Int
                             /\ Back(s[k]) <= Floor(s[k])
  BY <1>1, FrameLevels
<1>3. \A k \in 1 .. Len(s) : k # 1 => Floor(s[k - 1]) <= Back(s[k])
  <2> SUFFICES ASSUME NEW k \in 1 .. Len(s), k # 1 PROVE Floor(s[k - 1]) <= Back(s[k])
    OBVIOUS
  <2>1. On(s[k - 1], s[k]) /\ Floor(s[k - 1]) \in Int
    BY <1>1, <1>2
  <2> QED
    BY <2>1 DEF On, Floor, Unmasking, SettingTimer
<1>4. 0 \in S
  BY <1>3
<1>5. ASSUME NEW n \in Nat, n \in S PROVE n + 1 \in S
  <2> SUFFICES ASSUME NEW k \in 1 .. Len(s), NEW l \in 1 .. Len(s), l = k + (n + 1) + 1
               PROVE  Floor(s[k]) <= Back(s[l])
    OBVIOUS
  <2>1. l - 1 \in 1 .. Len(s) /\ l - 1 = k + n + 1
    BY <1>1
  <2>2. Floor(s[k]) <= Back(s[l - 1])
    BY <2>1, <1>5
  <2>3. Back(s[l - 1]) <= Floor(s[l - 1]) /\ Floor(s[l - 1]) <= Back(s[l])
    BY <1>2, <1>3, <2>1
  <2> QED
    BY <1>2, <2>1, <2>2, <2>3
<1> HIDE DEF S
<1>6. Nat \subseteq S
  BY <1>4, <1>5, AllNumbers
<1>7. j - i - 1 \in S /\ j = i + (j - i - 1) + 1
  BY <1>1, <1>6
<1> QED
  BY <1>7 DEF S

\* The function a dispatcher calls is above all the code under the dispatcher.
LEMMA FunctionAbove ==
  ASSUME NEW s, NEW level, NEW on, Sound(s, level, on),
         NEW i \in 1 .. Len(s), NEW j \in 1 .. Len(s), i < j,
         s[i].at \notin {"restore", "lower", "dispatch", "notify"}, s[j].at \in Function
  PROVE  Floor(s[i]) < Back(s[j])
<1>1. /\ Len(s) \in Nat
      /\ \A k \in 1 .. Len(s) : s[k] \in Frames /\ FrameOk(s[k])
      /\ \A k \in 1 .. Len(s) : k # 1 => On(s[k - 1], s[k])
  BY DEF Sound
<1>2. \A k \in 1 .. Len(s) : Floor(s[k]) \in Int /\ Back(s[k]) \in Int /\ s[k].tpl \in Int
  BY <1>1, FrameLevels
<1>3. s[j - 1].at = "dispatch" /\ s[j - 1].tpl = Back(s[j]) /\ j - 1 \in 1 .. Len(s)
  BY <1>1 DEF On
<1>4. i < j - 1
  BY <1>3
<1>5. s[j - 2].at = "restore" /\ s[j - 2].tpl < s[j - 1].tpl /\ j - 2 \in 1 .. Len(s)
  <2>1. On(s[(j - 1) - 1], s[j - 1]) /\ (j - 1) - 1 = j - 2
    BY <1>1, <1>3, <1>4
  <2> QED
    BY <1>1, <1>3, <1>4, <2>1 DEF On, Dispatching
<1>6. i < j - 2
  BY <1>4, <1>5
<1>7. Floor(s[i]) <= Back(s[j - 2])
  BY <1>5, <1>6, Rising
<1>8. Back(s[j - 2]) = s[j - 2].tpl
  BY <1>5 DEF Back
<1> QED
  BY <1>2, <1>3, <1>5, <1>7, <1>8

\* A sound stack satisfies Preempts.
LEMMA SoundPreempts ==
  ASSUME Sound(stack, tpl, interrupts)
  PROVE  Preempts
<1> SUFFICES ASSUME NEW i \in DOMAIN stack, NEW j \in DOMAIN stack, i < j, stack[i].at = "code"
             PROVE  /\ stack[j].at = "code" => stack[i].tpl < OwnLevel(stack[j])
                    /\ stack[j].at = "timers" => stack[i].tpl < stack[j].tpl
  BY DEF Preempts
<1>1. i \in 1 .. Len(stack) /\ j \in 1 .. Len(stack)
  BY DEF Sound
<1>2. Floor(stack[i]) = stack[i].tpl
  BY DEF Floor, SettingTimer
<1>3. stack[j].at \in Function => stack[i].tpl < Back(stack[j])
  BY <1>1, <1>2, FunctionAbove
<1> QED
  BY <1>3 DEF Function, CheckingTimers, Back

Holders == {"expire", "again"} \cup SettingTimer

\* A sound stack has one frame at most that holds the lock of the timer list.
LEMMA SoundLock ==
  ASSUME NEW s, NEW level, NEW on, Sound(s, level, on),
         NEW i \in 1 .. Len(s), s[i].at \in Holders
  PROVE  /\ \A j \in 1 .. Len(s) : s[j].at \in Holders => i = j
         /\ level >= TimerLevel
<1>1. /\ Len(s) \in Nat /\ Len(s) > 0
      /\ \A k \in 1 .. Len(s) : s[k] \in Frames /\ FrameOk(s[k])
  BY DEF Sound
<1>2. \A k \in 1 .. Len(s) : /\ Floor(s[k]) \in Int /\ Back(s[k]) \in Int /\ s[k].tpl \in Int
                             /\ Back(s[k]) <= Floor(s[k])
  BY <1>1, FrameLevels
<1>3. \A k \in 1 .. Len(s) : s[k].at \in Holders => Floor(s[k]) = TimerLevel
  BY <1>1 DEF FrameOk, Floor, Holders, CheckingTimers, SettingTimer
<1>4. ASSUME NEW k \in 1 .. Len(s), NEW l \in 1 .. Len(s), k < l,
             s[k].at \in Holders, s[l].at \in Holders
      PROVE  FALSE
  <2>1. CASE s[l].at \in {"expire", "again"}
    <3>1. s[k].at \notin {"restore", "lower", "dispatch", "notify"}
      BY <1>4 DEF Holders, SettingTimer
    <3>2. Floor(s[k]) < Back(s[l])
      BY <2>1, <3>1, <1>4, FunctionAbove DEF Function, CheckingTimers
    <3>3. Back(s[l]) = TimerLevel
      BY <1>1, <2>1 DEF Back, FrameOk, CheckingTimers
    <3> QED
      BY <1>3, <1>4, <3>2, <3>3 DEF TimerLevel
  <2>2. CASE s[l].at \in SettingTimer
    <3>1. Floor(s[k]) <= Back(s[l])
      BY <1>4, Rising
    <3>2. Back(s[l]) <= Notify
      BY <1>1, <2>2 DEF Back, FrameOk, Service, SettingTimer
    <3> QED
      BY <1>2, <1>3, <1>4, <3>1, <3>2 DEF TimerLevel, Notify
  <2> QED
    BY <1>4, <2>1, <2>2 DEF Holders
<1>5. \A j \in 1 .. Len(s) : s[j].at \in Holders => i = j
  BY <1>1, <1>4
<1>6. level \in Int /\ level >= Back(s[Len(s)])
  <2>1. Runs(s[Len(s)], level, on) /\ level \in Int
    BY LevelInt DEF Sound
  <2> QED
    BY <1>1, <1>2, <2>1 DEF Runs, Back, Unmasking
<1>7. level >= TimerLevel
  <2>1. CASE i = Len(s)
    <3>1. Runs(s[i], level, on) /\ s[i].at \notin Unmasking
      BY <2>1 DEF Sound, Holders, Unmasking, SettingTimer
    <3> QED
      BY <1>3, <3>1 DEF Runs, TimerLevel
  <2>2. CASE i # Len(s)
    <3>1. Floor(s[i]) <= Back(s[Len(s)])
      BY <1>1, <2>2, Rising
    <3> QED
      BY <1>1, <1>2, <1>3, <1>6, <3>1 DEF TimerLevel
  <2> QED
    BY <2>1, <2>2
<1> QED
  BY <1>5, <1>7

-----------------------------------------------------------------------------
(**************************** Events of frames *****************************)

\* The events of the frames of a stack that go on at one of some labels.
EventsOf(s, L) == {s[i].event : i \in {j \in 1 .. Len(s) : s[j].at \in L}}

\* That of one frame.
One(f, L) == IF f.at \in L THEN {f.event} ELSE {}

\* A call adds its event.
LEMMA EventsAppend ==
  ASSUME NEW s \in Seq(Frames), NEW h \in Frames, NEW L
  PROVE  EventsOf(Append(s, h), L) = EventsOf(s, L) \cup One(h, L)
<1> DEFINE t == Append(s, h)
<1>1. /\ Len(t) = Len(s) + 1 /\ Len(s) \in Nat /\ t[Len(s) + 1] = h
      /\ \A i \in 1 .. Len(s) : t[i] = s[i] /\ i \in 1 .. Len(t) /\ i # Len(s) + 1
      /\ \A i \in 1 .. Len(t) : i = Len(s) + 1 \/ i \in 1 .. Len(s)
      /\ Len(s) + 1 \in 1 .. Len(t)
  OBVIOUS
<1> HIDE DEF t
<1>2. EventsOf(t, L) \subseteq EventsOf(s, L) \cup One(h, L)
  <2> SUFFICES ASSUME NEW i \in 1 .. Len(t), t[i].at \in L
               PROVE  t[i].event \in EventsOf(s, L) \cup One(h, L)
    BY DEF EventsOf
  <2> QED
    BY <1>1 DEF EventsOf, One
<1>3. EventsOf(s, L) \subseteq EventsOf(t, L)
  BY <1>1 DEF EventsOf
<1>4. One(h, L) \subseteq EventsOf(t, L)
  BY <1>1 DEF EventsOf, One
<1> QED
  BY <1>2, <1>3, <1>4 DEF t

\* Sequences with the same elements are equal.
LEMMA SameElements ==
  ASSUME NEW T, NEW s \in Seq(T), NEW t \in Seq(T), Len(s) = Len(t),
         \A i \in 1 .. Len(s) : s[i] = t[i]
  PROVE  s = t
<1>1. s = [i \in 1 .. Len(s) |-> s[i]] /\ t = [i \in 1 .. Len(t) |-> t[i]]
  OBVIOUS
<1> QED
  BY <1>1

\* A return takes away that of the frame that ran.
LEMMA EventsFront ==
  ASSUME NEW s \in Seq(Frames), s # <<>>, NEW L
  PROVE  EventsOf(s, L) = EventsOf(Front(s), L) \cup One(s[Len(s)], L)
<1>1. /\ Front(s) \in Seq(Frames) /\ Len(Front(s)) = Len(s) - 1 /\ Len(s) \in Nat /\ Len(s) > 0
      /\ \A i \in 1 .. Len(s) - 1 : Front(s)[i] = s[i]
  BY FrontOf
<1>2. s[Len(s)] \in Frames /\ s = Append(Front(s), s[Len(s)])
  <2> DEFINE t == Append(Front(s), s[Len(s)])
  <2>1. s[Len(s)] \in Frames
    BY <1>1
  <2>2. /\ t \in Seq(Frames) /\ Len(t) = Len(s) /\ \A i \in 1 .. Len(s) - 1 : t[i] = s[i]
        /\ t[Len(s)] = s[Len(s)]
    BY <2>1, Gone
  <2> HIDE DEF t
  <2>3. \A i \in 1 .. Len(s) : s[i] = t[i]
    BY <1>1, <2>2
  <2>4. s = t
    BY <2>2, <2>3, SameElements
  <2> QED
    BY <2>1, <2>4 DEF t
<1>3. EventsOf(Append(Front(s), s[Len(s)]), L) = EventsOf(Front(s), L) \cup One(s[Len(s)], L)
  BY <1>1, <1>2, EventsAppend
<1> QED
  BY <1>2, <1>3

\* A call that pushes two frames.
LEMMA PushTwo ==
  ASSUME stack \in Seq(Frames), NEW f \in Frames, NEW h \in Frames
  PROVE  stack \o <<f, h>> = Append(Append(stack, f), h)
<1> DEFINE s == stack \o <<f, h>>
           t == Append(Append(stack, f), h)
<1>1. /\ <<f, h>> \in Seq(Frames) /\ Len(<<f, h>>) = 2 /\ <<f, h>>[1] = f /\ <<f, h>>[2] = h
      /\ Len(stack) \in Nat
  OBVIOUS
<1>2. /\ s \in Seq(Frames) /\ Len(s) = Len(stack) + 2
      /\ \A i \in 1 .. Len(stack) : s[i] = stack[i]
      /\ \A i \in 1 .. 2 : s[Len(stack) + i] = <<f, h>>[i]
  BY <1>1, JoinedElements
<1>3. /\ Append(stack, f) \in Seq(Frames) /\ Len(Append(stack, f)) = Len(stack) + 1
      /\ \A i \in 1 .. Len(stack) : Append(stack, f)[i] = stack[i]
      /\ Append(stack, f)[Len(stack) + 1] = f
  OBVIOUS
<1>4. /\ t \in Seq(Frames) /\ Len(t) = Len(stack) + 2
      /\ \A i \in 1 .. Len(stack) + 1 : t[i] = Append(stack, f)[i]
      /\ t[Len(stack) + 2] = h
  BY <1>1, <1>3
<1> HIDE DEF s, t
<1>5. \A i \in 1 .. Len(s) : s[i] = t[i]
  <2> SUFFICES ASSUME NEW i \in 1 .. Len(s) PROVE s[i] = t[i]
    OBVIOUS
  <2>1. i \in 1 .. Len(stack) \/ i = Len(stack) + 1 \/ i = Len(stack) + 2
    BY <1>1, <1>2
  <2>2. s[Len(stack) + 1] = f /\ s[Len(stack) + 2] = h
    BY <1>1, <1>2
  <2>3. t[Len(stack) + 1] = f /\ t[Len(stack) + 2] = h
    BY <1>1, <1>3, <1>4
  <2>4. i \in 1 .. Len(stack) => s[i] = t[i]
    BY <1>1, <1>2, <1>3, <1>4
  <2> QED
    BY <2>1, <2>2, <2>3, <2>4
<1> QED
  BY <1>2, <1>4, <1>5, SameElements DEF s, t

\* What the ways to change the stack do to the events of its frames.
LEMMA EventsMoved ==
  ASSUME stack \in Seq(Frames), stack # <<>>, NEW f \in Frames, NEW h \in Frames, NEW L
  PROVE  /\ EventsOf(stack, L) = EventsOf(Front(stack), L) \cup One(Top, L)
         /\ EventsOf(Callers(f), L) = EventsOf(Front(stack), L) \cup One(f, L)
         /\ EventsOf(Append(Callers(f), h), L)
              = EventsOf(Front(stack), L) \cup One(f, L) \cup One(h, L)
         /\ EventsOf(Append(stack, h), L) = EventsOf(stack, L) \cup One(h, L)
         /\ EventsOf(Append(Append(stack, f), h), L)
              = EventsOf(stack, L) \cup One(f, L) \cup One(h, L)
<1>1. Front(stack) \in Seq(Frames) /\ Append(stack, f) \in Seq(Frames)
  BY FrontOf
<1>2. Callers(f) \in Seq(Frames)
  BY <1>1 DEF Callers
<1>4. EventsOf(Callers(f), L) = EventsOf(Front(stack), L) \cup One(f, L)
  BY <1>1, EventsAppend DEF Callers
<1>5. EventsOf(Append(Callers(f), h), L) = EventsOf(Callers(f), L) \cup One(h, L)
  BY <1>2, EventsAppend
<1>6. EventsOf(Append(stack, h), L) = EventsOf(stack, L) \cup One(h, L)
  BY EventsAppend
<1>7. /\ EventsOf(Append(stack, f), L) = EventsOf(stack, L) \cup One(f, L)
      /\ EventsOf(Append(Append(stack, f), h), L) = EventsOf(Append(stack, f), L) \cup One(h, L)
  BY <1>1, EventsAppend
<1>8. EventsOf(stack, L) = EventsOf(Front(stack), L) \cup One(Top, L)
  BY EventsFront DEF Top
<1> QED
  BY <1>4, <1>5, <1>6, <1>7, <1>8

-----------------------------------------------------------------------------
(******************************** The queues *******************************)

InQueue(q, e) == e \in ToSet(q[LevelOf(e)])

\* The queues hold each event once, at its level, and the bit of a level whose
\* queue is not empty is set.
QueuesSound(q, p) ==
  /\ q \in [Levels -> Seq(All)] /\ p \subseteq Levels
  /\ \A level \in Levels : /\ IsInjective(q[level])
                           /\ \A e \in ToSet(q[level]) : LevelOf(e) = level
                           /\ q[level] # <<>> => level \in p

\* A list is empty when it has no elements.
LEMMA EmptyList ==
  ASSUME NEW T, NEW s \in Seq(T)
  PROVE  /\ ToSet(s) \subseteq T
         /\ s = <<>> <=> ToSet(s) = {}
<1>1. Len(s) \in Nat /\ DOMAIN s = 1 .. Len(s) /\ \A i \in 1 .. Len(s) : s[i] \in T
  OBVIOUS
<1>2. s # <<>> => 1 \in DOMAIN s
  BY <1>1
<1>3. s = <<>> => DOMAIN s = {}
  OBVIOUS
<1> QED
  BY <1>1, <1>2, <1>3 DEF ToSet

\* NotifyEvents queues the events of a list and keeps those that are queued.
LEMMA Notified ==
  ASSUME QueuesSound(queue, pending), NEW s \in Seq(All), IsInjective(s), NotifyEvents(s)
  PROVE  /\ QueuesSound(queue', pending')
         /\ \A e \in All : InQueue(queue', e) <=> InQueue(queue, e) \/ e \in ToSet(s)
<1>1. \A level \in Levels : queue[level] \in Seq(All) /\ queue'[level] = Enqueue(level, s)
  BY DEF QueuesSound, NotifyEvents
<1>2. pending' = pending \cup {LevelOf(s[i]) : i \in DOMAIN s} /\ DOMAIN queue' = Levels
  BY DEF NotifyEvents
<1>3. \A e \in ToSet(s) : e \in All /\ LevelOf(e) \in pending' /\ LevelOf(e) \in Levels
  BY <1>2, EmptyList, LevelNumbers DEF ToSet
<1>4. ASSUME NEW level \in Levels
      PROVE  /\ queue'[level] \in Seq(All) /\ IsInjective(queue'[level])
             /\ ToSet(queue'[level])
                  = (ToSet(queue[level]) \ ToSet(s)) \cup {e \in ToSet(s) : LevelOf(e) = level}
  <2> DEFINE I == {i \in DOMAIN s : LevelOf(s[i]) = level}
             old == Without(queue[level], ToSet(s))
             new == OfLevel(s, level)
  <2>1. /\ old \in Seq(All) /\ ToSet(old) = ToSet(queue[level]) \ ToSet(s)
        /\ IsInjective(old)
    <3>1. queue[level] \in Seq(All) /\ IsInjective(queue[level])
      BY DEF QueuesSound
    <3> QED
      BY <3>1, WithoutThem
  <2>2. new \in Seq(All) /\ ToSet(new) = {s[i] : i \in I} /\ IsInjective(new)
    <3>1. I \subseteq DOMAIN s
      OBVIOUS
    <3> HIDE DEF I
    <3>2. new = Subsequence(s, I)
      BY DEF OfLevel, I
    <3> QED
      BY <3>1, <3>2, PartOf
  <2>3. {s[i] : i \in I} = {e \in ToSet(s) : LevelOf(e) = level}
    BY DEF ToSet
  <2>4. queue'[level] = old \o new
    BY <1>1 DEF Enqueue
  <2>5. ToSet(old) \cap ToSet(new) = {}
    BY <2>1, <2>2, <2>3
  <2> HIDE DEF old, new
  <2>6. old \o new \in Seq(All) /\ ToSet(old \o new) = ToSet(old) \cup ToSet(new)
        /\ IsInjective(old \o new)
    BY <2>1, <2>2, <2>5, Joined
  <2> QED
    BY <2>1, <2>2, <2>3, <2>4, <2>6
<1>5. ASSUME NEW level \in Levels
      PROVE  /\ \A e \in ToSet(queue'[level]) : LevelOf(e) = level
             /\ queue'[level] # <<>> => level \in pending'
  <2>1. \A e \in ToSet(queue[level]) : LevelOf(e) = level
    BY DEF QueuesSound
  <2>2. \A e \in ToSet(queue'[level]) : LevelOf(e) = level
    BY <1>4, <2>1
  <2>3. ASSUME queue'[level] # <<>> PROVE level \in pending'
    <3>1. ToSet(queue'[level]) # {}
      BY <1>4, <2>3, EmptyList
    <3>2. CASE ToSet(queue[level]) # {}
      <4>1. queue[level] # <<>>
        BY <1>1, <3>2, EmptyList
      <4> QED
        BY <1>2, <4>1 DEF QueuesSound
    <3>3. CASE ToSet(queue[level]) = {}
      BY <1>3, <1>4, <3>1, <3>3
    <3> QED
      BY <3>2, <3>3
  <2> QED
    BY <2>2, <2>3
<1>6. pending' \subseteq Levels
  BY <1>2, <1>3 DEF QueuesSound, ToSet
<1>7. queue' \in [Levels -> Seq(All)]
  BY <1>1, <1>4 DEF NotifyEvents
<1>8. QueuesSound(queue', pending')
  BY <1>4, <1>5, <1>6, <1>7 DEF QueuesSound
<1>9. ASSUME NEW e \in All
      PROVE  InQueue(queue', e) <=> InQueue(queue, e) \/ e \in ToSet(s)
  <2>1. LevelOf(e) \in Levels
    BY LevelNumbers
  <2> QED
    BY <1>4, <2>1 DEF InQueue
<1> QED
  BY <1>8, <1>9

\* The events queued for e have each once; they include e unless it belongs to a
\* group and is not registered.
LEMMA MembersOf ==
  ASSUME NEW e \in All, registered \in Seq(Signals), IsInjective(registered)
  PROVE  /\ Members(e) \in Seq(All) /\ IsInjective(Members(e))
         /\ IsSignal(e) /\ (~Grouped(e) \/ e \in ToSet(registered)) => e \in ToSet(Members(e))
         /\ ToSet(Members(e)) \subseteq {e} \cup ToSet(registered)
<1> DEFINE I == {i \in DOMAIN registered : Group[registered[i]] = Group[e]}
<1>1. Signals \subseteq All
  BY ConstantsAssumption DEF All
<1>2. registered \in Seq(All)
  BY <1>1
<1>3. CASE Grouped(e)
  <2>1. I \subseteq DOMAIN registered
    OBVIOUS
  <2>2. Members(e) = Subsequence(registered, I)
    BY <1>3 DEF Members
  <2>3. e \in ToSet(registered) => e \in {registered[i] : i \in I}
    BY DEF ToSet
  <2>5. {registered[i] : i \in I} \subseteq ToSet(registered)
    BY DEF ToSet
  <2> HIDE DEF I
  <2>4. /\ Subsequence(registered, I) \in Seq(All) /\ IsInjective(Subsequence(registered, I))
        /\ ToSet(Subsequence(registered, I)) = {registered[i] : i \in I}
    BY <1>2, <2>1, PartOf
  <2> QED
    BY <1>3, <2>2, <2>3, <2>4, <2>5
<1>4. CASE ~Grouped(e) /\ IsSignal(e)
  BY <1>4, OneElement DEF Members
<1>5. CASE ~Grouped(e) /\ ~IsSignal(e)
  <2>1. Members(e) = <<>> /\ <<>> \in Seq(All)
    BY <1>5 DEF Members
  <2> QED
    BY <1>5, <2>1, OneElement
<1> QED
  BY <1>3, <1>4, <1>5

\* What CoreSignalEvent does to the queues and counts.
LEMMA SignalEffect ==
  ASSUME NEW e \in All, registered \in Seq(Signals), IsInjective(registered),
         QueuesSound(queue, pending), count \in [All -> {0, 1}], Signal(e)
  PROVE  /\ QueuesSound(queue', pending') /\ count' \in [All -> {0, 1}]
         /\ \A x \in All : x # e => count'[x] = count[x]
         /\ \A x \in All : InQueue(queue, x) => InQueue(queue', x)
         /\ \A x \in All : InQueue(queue', x) =>
                             InQueue(queue, x) \/ x \in {e} \cup ToSet(registered)
         /\ count[e] = 0 /\ IsSignal(e) /\ (~Grouped(e) \/ e \in ToSet(registered))
              => InQueue(queue', e)
<1>1. count' = [count EXCEPT ![e] = 1]
  BY DEF Signal
<1>2. NotifyEvents(IF count[e] = 0 THEN Members(e) ELSE <<>>)
  BY DEF Signal
<1>3. CASE count[e] = 0
  <2>1. NotifyEvents(Members(e))
    BY <1>2, <1>3
  <2>2. /\ QueuesSound(queue', pending')
        /\ \A x \in All : InQueue(queue', x) <=> InQueue(queue, x) \/ x \in ToSet(Members(e))
    BY <2>1, MembersOf, Notified
  <2> QED
    BY <1>1, <2>2, MembersOf
<1>4. CASE count[e] # 0
  <2>1. NotifyEvents(<<>>)
    BY <1>2, <1>4
  <2>2. <<>> \in Seq(All) /\ IsInjective(<<>>) /\ ToSet(<<>>) = {}
    <3>1. <<>> \in Seq(All)
      OBVIOUS
    <3> QED
      BY <3>1, OneElement
  <2>3. /\ QueuesSound(queue', pending')
        /\ \A x \in All : InQueue(queue', x) <=> InQueue(queue, x) \/ x \in ToSet(<<>>)
    BY <2>1, <2>2, Notified
  <2> QED
    BY <1>1, <1>4, <2>2, <2>3
<1> QED
  BY <1>3, <1>4

-----------------------------------------------------------------------------
(****************************** The invariant ******************************)

Busy      == Service \cup {"again"}
Holding   == {"again", "time", "insert"}
Freeing   == {"free"}
Signalled == {"group", "free"}

Typed ==
  /\ interrupts \in BOOLEAN
  /\ count \in [All -> {0, 1}]
  /\ life \in [Events -> {"none", "open", "closed"}]
  /\ registered \in Seq(Signals) /\ armed \in Seq(Timers)
  /\ trigger \in [Events -> Nat] /\ period \in [Events -> Nat]
  /\ now \in 0 .. MaxTime

\* An event that is signalled is queued, or a frame will queue it or free it.
Delivered ==
  \A e \in Signals \cup {CheckTimer} :
    count[e] # 0 /\ (e \in Events => life[e] = "open") =>
      InQueue(queue, e) \/ e \in EventsOf(stack, Signalled)

\* An open event is registered until it is freed; nothing refers to an event
\* that is not created.
Created ==
  /\ IsInjective(registered)
  /\ \A e \in ToSet(registered) : life[e] # "none"
  /\ \A e \in Signals : life[e] = "open" => e \in ToSet(registered) \cup EventsOf(stack, Freeing)
  /\ \A e \in Events : life[e] = "none" =>
       count[e] = 0 /\ e \notin ToSet(armed) /\ e \notin EventsOf(stack, Busy)

\* The timers are in order, each once; a periodic one is in the list or in hand.
TimersSound ==
  /\ IsInjective(armed) /\ Ordered(armed, trigger)
  /\ \A e \in Timers : period[e] # 0 => e \in ToSet(armed) \cup EventsOf(stack, Holding)
  /\ \A e \in EventsOf(stack, Holding) : e \notin ToSet(armed)

Inv ==
  /\ Sound(stack, tpl, interrupts) /\ Typed /\ QueuesSound(queue, pending)
  /\ Delivered /\ Created /\ TimersSound

\* The frame that runs.
LEMMA TopFacts ==
  ASSUME Inv
  PROVE  /\ stack \in Seq(Frames) /\ stack # <<>> /\ Len(stack) \in Nat /\ Len(stack) > 0
         /\ Top \in Frames /\ FrameOk(Top) /\ Runs(Top, tpl, interrupts) /\ tpl \in Levels
         /\ Top.at \in Labels /\ Top.tpl \in Levels /\ Top.event \in All \cup {Base}
         /\ Top.time \in Nat /\ Top.tpl \in Int /\ tpl \in Int
         /\ Top = stack[Len(stack)]
<1>1. stack \in Seq(Frames) /\ stack # <<>> /\ Len(stack) \in Nat /\ Len(stack) > 0
  BY FrontOf DEF Inv, Sound
<1>2. Top \in Frames /\ FrameOk(Top) /\ Runs(Top, tpl, interrupts) /\ tpl \in Levels
  BY <1>1 DEF Inv, Sound, Top
<1> QED
  BY <1>1, <1>2, LevelInt DEF Frames, Top

\* The frame that is called when a lock is released.
LEMMA RestoreFrame ==
  ASSUME NEW level \in Levels
  PROVE  /\ Restore(level) \in Frames /\ FrameOk(Restore(level)) /\ Back(Restore(level)) = level
         /\ Restore(level).at = "restore" /\ Restore(level).tpl = level
         /\ Runs(Restore(level), High, FALSE) /\ High \in Levels
<1>1. Restore(level) = [at |-> "restore", tpl |-> level, event |-> CheckTimer, time |-> 0]
  BY DEF Restore, Frame
<1>2. Restore(level) \in Frames
  BY <1>1 DEF Frames, Labels, All
<1>3. level <= High /\ High \in Levels
  BY DEF Levels, High, Application, Callback, Notify, TimerLevel
<1> QED
  BY <1>1, <1>2, <1>3 DEF FrameOk, Back, Runs, CheckingTimers, Service, SettingTimer, Unmasking

\* What is locked over a frame that runs at a level.
LEMMA RestoreOn ==
  ASSUME NEW f, NEW level \in Levels,
         f.at \in Unmasking => f.tpl <= level, f.at \notin Unmasking => Floor(f) = level
  PROVE  On(f, Restore(level))
BY RestoreFrame DEF On, Function, CheckingTimers, Dispatching

\* Steps that take no event into the frames' hands and let none go.
LEMMA SameEvents ==
  ASSUME Inv, NEW f \in Frames, NEW h \in Frames, NEW L, L \subseteq Busy,
         \/ f.at = Top.at /\ f.event = Top.event
         \/ f.at \notin Busy /\ Top.at \notin Busy,
         h.at \notin Busy
  PROVE  /\ EventsOf(Callers(f), L) = EventsOf(stack, L)
         /\ EventsOf(Append(Callers(f), h), L) = EventsOf(stack, L)
         /\ EventsOf(Append(stack, h), L) = EventsOf(stack, L)
         /\ Top.at \notin Busy => EventsOf(Front(stack), L) = EventsOf(stack, L)
<1>1. stack \in Seq(Frames) /\ stack # <<>>
  BY TopFacts
<1>2. One(f, L) = One(Top, L) /\ One(h, L) = {}
  BY DEF One
<1>3. Top.at \notin Busy => One(Top, L) = {}
  BY DEF One
<1>4. /\ EventsOf(stack, L) = EventsOf(Front(stack), L) \cup One(Top, L)
      /\ EventsOf(Callers(f), L) = EventsOf(Front(stack), L) \cup One(f, L)
      /\ EventsOf(Append(Callers(f), h), L)
           = EventsOf(Front(stack), L) \cup One(f, L) \cup One(h, L)
      /\ EventsOf(Append(stack, h), L) = EventsOf(stack, L) \cup One(h, L)
  BY <1>1, EventsMoved
<1> QED
  BY <1>2, <1>3, <1>4

\* Steps that change nothing but the stack, the level and the interrupts.
LEMMA Quiet ==
  ASSUME Inv, Sound(stack', tpl', interrupts'), interrupts' \in BOOLEAN,
         UNCHANGED <<notifying, life, registered, timing, now>>,
         \A L \in {Freeing, Signalled, Holding} : EventsOf(stack', L) = EventsOf(stack, L),
         \A e \in EventsOf(stack', Busy) : e \in EventsOf(stack, Busy) \/ e \notin Events
                                           \/ life[e] # "none"
  PROVE  Inv'
<1>1. /\ EventsOf(stack', Freeing) = EventsOf(stack, Freeing)
      /\ EventsOf(stack', Signalled) = EventsOf(stack, Signalled)
      /\ EventsOf(stack', Holding) = EventsOf(stack, Holding)
  OBVIOUS
<1>2. Typed' /\ QueuesSound(queue', pending')
  BY DEF Inv, Typed, notifying, timing
<1>3. Delivered'
  BY <1>1 DEF Inv, Delivered, notifying
<1>4. Created'
  BY <1>1 DEF Inv, Created, notifying, timing
<1>5. TimersSound'
  BY <1>1 DEF Inv, TimersSound, timing
<1> QED
  BY <1>2, <1>3, <1>4, <1>5 DEF Inv

\* A quiet step that goes on, calls or returns.
LEMMA QuietGoto ==
  ASSUME Inv, NEW f \in Frames, Continues(f, Top), stack' = Callers(f),
         tpl' \in Levels, interrupts' \in BOOLEAN, Runs(f, tpl', interrupts'),
         UNCHANGED <<notifying, life, registered, timing, now>>,
         \/ f.at = Top.at /\ f.event = Top.event
         \/ f.at \notin Busy /\ Top.at \notin Busy
  PROVE  Inv'
<1>1. Sound(stack', tpl', interrupts')
  BY TopFacts, SoundGoto DEF Inv, Callers
<1>2. CheckTimer \in All /\ Application \in Levels
  BY DEF All, Levels
<1>3. Restore(Application).at \notin Busy /\ Restore(Application) \in Frames
  BY <1>2, RestoreFrame DEF Busy, Service, SettingTimer
<1>4. \A L : L \subseteq Busy => EventsOf(stack', L) = EventsOf(stack, L)
  BY <1>3, SameEvents
<1> QED
  BY <1>1, <1>4, Quiet DEF Freeing, Signalled, Holding, Busy, Service, SettingTimer

\* The frame that runs goes on and calls another.
LEMMA QuietCall ==
  ASSUME Inv, NEW f \in Frames, NEW h \in Frames, Continues(f, Top), FrameOk(h), On(f, h),
         stack' = Append(Callers(f), h), h.at \notin Busy,
         tpl' \in Levels, interrupts' \in BOOLEAN, Runs(h, tpl', interrupts'),
         UNCHANGED <<notifying, life, registered, timing, now>>,
         \/ f.at = Top.at /\ f.event = Top.event
         \/ f.at \notin Busy /\ Top.at \notin Busy
  PROVE  Inv'
<1>1. Sound(stack', tpl', interrupts')
  BY TopFacts, SoundCall DEF Inv, Callers
<1>2. \A L : L \subseteq Busy => EventsOf(stack', L) = EventsOf(stack, L)
  BY SameEvents
<1> QED
  BY <1>1, <1>2, Quiet DEF Freeing, Signalled, Holding, Busy, Service, SettingTimer

\* The frame that runs returns.
LEMMA QuietReturn ==
  ASSUME Inv, Top.at # "code" \/ Top.event # Base, stack' = Front(stack), Top.at \notin Busy,
         tpl' = Back(Top), interrupts' = TRUE,
         UNCHANGED <<notifying, life, registered, timing, now>>
  PROVE  Inv'
<1>1. Sound(stack', tpl', interrupts')
  BY TopFacts, SoundReturn DEF Inv
<1>2. \A L : L \subseteq Busy => EventsOf(stack', L) = EventsOf(stack, L)
  BY TopFacts, SameEvents
<1> QED
  BY <1>1, <1>2, Quiet DEF Freeing, Signalled, Holding, Busy, Service, SettingTimer

-----------------------------------------------------------------------------
(*************************** Restoring the level ***************************)

\* The highest of some levels.
LEMMA HighestOf ==
  ASSUME NEW S, S \subseteq Levels, S # {}
  PROVE  Highest(S) \in S /\ \A p \in S : p <= Highest(S)
<1>1. S \subseteq 0 .. 31 /\ 31 \in Nat
  BY DEF Levels, Application, Callback, Notify, TimerLevel, High
<1>2. \E i \in S : \A j \in S : j <= i
  BY <1>1, Largest
<1> QED
  BY <1>2 DEF Highest

\* The frame that runs may go on as itself.
LEMMA ContinuesSame ==
  ASSUME Inv
  PROVE  Continues(Top, Top)
BY TopFacts DEF Continues

\* Dispatching what is unmasked.
LEMMA RestoreDispatchStep ==
  ASSUME Inv, RestoreDispatch
  PROVE  Inv'
<1> DEFINE p == Highest(pending)
           h == Frame("dispatch", p, CheckTimer, 0)
<1>1. pending \subseteq Levels /\ Top.at = "restore"
  BY DEF Inv, QueuesSound, RestoreDispatch, At
<1>2. p \in Levels /\ p > Top.tpl
  <2>1. PICK q \in pending : q > Top.tpl
    BY DEF RestoreDispatch, Unmasked
  <2>2. p \in pending /\ q <= p
    BY <1>1, <2>1, HighestOf
  <2>3. p \in Levels /\ p \in Int /\ q \in Int /\ Top.tpl \in Int
    BY <1>1, <2>1, <2>2, LevelInt, TopFacts
  <2> QED
    BY <2>1, <2>2, <2>3
<1> HIDE DEF p
<1>3. /\ h \in Frames /\ FrameOk(h) /\ h.at = "dispatch" /\ Back(h) = p /\ h.tpl = p
      /\ Runs(h, p, TRUE)
  <2>1. h = [at |-> "dispatch", tpl |-> p, event |-> CheckTimer, time |-> 0]
    BY DEF Frame
  <2>2. h \in Frames
    BY <1>2, <2>1 DEF Frames, Labels, All
  <2> QED
    BY <1>2, <2>1, <2>2 DEF FrameOk, Back, Runs, Floor, CheckingTimers, Service, SettingTimer,
       Unmasking
<1> HIDE DEF h
<1>4. On(Top, h)
  BY <1>1, <1>2, <1>3, TopFacts, LevelInt DEF On, Function, CheckingTimers, Dispatching, Unmasking
<1>5. /\ stack' = Append(Callers(Top), h) /\ tpl' = p /\ interrupts' = TRUE
      /\ UNCHANGED <<notifying, life, registered, timing, now>>
  BY DEF RestoreDispatch, Call, h, p
<1>6. h.at \notin Busy /\ Top \in Frames
  BY <1>3, TopFacts DEF Busy, Service, SettingTimer
<1> QED
  BY <1>2, <1>3, <1>4, <1>5, <1>6, ContinuesSame, QuietCall

\* Nothing is unmasked.
LEMMA RestoreDoneStep ==
  ASSUME Inv, RestoreDone
  PROVE  Inv'
<1> DEFINE f == [Top EXCEPT !.at = "lower"]
<1>1. /\ Top.at = "restore" /\ stack' = Callers(f) /\ tpl' = tpl /\ interrupts' = TRUE
      /\ UNCHANGED <<notifying, life, registered, timing, now>>
  BY DEF Inv, Typed, RestoreDone, At, Goto
<1>2. f \in Frames /\ f.at = "lower" /\ f.tpl = Top.tpl /\ f.event = Top.event
  BY TopFacts DEF Frames, Labels
<1> HIDE DEF f
<1>3. Continues(f, Top) /\ Runs(f, tpl, TRUE)
  BY <1>1, <1>2, TopFacts DEF Continues, FrameOk, Back, Runs, Function, CheckingTimers,
     Dispatching, Service, SettingTimer, Unmasking
<1>4. f.at \notin Busy /\ Top.at \notin Busy /\ tpl \in Levels
  BY <1>1, <1>2, TopFacts DEF Busy, Service, SettingTimer
<1> QED
  BY <1>1, <1>2, <1>3, <1>4, QuietGoto

\* The new level is set.
LEMMA RestoreLowerStep ==
  ASSUME Inv, RestoreLower
  PROVE  Inv'
<1>1. /\ Top.at \in {"restore", "lower"} /\ stack' = Front(stack) /\ tpl' = Top.tpl
      /\ interrupts' = TRUE
      /\ UNCHANGED <<notifying, life, registered, timing, now>>
  BY DEF RestoreLower, At, Return
<1>2. Back(Top) = Top.tpl /\ Top.at # "code" /\ Top.at \notin Busy
  BY <1>1 DEF Back, Busy, Service, SettingTimer
<1> QED
  BY <1>1, <1>2, QuietReturn

-----------------------------------------------------------------------------
(************************* Steps of queues and lists ***********************)

\* Steps that create and close no event.
LEMMA Kept ==
  ASSUME Inv, Sound(stack', tpl', interrupts'), Typed', QueuesSound(queue', pending'),
         TimersSound', life' = life, registered' = registered,
         EventsOf(stack', Freeing) = EventsOf(stack, Freeing),
         \A e \in Signals \cup {CheckTimer} :
           count'[e] # 0 /\ (e \in Events => life[e] = "open") =>
             \/ InQueue(queue', e) \/ e \in EventsOf(stack', Signalled)
             \/ /\ count[e] # 0
                /\ InQueue(queue, e) => InQueue(queue', e)
                /\ e \in EventsOf(stack, Signalled) => e \in EventsOf(stack', Signalled),
         \A e \in Events : life[e] = "none" => /\ count'[e] = 0 /\ e \notin ToSet(armed')
                                               /\ e \notin EventsOf(stack', Busy)
  PROVE  Inv'
<1>1. Delivered'
  BY DEF Inv, Delivered
<1>2. Created'
  BY DEF Inv, Created
<1> QED
  BY <1>1, <1>2 DEF Inv

\* The timers are untouched.
LEMMA TimersKept ==
  ASSUME Inv, UNCHANGED timing, EventsOf(stack', Holding) = EventsOf(stack, Holding)
  PROVE  TimersSound'
BY DEF Inv, TimersSound, timing

\* What is left of a list when its first element is taken.
LEMMA Taken ==
  ASSUME NEW T, NEW s \in Seq(T), s # <<>>, IsInjective(s)
  PROVE  /\ Head(s) \in T /\ Head(s) \in ToSet(s)
         /\ Tail(s) \in Seq(T) /\ IsInjective(Tail(s))
         /\ ToSet(Tail(s)) = ToSet(s) \ {Head(s)}
         /\ \A f : Ordered(s, f) => Ordered(Tail(s), f)
<1> DEFINE t == Tail(s)
<1>1. /\ t \in Seq(T) /\ Len(s) \in Nat /\ Len(s) > 0 /\ Len(t) = Len(s) - 1
      /\ DOMAIN s = 1 .. Len(s) /\ DOMAIN t = 1 .. Len(t) /\ Head(s) = s[1] /\ s[1] \in T
      /\ \A i \in 1 .. Len(t) : t[i] = s[i + 1] /\ i + 1 \in 1 .. Len(s) /\ i + 1 # 1
      /\ \A i \in 1 .. Len(s) : i # 1 => i - 1 \in 1 .. Len(t) /\ t[i - 1] = s[i]
  OBVIOUS
<1> HIDE DEF t
<1>2. 1 \in DOMAIN s
  BY <1>1
<1>3. IsInjective(t)
  <2> SUFFICES ASSUME NEW i \in DOMAIN t, NEW j \in DOMAIN t, t[i] = t[j] PROVE i = j
    BY DEF IsInjective
  <2>1. i + 1 = j + 1
    BY <1>1 DEF IsInjective
  <2> QED
    BY <1>1, <2>1
<1>4. ToSet(t) = ToSet(s) \ {Head(s)}
  <2>1. \A i \in DOMAIN t : t[i] \in ToSet(s) \ {Head(s)}
    BY <1>1, <1>2 DEF IsInjective, ToSet
  <2>2. \A i \in DOMAIN s : s[i] # Head(s) => s[i] \in ToSet(t)
    BY <1>1 DEF ToSet
  <2> QED
    BY <2>1, <2>2 DEF ToSet
<1>5. ASSUME NEW f, Ordered(s, f) PROVE Ordered(t, f)
  <2> SUFFICES ASSUME NEW i \in DOMAIN t, NEW j \in DOMAIN t, i < j PROVE f[t[i]] <= f[t[j]]
    BY DEF Ordered
  <2>1. /\ i + 1 \in DOMAIN s /\ j + 1 \in DOMAIN s /\ i + 1 < j + 1
        /\ t[i] = s[i + 1] /\ t[j] = s[j + 1]
    BY <1>1
  <2> QED
    BY <1>5, <2>1 DEF Ordered
<1> QED
  BY <1>1, <1>2, <1>3, <1>4, <1>5 DEF t, ToSet

\* What the events of the frames are after the ways to change the stack.
LEMMA EventsAfter ==
  ASSUME Inv, NEW f \in Frames, NEW h \in Frames, NEW L
  PROVE  /\ EventsOf(stack, L) = EventsOf(Front(stack), L) \cup One(Top, L)
         /\ EventsOf(Callers(f), L) = EventsOf(Front(stack), L) \cup One(f, L)
         /\ EventsOf(Append(Callers(f), h), L)
              = EventsOf(Front(stack), L) \cup One(f, L) \cup One(h, L)
         /\ EventsOf(Append(stack, h), L) = EventsOf(stack, L) \cup One(h, L)
         /\ EventsOf(Append(Append(stack, f), h), L)
              = EventsOf(stack, L) \cup One(f, L) \cup One(h, L)
BY TopFacts, EventsMoved

\* The frame of a released lock has no event in hand.
LEMMA RestoreIdle ==
  ASSUME NEW level \in Levels, NEW L, L \subseteq Busy
  PROVE  One(Restore(level), L) = {} /\ Restore(level).at \notin Busy
BY RestoreFrame DEF One, Busy, Service, SettingTimer

-----------------------------------------------------------------------------
(****************************** Dispatching ********************************)

\* The next event is taken from its queue.
LEMMA DispatchNextStep ==
  ASSUME Inv, DispatchNext
  PROVE  Inv'
<1> DEFINE l == Top.tpl
           e == Head(queue[l])
           f == [Top EXCEPT !.at = "notify", !.event = e]
<1>1. /\ Top.at = "dispatch" /\ queue[l] # <<>> /\ stack' = Append(Callers(f), Restore(l))
      /\ queue' = [queue EXCEPT ![l] = Tail(@)] /\ count' = Cleared(e)
      /\ tpl' = High /\ interrupts' = FALSE
      /\ UNCHANGED <<pending, life, registered, timing, now>>
  BY DEF DispatchNext, At, Call, Locked
<1>2. /\ l \in Levels /\ queue[l] \in Seq(All) /\ IsInjective(queue[l])
      /\ \A x \in ToSet(queue[l]) : LevelOf(x) = l
  BY TopFacts DEF Inv, QueuesSound
<1>3. /\ e \in All /\ e \in ToSet(queue[l]) /\ LevelOf(e) = l
      /\ Tail(queue[l]) \in Seq(All) /\ IsInjective(Tail(queue[l]))
      /\ ToSet(Tail(queue[l])) = ToSet(queue[l]) \ {e}
  BY <1>1, <1>2, Taken
<1> HIDE DEF e
<1>4. f \in Frames /\ f.at = "notify" /\ f.tpl = l /\ f.event = e
  BY <1>3, TopFacts DEF Frames, Labels
<1> HIDE DEF f
<1>5. Continues(f, Top)
  BY <1>1, <1>3, <1>4, LevelNumbers DEF Continues, FrameOk, Back, Function, CheckingTimers,
     Dispatching, Service, SettingTimer
<1>6. On(f, Restore(l))
  BY <1>2, <1>4, RestoreOn DEF Unmasking, Floor, SettingTimer
<1>7. Sound(stack', tpl', interrupts')
  BY <1>1, <1>2, <1>4, <1>5, <1>6, RestoreFrame, SoundCall DEF Inv, Callers, Top
<1>8. Typed'
  BY <1>1 DEF Inv, Typed, Cleared, timing
<1>9. /\ queue' \in [Levels -> Seq(All)] /\ queue'[l] = Tail(queue[l])
      /\ \A level \in Levels : level # l => queue'[level] = queue[level]
  BY <1>1, <1>2, <1>3 DEF Inv, QueuesSound
<1>10. QueuesSound(queue', pending')
  <2>1. queue[l] # <<>> => l \in pending
    BY <1>2 DEF Inv, QueuesSound
  <2> QED
    BY <1>1, <1>2, <1>3, <1>9, <2>1 DEF Inv, QueuesSound
<1>11. \A L : L \subseteq Busy => EventsOf(stack', L) = EventsOf(stack, L)
  <2>1. f.at \notin Busy /\ Top.at \notin Busy
    BY <1>1, <1>4 DEF Busy, Service, SettingTimer
  <2>2. Restore(l).at \notin Busy /\ Restore(l) \in Frames
    BY <1>2, RestoreFrame, RestoreIdle
  <2> QED
    BY <1>1, <1>4, <2>1, <2>2, SameEvents
<1>12. Freeing \subseteq Busy /\ Signalled \subseteq Busy /\ Holding \subseteq Busy
  BY DEF Freeing, Signalled, Holding, Busy, Service, SettingTimer
<1>13. TimersSound'
  BY <1>1, <1>11, <1>12, TimersKept
<1>14. ASSUME NEW x \in Signals \cup {CheckTimer}, count'[x] # 0
       PROVE  count[x] # 0 /\ (InQueue(queue, x) => InQueue(queue', x))
  <2>1. x \in All /\ LevelOf(x) \in Levels
    BY ConstantsAssumption, LevelNumbers DEF All
  <2>2. x # e /\ count'[x] = count[x]
    BY <1>1, <1>3, <1>14, <2>1 DEF Cleared, IsSignal, Inv, Typed
  <2>3. ASSUME InQueue(queue, x) PROVE InQueue(queue', x)
    BY <1>3, <1>9, <2>1, <2>2, <2>3 DEF InQueue
  <2> QED
    BY <1>14, <2>2, <2>3
<1>15. \A x \in Events : life[x] = "none" => count'[x] = 0 /\ x \notin ToSet(armed')
                                             /\ x \notin EventsOf(stack', Busy)
  <2>1. \A x \in Events : count'[x] = count[x] \/ count'[x] = 0
    BY <1>1 DEF Cleared, All, Inv, Typed
  <2> QED
    BY <1>1, <1>11, <2>1 DEF Inv, Created, timing
<1> QED
  BY <1>1, <1>7, <1>8, <1>10, <1>11, <1>12, <1>13, <1>14, <1>15, Kept

\* The event's function is called.
LEMMA DispatchNotifyStep ==
  ASSUME Inv, DispatchNotify
  PROVE  Inv'
<1> DEFINE e == Top.event
           f == [Top EXCEPT !.at = "dispatch"]
           h == Frame(IF e = CheckTimer THEN "timers" ELSE "code", LevelOf(e), e, 0)
<1>1. /\ Top.at = "notify" /\ stack' = Append(Callers(f), h)
      /\ tpl' = tpl /\ interrupts' = interrupts
      /\ UNCHANGED <<notifying, life, registered, timing, now>>
  BY DEF DispatchNotify, At, Call
<1>2. /\ e \in All /\ LevelOf(e) = Top.tpl /\ Top.tpl \in Levels /\ tpl = Top.tpl
      /\ interrupts = TRUE
  BY <1>1, TopFacts, LevelNumbers DEF FrameOk, Runs, Floor, Unmasking, SettingTimer, Inv, Typed
<1>3. f \in Frames /\ f.at = "dispatch" /\ f.tpl = Top.tpl /\ f.event = e
  BY TopFacts DEF Frames, Labels
<1>4. /\ h \in Frames /\ h.at = (IF e = CheckTimer THEN "timers" ELSE "code")
      /\ h.tpl = LevelOf(e) /\ h.event = e
  BY <1>2 DEF Frame, Frames, Labels
<1> HIDE DEF e, f, h
<1>5. Continues(f, Top)
  BY <1>1, <1>2, <1>3 DEF Continues, FrameOk, Back, Function, CheckingTimers,
     Dispatching, Service, SettingTimer
<1>6. /\ FrameOk(h) /\ Back(h) = Top.tpl /\ h.at \in Function
      /\ h.at = "code" => h.event # Base
  <2>1. CASE e = CheckTimer
    BY <1>2, <1>4, <2>1 DEF FrameOk, Back, LevelOf, Function, CheckingTimers, Service, SettingTimer
  <2>2. CASE e # CheckTimer
    <3>1. e \in Events /\ LevelOf(e) = NotifyTpl[e] /\ e # Base
      BY <1>2, <2>2, LevelNumbers DEF All, LevelOf
    <3>2. NotifyTpl[e] <= Notify /\ NotifyTpl[e] <= NotifyTpl[e] /\ OwnLevel(h) = LevelOf(e)
      BY <1>4, <3>1, LevelNumbers DEF Notify, Callback, OwnLevel
    <3> QED
      BY <1>2, <1>4, <2>2, <3>1, <3>2 DEF FrameOk, Back, Function, CheckingTimers,
         Service, SettingTimer
  <2> QED
    BY <2>1, <2>2
<1>7. On(f, h)
  BY <1>3, <1>4, <1>6 DEF On, Function, CheckingTimers, Dispatching, Unmasking, Floor, SettingTimer
<1>8. Runs(h, tpl, TRUE)
  BY <1>2, <1>4 DEF Runs, Floor, Unmasking, SettingTimer
<1>9. h.at \notin Busy /\ f.at \notin Busy /\ Top.at \notin Busy
  BY <1>1, <1>3, <1>4 DEF Busy, Service, SettingTimer
<1> QED
  BY <1>1, <1>2, <1>3, <1>4, <1>5, <1>6, <1>7, <1>8, <1>9, QuietCall

\* The level's bit is cleared.
LEMMA DispatchEndStep ==
  ASSUME Inv, DispatchEnd
  PROVE  Inv'
<1> DEFINE l == Top.tpl
           f == Restore(l)
<1>1. /\ Top.at = "dispatch" /\ queue[l] = <<>> /\ stack' = Callers(f)
      /\ pending' = pending \ {l} /\ tpl' = High /\ interrupts' = FALSE
      /\ UNCHANGED <<queue, count, life, registered, timing, now>>
  BY DEF DispatchEnd, At, Goto, Locked
<1>2. l \in Levels /\ Top.at \notin Busy
  BY <1>1, TopFacts DEF Busy, Service, SettingTimer
<1>3. /\ f \in Frames /\ FrameOk(f) /\ Back(f) = l /\ f.at = "restore" /\ f.tpl = l
      /\ Runs(f, High, FALSE) /\ High \in Levels /\ f.at \notin Busy
  BY <1>2, RestoreFrame, RestoreIdle
<1> HIDE DEF f
<1>4. Continues(f, Top)
  BY <1>1, <1>3 DEF Continues, Back, Function, CheckingTimers, Dispatching
<1>5. Sound(stack', tpl', interrupts')
  BY <1>1, <1>3, <1>4, SoundGoto DEF Inv, Callers, Top
<1>6. Typed' /\ QueuesSound(queue', pending')
  BY <1>1 DEF Inv, Typed, QueuesSound, timing
<1>7. \A L : L \subseteq Busy => EventsOf(stack', L) = EventsOf(stack, L)
  BY <1>1, <1>2, <1>3, SameEvents
<1>8. Freeing \subseteq Busy /\ Signalled \subseteq Busy /\ Holding \subseteq Busy
  BY DEF Freeing, Signalled, Holding, Busy, Service, SettingTimer
<1>9. TimersSound'
  BY <1>1, <1>7, <1>8, TimersKept
<1>10. \A x \in Events : life[x] = "none" => count'[x] = 0 /\ x \notin ToSet(armed')
                                             /\ x \notin EventsOf(stack', Busy)
  BY <1>1, <1>7 DEF Inv, Created, timing
<1> QED
  BY <1>1, <1>5, <1>6, <1>7, <1>8, <1>9, <1>10, Kept

-----------------------------------------------------------------------------
(******************************** The timers *******************************)

\* The sets of labels.
LEMMA Labelled ==
  Freeing \subseteq Busy /\ Signalled \subseteq Busy /\ Holding \subseteq Busy
BY DEF Freeing, Signalled, Holding, Busy, Service, SettingTimer

\* A frame that holds the lock is the only one that holds a timer.
LEMMA Alone ==
  ASSUME Inv, Top.at \in Holders
  PROVE  EventsOf(Front(stack), Holding) = {} /\ EventsOf(stack, Holding) = One(Top, Holding)
<1>1. /\ Len(stack) \in Nat /\ Len(stack) > 0 /\ Len(stack) \in 1 .. Len(stack)
      /\ stack[Len(stack)].at \in Holders /\ stack \in Seq(Frames) /\ stack # <<>>
      /\ Top \in Frames
  BY TopFacts
<1>2. \A j \in 1 .. Len(stack) : stack[j].at \in Holders => Len(stack) = j
  BY <1>1, SoundLock DEF Inv
<1>3. /\ Len(Front(stack)) = Len(stack) - 1
      /\ \A i \in 1 .. Len(stack) - 1 : Front(stack)[i] = stack[i]
  BY <1>1, FrontOf
<1>4. ASSUME NEW i \in 1 .. Len(Front(stack)) PROVE Front(stack)[i].at \notin Holding
  BY <1>1, <1>2, <1>3 DEF Holding, Holders, SettingTimer
<1>5. EventsOf(Front(stack), Holding) = {}
  BY <1>4 DEF EventsOf
<1> QED
  BY <1>1, <1>5, EventsFront DEF Top

\* The order of a list depends on the times of its elements only.
LEMMA SameOrder ==
  ASSUME NEW s, NEW f, NEW h, Ordered(s, f), \A x \in ToSet(s) : h[x] = f[x]
  PROVE  Ordered(s, h)
BY DEF Ordered, ToSet

\* The tick of the timer.
LEMMA TimerTickStep ==
  ASSUME Inv, TimerTick
  PROVE  Inv'
<1>1. /\ interrupts /\ now' = now + 1 /\ now < MaxTime
      /\ stack' = Append(stack, Restore(tpl)) /\ tpl' = High /\ interrupts' = FALSE
      /\ UNCHANGED <<life, registered, timing>>
      /\ Signal(CheckTimer) \/ UNCHANGED notifying
  BY DEF TimerTick, Locked
<1>2. /\ Top \in Frames /\ tpl \in Levels /\ Runs(Top, tpl, interrupts)
      /\ Restore(tpl) \in Frames /\ FrameOk(Restore(tpl)) /\ Runs(Restore(tpl), High, FALSE)
      /\ High \in Levels /\ Restore(tpl).at \notin Busy
  BY TopFacts, RestoreFrame, RestoreIdle
<1>3. On(Top, Restore(tpl))
  BY <1>2, RestoreOn DEF Runs
<1>4. Sound(stack', tpl', interrupts')
  BY <1>1, <1>2, <1>3, SoundPush DEF Inv, Top
<1>5. \A L : L \subseteq Busy => EventsOf(stack', L) = EventsOf(stack, L)
  BY <1>1, <1>2, SameEvents
<1>6. TimersSound'
  BY <1>1, <1>5, Labelled, TimersKept
<1>7. /\ CheckTimer \in All /\ IsSignal(CheckTimer) /\ ~Grouped(CheckTimer)
      /\ CheckTimer \notin Events
  BY ConstantsAssumption DEF All, IsSignal, Grouped
<1>8. /\ QueuesSound(queue', pending') /\ count' \in [All -> {0, 1}]
      /\ \A x \in All : x # CheckTimer => count'[x] = count[x]
      /\ \A x \in All : InQueue(queue, x) => InQueue(queue', x)
      /\ \/ InQueue(queue', CheckTimer)
         \/ count'[CheckTimer] = count[CheckTimer] \/ count[CheckTimer] # 0
  <2>1. CASE Signal(CheckTimer)
    BY <1>7, <2>1, SignalEffect DEF Inv, Typed, Created
  <2>2. CASE UNCHANGED notifying
    BY <2>2 DEF Inv, Typed, notifying
  <2> QED
    BY <1>1, <2>1, <2>2
<1>9. Typed'
  <2>1. now' \in 0 .. MaxTime
    BY <1>1, ConstantsAssumption DEF Inv, Typed
  <2>2. interrupts' \in BOOLEAN
    BY <1>1
  <2> QED
    BY <1>1, <1>8, <2>1, <2>2 DEF Inv, Typed, timing
<1>10. \A x \in Signals \cup {CheckTimer} : x \in All
  BY ConstantsAssumption DEF All
<1>11. \A x \in Events : life[x] = "none" => count'[x] = 0 /\ x \notin ToSet(armed')
                                             /\ x \notin EventsOf(stack', Busy)
  <2>1. \A x \in Events : x \in All /\ count'[x] = count[x]
    BY <1>7, <1>8 DEF All
  <2> QED
    BY <1>1, <1>5, <2>1 DEF Inv, Created, timing
<1> QED
  BY <1>1, <1>4, <1>5, <1>6, <1>8, <1>9, <1>10, <1>11, Labelled, Kept

\* CoreCheckTimers reads the time.
LEMMA CheckTimersStartStep ==
  ASSUME Inv, CheckTimersStart
  PROVE  Inv'
<1> DEFINE f == [Top EXCEPT !.at = "expire", !.time = now]
<1>1. /\ Top.at = "timers" /\ stack' = Callers(f) /\ tpl' = tpl /\ interrupts' = interrupts
      /\ UNCHANGED <<notifying, life, registered, timing, now>>
  BY DEF CheckTimersStart, At, Goto
<1>2. f \in Frames /\ f.at = "expire" /\ f.tpl = Top.tpl /\ f.event = Top.event
  <2>1. now \in Nat
    BY ConstantsAssumption DEF Inv, Typed
  <2> QED
    BY <2>1, TopFacts DEF Frames, Labels
<1> HIDE DEF f
<1>3. Continues(f, Top) /\ Runs(f, tpl, interrupts)
  BY <1>1, <1>2, TopFacts DEF Continues, FrameOk, Back, Runs, Function, CheckingTimers,
     Dispatching, Service, SettingTimer, Unmasking, Floor
<1>4. f.at \notin Busy /\ Top.at \notin Busy /\ tpl \in Levels /\ interrupts \in BOOLEAN
  BY <1>1, <1>2, TopFacts DEF Busy, Service, SettingTimer, Inv, Typed
<1> QED
  BY <1>1, <1>2, <1>3, <1>4, QuietGoto

\* No timer has expired.
LEMMA CheckTimersEndStep ==
  ASSUME Inv, CheckTimersEnd
  PROVE  Inv'
<1>1. /\ Top.at = "expire" /\ stack' = Front(stack) /\ tpl' = tpl /\ interrupts' = interrupts
      /\ UNCHANGED <<notifying, life, registered, timing, now>>
  BY DEF CheckTimersEnd, At, Return
<1>2. Back(Top) = tpl /\ Top.at # "code" /\ Top.at \notin Busy /\ interrupts = TRUE
  BY <1>1, TopFacts DEF Back, Busy, Service, SettingTimer, Runs, Floor, Unmasking, Inv, Typed
<1> QED
  BY <1>1, <1>2, QuietReturn

\* The first timer has expired.
LEMMA CheckTimersExpireStep ==
  ASSUME Inv, CheckTimersExpire
  PROVE  Inv'
<1> DEFINE e == Head(armed)
           f == [Top EXCEPT !.at = "again", !.event = e]
<1>1. /\ Top.at = "expire" /\ armed # <<>> /\ armed' = Tail(armed) /\ Signal(e)
      /\ IF period[e] = 0 THEN stack' = stack ELSE stack' = Callers(f)
      /\ UNCHANGED <<tpl, interrupts, life, registered, trigger, period, now>>
  BY DEF CheckTimersExpire, At, Goto, Expired
<1>2. armed \in Seq(Timers) /\ IsInjective(armed) /\ Ordered(armed, trigger)
  BY DEF Inv, Typed, TimersSound
<1>3. /\ e \in Timers /\ e \in ToSet(armed)
      /\ armed' \in Seq(Timers) /\ IsInjective(armed') /\ Ordered(armed', trigger)
      /\ ToSet(armed') = ToSet(armed) \ {e}
  BY <1>1, <1>2, Taken
<1> HIDE DEF e
<1>4. e \in Events /\ e \in All /\ Signals \subseteq All /\ Events \subseteq All
  BY <1>3, ConstantsAssumption DEF All
<1>5. f \in Frames /\ f.at = "again" /\ f.tpl = Top.tpl /\ f.event = e
  BY <1>4, TopFacts DEF Frames, Labels
<1> HIDE DEF f
<1>6. Continues(f, Top) /\ Runs(f, tpl, interrupts)
  BY <1>1, <1>3, <1>5, TopFacts DEF Continues, FrameOk, Back, Runs, Function, CheckingTimers,
     Dispatching, Service, SettingTimer, Unmasking, Floor
<1>7. Sound(stack', tpl', interrupts')
  <2>1. CASE stack' = stack
    BY <1>1, <2>1 DEF Inv
  <2>2. CASE stack' = Callers(f)
    BY <1>1, <1>5, <1>6, <2>2, TopFacts, SoundGoto DEF Inv, Callers
  <2> QED
    BY <1>1, <2>1, <2>2
<1>8. /\ QueuesSound(queue', pending') /\ count' \in [All -> {0, 1}]
      /\ \A x \in All : x # e => count'[x] = count[x]
      /\ \A x \in All : InQueue(queue, x) => InQueue(queue', x)
      /\ count[e] = 0 /\ IsSignal(e) /\ (~Grouped(e) \/ e \in ToSet(registered))
           => InQueue(queue', e)
  BY <1>1, <1>4, SignalEffect DEF Inv, Typed, Created
<1>9. Typed'
  BY <1>1, <1>3, <1>8 DEF Inv, Typed
<1>10. /\ EventsOf(stack, Holding) = {}
       /\ EventsOf(stack', Holding) = IF period[e] = 0 THEN {} ELSE {e}
       /\ EventsOf(stack', Freeing) = EventsOf(stack, Freeing)
       /\ EventsOf(stack', Signalled) = EventsOf(stack, Signalled)
       /\ EventsOf(stack', Busy) \subseteq EventsOf(stack, Busy) \cup {e}
  <2>1. EventsOf(stack, Holding) = {} /\ EventsOf(Front(stack), Holding) = {}
    BY <1>1, Alone DEF Holders, One, Holding
  <2>2. CASE period[e] = 0
    BY <1>1, <2>1, <2>2
  <2>3. CASE period[e] # 0
    <3>1. stack' = Callers(f)
      BY <1>1, <2>3
    <3>2. \A L : /\ EventsOf(stack, L) = EventsOf(Front(stack), L) \cup One(Top, L)
                 /\ EventsOf(Callers(f), L) = EventsOf(Front(stack), L) \cup One(f, L)
      BY <1>5, EventsAfter
    <3>3. One(f, Holding) = {e} /\ One(f, Freeing) = {} /\ One(f, Signalled) = {}
      BY <1>5 DEF One, Holding, Freeing, Signalled
    <3>4. One(f, Busy) \subseteq {e} /\ One(Top, Freeing) = {} /\ One(Top, Signalled) = {}
      BY <1>1, <1>5 DEF One, Freeing, Signalled
    <3> QED
      BY <2>1, <2>3, <3>1, <3>2, <3>3, <3>4
  <2> QED
    BY <2>2, <2>3
<1>11. TimersSound'
  BY <1>1, <1>3, <1>10 DEF Inv, TimersSound
<1>12. \A x \in Events : life[x] = "none" => count'[x] = 0 /\ x \notin ToSet(armed')
                                             /\ x \notin EventsOf(stack', Busy)
  <2>1. life[e] # "none"
    BY <1>3, <1>4 DEF Inv, Created
  <2> QED
    BY <1>3, <1>4, <1>8, <1>10, <2>1 DEF Inv, Created
<1>13. ASSUME NEW x \in Signals \cup {CheckTimer}, count'[x] # 0, x \in Events => life[x] = "open"
       PROVE  \/ InQueue(queue', x) \/ x \in EventsOf(stack', Signalled)
              \/ /\ count[x] # 0
                 /\ InQueue(queue, x) => InQueue(queue', x)
                 /\ x \in EventsOf(stack, Signalled) => x \in EventsOf(stack', Signalled)
  <2>1. x \in All
    BY <1>4 DEF All
  <2>2. CASE x # e \/ count[e] # 0
    BY <1>8, <1>10, <1>13, <2>1, <2>2
  <2>3. CASE x = e /\ count[e] = 0
    <3>1. e \in Signals /\ IsSignal(e)
      BY <1>4, <2>3, ConstantsAssumption DEF IsSignal
    <3>2. e \in ToSet(registered) \/ e \in EventsOf(stack, Freeing)
      BY <1>4, <1>13, <2>3, <3>1 DEF Inv, Created
    <3>3. e \in EventsOf(stack, Freeing) => e \in EventsOf(stack, Signalled)
      BY DEF EventsOf, Freeing, Signalled
    <3> QED
      BY <1>8, <1>10, <2>3, <3>1, <3>2, <3>3
  <2> QED
    BY <2>2, <2>3
<1> QED
  BY <1>1, <1>7, <1>8, <1>9, <1>10, <1>11, <1>12, <1>13, Kept

\* A periodic timer is armed again.
LEMMA CheckTimersAgainStep ==
  ASSUME Inv, CheckTimersAgain
  PROVE  Inv'
<1> DEFINE e == Top.event
           time == NextTrigger(e, Top.time)
           f == [Top EXCEPT !.at = "expire", !.event = CheckTimer]
<1>1. /\ Top.at = "again" /\ stack' = Callers(f)
      /\ trigger' = [trigger EXCEPT ![e] = time] /\ armed' = Insert(e, time)
      /\ Signal(CheckTimer) \/ UNCHANGED notifying
      /\ UNCHANGED <<tpl, interrupts, life, registered, period, now>>
  BY DEF CheckTimersAgain, At, Goto, Again
<1>2. /\ e \in Timers /\ e \in Events /\ Timers \subseteq Events
      /\ CheckTimer \in All /\ CheckTimer \notin Events /\ Signals \subseteq Events
      /\ Events \subseteq All
  BY <1>1, TopFacts, ConstantsAssumption DEF FrameOk, All
<1>3. time \in Nat
  BY <1>2, TopFacts DEF NextTrigger, Inv, Typed
<1>4. f \in Frames /\ f.at = "expire" /\ f.tpl = Top.tpl /\ f.event = CheckTimer
  BY <1>2, TopFacts DEF Frames, Labels
<1> HIDE DEF f, time
<1>5. Continues(f, Top) /\ Runs(f, tpl, interrupts)
  BY <1>1, <1>4, TopFacts DEF Continues, FrameOk, Back, Runs, Function, CheckingTimers,
     Dispatching, Service, SettingTimer, Unmasking, Floor
<1>6. Sound(stack', tpl', interrupts')
  BY <1>1, <1>4, <1>5, TopFacts, SoundGoto DEF Inv, Callers
<1>7. /\ QueuesSound(queue', pending') /\ count' \in [All -> {0, 1}]
      /\ \A x \in All : x # CheckTimer => count'[x] = count[x]
      /\ \A x \in All : InQueue(queue, x) => InQueue(queue', x)
      /\ \/ InQueue(queue', CheckTimer)
         \/ count'[CheckTimer] = count[CheckTimer] \/ count[CheckTimer] # 0
  <2>1. CASE Signal(CheckTimer)
    <3>1. IsSignal(CheckTimer) /\ ~Grouped(CheckTimer)
      BY <1>2 DEF IsSignal, Grouped
    <3> QED
      BY <1>2, <2>1, <3>1, SignalEffect DEF Inv, Typed, Created
  <2>2. CASE UNCHANGED notifying
    BY <2>2 DEF Inv, Typed, notifying
  <2> QED
    BY <1>1, <2>1, <2>2
<1>8. /\ EventsOf(stack, Holding) = {e} /\ EventsOf(stack', Holding) = {}
      /\ EventsOf(stack', Freeing) = EventsOf(stack, Freeing)
      /\ EventsOf(stack', Signalled) = EventsOf(stack, Signalled)
      /\ EventsOf(stack', Busy) \subseteq EventsOf(stack, Busy)
  <2>1. EventsOf(Front(stack), Holding) = {}
    BY <1>1, Alone DEF Holders
  <2>2. \A L : /\ EventsOf(stack, L) = EventsOf(Front(stack), L) \cup One(Top, L)
               /\ EventsOf(Callers(f), L) = EventsOf(Front(stack), L) \cup One(f, L)
    BY <1>4, EventsAfter
  <2>3. /\ One(f, Holding) = {} /\ One(f, Freeing) = {} /\ One(f, Signalled) = {}
        /\ One(f, Busy) = {}
    BY <1>4 DEF One, Holding, Freeing, Signalled, Busy, Service, SettingTimer
  <2>4. One(Top, Holding) = {e} /\ One(Top, Freeing) = {} /\ One(Top, Signalled) = {}
    BY <1>1 DEF One, Holding, Freeing, Signalled
  <2> QED
    BY <1>1, <2>1, <2>2, <2>3, <2>4
<1> HIDE DEF e
<1>9. /\ armed' \in Seq(Timers) /\ ToSet(armed') = ToSet(armed) \cup {e}
      /\ IsInjective(armed') /\ Ordered(armed', trigger')
  <2>1. \A x \in Timers : trigger[x] \in Int /\ (x # e => trigger'[x] = trigger[x])
    BY <1>1, <1>2, <1>3 DEF Inv, Typed
  <2>2. trigger'[e] = time /\ time \in Int
    BY <1>1, <1>2, <1>3 DEF Inv, Typed
  <2>3. /\ armed \in Seq(Timers) /\ IsInjective(armed) /\ e \notin ToSet(armed)
        /\ Ordered(armed, trigger)
    BY <1>8 DEF Inv, Typed, TimersSound
  <2>4. armed' = Insert(e, time)
    BY <1>1
  <2>5. \A x \in Timers : trigger[x] \in Int
    BY <2>1
  <2>6. \A x \in Timers : x # e => trigger'[x] = trigger[x]
    BY <2>1
  <2> QED
    BY <1>2, <2>2, <2>3, <2>4, <2>5, <2>6, Inserted
<1>10. Typed'
  BY <1>1, <1>2, <1>3, <1>7, <1>9 DEF Inv, Typed
<1>11. TimersSound'
  BY <1>1, <1>8, <1>9 DEF Inv, TimersSound
<1>12. \A x \in Events : life[x] = "none" => count'[x] = 0 /\ x \notin ToSet(armed')
                                             /\ x \notin EventsOf(stack', Busy)
  <2>1. e \in EventsOf(stack, Busy)
    BY <1>8 DEF EventsOf, Busy, Holding, Service, SettingTimer
  <2>2. life[e] # "none"
    BY <1>2, <2>1 DEF Inv, Created
  <2> QED
    BY <1>2, <1>7, <1>8, <1>9, <2>2 DEF Inv, Created
<1>13. \A x \in Signals \cup {CheckTimer} : x \in All
  BY <1>2
<1> QED
  BY <1>1, <1>6, <1>7, <1>8, <1>10, <1>11, <1>12, <1>13, Kept

\* CoreSetTimer takes the timer from the list.
LEMMA SetTimerRemoveStep ==
  ASSUME Inv, SetTimerRemove
  PROVE  Inv'
<1> DEFINE e == Top.event
           delay == IF Top.at = "periodic" /\ Top.time = 0 THEN 1 ELSE Top.time
           g == [Top EXCEPT !.at = "time", !.time = delay]
           f == IF Top.at = "cancel" THEN Restore(Top.tpl) ELSE g
           p == IF Top.at = "periodic" THEN delay ELSE 0
<1>1. /\ Top.at \in {"cancel", "relative", "periodic"} /\ stack' = Callers(f)
      /\ armed' = Without(armed, {e})
      /\ trigger' = [trigger EXCEPT ![e] = 0] /\ period' = [period EXCEPT ![e] = p]
      /\ UNCHANGED <<tpl, interrupts, notifying, life, registered, now>>
  BY DEF SetTimerRemove, Goto
<1>2. /\ e \in Timers /\ e \in Events /\ Timers \subseteq Events /\ Top.tpl <= Notify
      /\ tpl = TimerLevel /\ interrupts
  BY <1>1, TopFacts, ConstantsAssumption DEF FrameOk, Runs, Floor, Service, SettingTimer, Unmasking
<1>3. delay \in Nat /\ p \in Nat
  BY TopFacts
<1>4. /\ g \in Frames /\ g.at = "time" /\ g.tpl = Top.tpl /\ g.event = e
  BY <1>3, TopFacts DEF Frames, Labels
<1>5. /\ Restore(Top.tpl) \in Frames /\ FrameOk(Restore(Top.tpl))
      /\ Back(Restore(Top.tpl)) = Top.tpl
      /\ Restore(Top.tpl).at = "restore" /\ Restore(Top.tpl).tpl = Top.tpl
  BY TopFacts, RestoreFrame
<1>6. /\ f \in Frames /\ f.tpl = Top.tpl
      /\ f.at = (IF Top.at = "cancel" THEN "restore" ELSE "time")
      /\ Top.at # "cancel" => f.event = e
  BY <1>4, <1>5
<1>7. FrameOk(f)
  <2>1. CASE Top.at = "cancel"
    BY <1>5, <2>1
  <2>2. CASE Top.at # "cancel"
    BY <1>2, <1>6, <2>2 DEF FrameOk, CheckingTimers, Service, SettingTimer
  <2> QED
    BY <2>1, <2>2
<1> HIDE DEF f, g, delay, p
<1>8. Continues(f, Top)
  BY <1>1, <1>6, <1>7 DEF Continues, Back, Function, CheckingTimers, Dispatching
<1>9. Runs(f, tpl, interrupts)
  BY <1>2, <1>6, TopFacts DEF Runs, Unmasking, Floor, SettingTimer, TimerLevel, Notify
<1>10. Sound(stack', tpl', interrupts')
  BY <1>1, <1>6, <1>8, <1>9, TopFacts, SoundGoto DEF Inv, Callers
<1>11. /\ EventsOf(stack, Holding) = {}
       /\ EventsOf(stack', Holding) = IF Top.at = "cancel" THEN {} ELSE {e}
       /\ EventsOf(stack', Freeing) = EventsOf(stack, Freeing)
       /\ EventsOf(stack', Signalled) = EventsOf(stack, Signalled)
       /\ EventsOf(stack', Busy) \subseteq EventsOf(stack, Busy)
  <2>1. EventsOf(Front(stack), Holding) = {} /\ EventsOf(stack, Holding) = {}
    BY <1>1, Alone DEF Holders, SettingTimer, One, Holding
  <2>2. \A L : /\ EventsOf(stack, L) = EventsOf(Front(stack), L) \cup One(Top, L)
               /\ EventsOf(Callers(f), L) = EventsOf(Front(stack), L) \cup One(f, L)
    BY <1>6, EventsAfter
  <2>3. One(f, Holding) = IF Top.at = "cancel" THEN {} ELSE {e}
    BY <1>6 DEF One, Holding
  <2>4. One(f, Freeing) = {} /\ One(f, Signalled) = {} /\ One(f, Busy) \subseteq One(Top, Busy)
    BY <1>1, <1>6 DEF One, Freeing, Signalled, Busy, Service, SettingTimer
  <2>5. One(Top, Freeing) = {} /\ One(Top, Signalled) = {}
    BY <1>1 DEF One, Freeing, Signalled
  <2> QED
    BY <1>1, <2>1, <2>2, <2>3, <2>4, <2>5
<1> HIDE DEF e
<1>12. /\ armed' \in Seq(Timers) /\ ToSet(armed') = ToSet(armed) \ {e}
       /\ IsInjective(armed') /\ Ordered(armed', trigger)
  BY <1>1, WithoutThem DEF Inv, Typed, TimersSound
<1>13. Ordered(armed', trigger')
  <2>1. \A x \in ToSet(armed') : x \in Timers
    BY <1>12, EmptyList
  <2>2. \A x \in ToSet(armed') : trigger'[x] = trigger[x]
    BY <1>1, <1>2, <1>12, <2>1 DEF Inv, Typed
  <2> QED
    BY <1>12, <2>2, SameOrder
<1>14. Typed' /\ QueuesSound(queue', pending')
  BY <1>1, <1>2, <1>3, <1>12 DEF Inv, Typed, notifying
<1>15. TimersSound'
  <2>1. \A x \in Timers : period'[x] # 0 => x \in ToSet(armed') \cup EventsOf(stack', Holding)
    <3> SUFFICES ASSUME NEW x \in Timers, period'[x] # 0
                 PROVE  x \in ToSet(armed') \cup EventsOf(stack', Holding)
      OBVIOUS
    <3>1. CASE x = e
      <4>1. Top.at = "periodic"
        BY <1>1, <1>2, <3>1 DEF p, Inv, Typed
      <4> QED
        BY <1>11, <3>1, <4>1
    <3>2. CASE x # e
      <4>1. period[x] # 0
        BY <1>1, <1>2, <3>2 DEF Inv, Typed
      <4> QED
        BY <1>11, <1>12, <3>2, <4>1 DEF Inv, TimersSound
    <3> QED
      BY <3>1, <3>2
  <2> QED
    BY <1>11, <1>12, <1>13, <2>1 DEF TimersSound
<1>16. \A x \in Events : life[x] = "none" => count'[x] = 0 /\ x \notin ToSet(armed')
                                             /\ x \notin EventsOf(stack', Busy)
  BY <1>1, <1>11, <1>12 DEF Inv, Created, notifying
<1> QED
  BY <1>1, <1>10, <1>11, <1>14, <1>15, <1>16, Kept DEF notifying

\* CoreSetTimer computes the trigger time.
LEMMA SetTimerTimeStep ==
  ASSUME Inv, SetTimerTime
  PROVE  Inv'
<1> DEFINE e == Top.event
           f == [Top EXCEPT !.at = "insert"]
<1>1. /\ Top.at = "time" /\ stack' = Callers(f) /\ trigger' = [trigger EXCEPT ![e] = now + Top.time]
      /\ UNCHANGED <<tpl, interrupts, notifying, life, registered, armed, period, now>>
  BY DEF SetTimerTime, At, Goto
<1>2. e \in Timers /\ e \in Events /\ Timers \subseteq Events /\ now + Top.time \in Nat
  BY <1>1, TopFacts, ConstantsAssumption DEF FrameOk, SettingTimer, Inv, Typed
<1>3. f \in Frames /\ f.at = "insert" /\ f.tpl = Top.tpl /\ f.event = e
  BY TopFacts DEF Frames, Labels
<1> HIDE DEF f
<1>4. Continues(f, Top) /\ Runs(f, tpl, interrupts)
  BY <1>1, <1>2, <1>3, TopFacts DEF Continues, FrameOk, Back, Runs, Function, CheckingTimers,
     Dispatching, Service, SettingTimer, Unmasking, Floor
<1>5. Sound(stack', tpl', interrupts')
  BY <1>1, <1>3, <1>4, TopFacts, SoundGoto DEF Inv, Callers
<1>6. /\ EventsOf(stack, Holding) = {e}
      /\ \A L \in {Holding, Freeing, Signalled, Busy} : EventsOf(stack', L) = EventsOf(stack, L)
  <2>1. EventsOf(Front(stack), Holding) = {} /\ One(Top, Holding) = {e}
    BY <1>1, Alone DEF Holders, SettingTimer, One, Holding
  <2>2. \A L : /\ EventsOf(stack, L) = EventsOf(Front(stack), L) \cup One(Top, L)
               /\ EventsOf(Callers(f), L) = EventsOf(Front(stack), L) \cup One(f, L)
    BY <1>3, EventsAfter
  <2>3. \A L \in {Holding, Freeing, Signalled, Busy} : One(f, L) = One(Top, L)
    BY <1>1, <1>3 DEF One, Holding, Freeing, Signalled, Busy, Service, SettingTimer
  <2> QED
    BY <1>1, <2>1, <2>2, <2>3
<1> HIDE DEF e
<1>7. Typed' /\ QueuesSound(queue', pending')
  BY <1>1, <1>2 DEF Inv, Typed, notifying
<1>8. TimersSound'
  <2>1. \A x \in ToSet(armed) : x \in Timers /\ x # e
    BY <1>6, EmptyList DEF Inv, Typed, TimersSound
  <2>2. \A x \in ToSet(armed) : trigger'[x] = trigger[x]
    BY <1>1, <1>2, <2>1 DEF Inv, Typed
  <2>3. Ordered(armed, trigger')
    BY <2>2, SameOrder DEF Inv, TimersSound
  <2> QED
    BY <1>1, <1>6, <2>3 DEF Inv, TimersSound
<1>9. \A x \in Events : life[x] = "none" => count'[x] = 0 /\ x \notin ToSet(armed')
                                            /\ x \notin EventsOf(stack', Busy)
  BY <1>1, <1>6 DEF Inv, Created, notifying
<1> QED
  BY <1>1, <1>5, <1>6, <1>7, <1>8, <1>9, Kept DEF notifying

\* CoreSetTimer inserts the timer.
LEMMA SetTimerInsertStep ==
  ASSUME Inv, SetTimerInsert
  PROVE  Inv'
<1> DEFINE e == Top.event
           f == Restore(Top.tpl)
<1>1. /\ Top.at = "insert" /\ stack' = Callers(f) /\ armed' = Insert(e, trigger[e])
      /\ Signal(CheckTimer) \/ UNCHANGED notifying
      /\ UNCHANGED <<tpl, interrupts, life, registered, trigger, period, now>>
  BY DEF SetTimerInsert, At, Goto
<1>2. /\ e \in Timers /\ e \in Events /\ Timers \subseteq Events
      /\ CheckTimer \in All /\ CheckTimer \notin Events /\ Signals \subseteq Events
      /\ Events \subseteq All /\ Top.tpl <= Notify /\ tpl = TimerLevel /\ interrupts
  BY <1>1, TopFacts, ConstantsAssumption
     DEF FrameOk, All, Service, SettingTimer, Runs, Floor, Unmasking
<1>3. /\ f \in Frames /\ FrameOk(f) /\ Back(f) = Top.tpl /\ f.at = "restore" /\ f.tpl = Top.tpl
  BY TopFacts, RestoreFrame
<1> HIDE DEF f
<1>4. Continues(f, Top)
  BY <1>1, <1>3 DEF Continues, Back, Function, CheckingTimers, Dispatching
<1>5. Runs(f, tpl, interrupts)
  BY <1>2, <1>3, TopFacts DEF Runs, Unmasking, TimerLevel, Notify
<1>6. Sound(stack', tpl', interrupts')
  BY <1>1, <1>3, <1>4, <1>5, TopFacts, SoundGoto DEF Inv, Callers
<1>7. /\ QueuesSound(queue', pending') /\ count' \in [All -> {0, 1}]
      /\ \A x \in All : x # CheckTimer => count'[x] = count[x]
      /\ \A x \in All : InQueue(queue, x) => InQueue(queue', x)
      /\ \/ InQueue(queue', CheckTimer)
         \/ count'[CheckTimer] = count[CheckTimer] \/ count[CheckTimer] # 0
  <2>1. CASE Signal(CheckTimer)
    <3>1. IsSignal(CheckTimer) /\ ~Grouped(CheckTimer)
      BY <1>2 DEF IsSignal, Grouped
    <3> QED
      BY <1>2, <2>1, <3>1, SignalEffect DEF Inv, Typed, Created
  <2>2. CASE UNCHANGED notifying
    BY <2>2 DEF Inv, Typed, notifying
  <2> QED
    BY <1>1, <2>1, <2>2
<1>8. /\ EventsOf(stack, Holding) = {e} /\ EventsOf(stack', Holding) = {}
      /\ EventsOf(stack', Freeing) = EventsOf(stack, Freeing)
      /\ EventsOf(stack', Signalled) = EventsOf(stack, Signalled)
      /\ EventsOf(stack', Busy) \subseteq EventsOf(stack, Busy)
  <2>1. EventsOf(Front(stack), Holding) = {}
    BY <1>1, Alone DEF Holders, SettingTimer
  <2>2. \A L : /\ EventsOf(stack, L) = EventsOf(Front(stack), L) \cup One(Top, L)
               /\ EventsOf(Callers(f), L) = EventsOf(Front(stack), L) \cup One(f, L)
    BY <1>3, EventsAfter
  <2>3. /\ One(f, Holding) = {} /\ One(f, Freeing) = {} /\ One(f, Signalled) = {}
        /\ One(f, Busy) = {}
    BY <1>3 DEF One, Holding, Freeing, Signalled, Busy, Service, SettingTimer
  <2>4. One(Top, Holding) = {e} /\ One(Top, Freeing) = {} /\ One(Top, Signalled) = {}
    BY <1>1 DEF One, Holding, Freeing, Signalled
  <2> QED
    BY <1>1, <2>1, <2>2, <2>3, <2>4
<1> HIDE DEF e
<1>9. /\ armed' \in Seq(Timers) /\ ToSet(armed') = ToSet(armed) \cup {e}
      /\ IsInjective(armed') /\ Ordered(armed', trigger)
  <2>1. \A x \in Timers : trigger[x] \in Int
    BY <1>2 DEF Inv, Typed
  <2>2. /\ armed \in Seq(Timers) /\ IsInjective(armed) /\ e \notin ToSet(armed)
        /\ Ordered(armed, trigger)
    BY <1>8 DEF Inv, Typed, TimersSound
  <2> QED
    BY <1>1, <1>2, <2>1, <2>2, Inserted
<1>10. Typed'
  BY <1>1, <1>7, <1>9 DEF Inv, Typed
<1>11. TimersSound'
  BY <1>1, <1>8, <1>9 DEF Inv, TimersSound
<1>12. \A x \in Events : life[x] = "none" => count'[x] = 0 /\ x \notin ToSet(armed')
                                             /\ x \notin EventsOf(stack', Busy)
  <2>1. e \in EventsOf(stack, Busy)
    BY <1>8 DEF EventsOf, Busy, Holding, Service, SettingTimer
  <2>2. life[e] # "none"
    BY <1>2, <2>1 DEF Inv, Created
  <2> QED
    BY <1>2, <1>7, <1>8, <1>9, <2>2 DEF Inv, Created
<1>13. \A x \in Signals \cup {CheckTimer} : x \in All
  BY <1>2
<1> QED
  BY <1>1, <1>6, <1>7, <1>8, <1>10, <1>11, <1>12, <1>13, Kept

-----------------------------------------------------------------------------
(******************************* The services ******************************)

\* The code that calls a service.
LEMMA Caller ==
  ASSUME Inv, Top.at = "code"
  PROVE  /\ tpl = Top.tpl /\ Floor(Top) = tpl /\ tpl <= Notify /\ interrupts = TRUE
         /\ Top.at \notin Unmasking /\ Top.at \notin Busy /\ Back(Top) = OwnLevel(Top)
         /\ OwnLevel(Top) <= tpl /\ OwnLevel(Top) \in Levels /\ OwnLevel(Top) \in Int
<1>1. /\ tpl = Top.tpl /\ Floor(Top) = tpl /\ tpl <= Notify /\ interrupts = TRUE
      /\ Top.at \notin Unmasking /\ Top.at \notin Busy /\ Back(Top) = OwnLevel(Top)
      /\ OwnLevel(Top) <= tpl
  BY TopFacts DEF FrameOk, Runs, Floor, Back, Unmasking, Busy, Service, SettingTimer, Inv, Typed
<1>2. Back(Top) \in Levels /\ Back(Top) \in Int
  BY TopFacts, FrameLevels
<1> QED
  BY <1>1, <1>2

\* A service that takes a lock and leaves it to what is restored.
LEMMA LockedCall ==
  ASSUME Inv, Top.at = "code"
  PROVE  /\ Sound(Append(Callers(Top), Restore(tpl)), High, FALSE)
         /\ \A L : L \subseteq Busy =>
              EventsOf(Append(Callers(Top), Restore(tpl)), L) = EventsOf(stack, L)
<1>1. /\ Top \in Frames /\ tpl \in Levels
      /\ Restore(tpl) \in Frames /\ FrameOk(Restore(tpl)) /\ Runs(Restore(tpl), High, FALSE)
      /\ High \in Levels /\ Restore(tpl).at \notin Busy
  BY TopFacts, RestoreFrame, RestoreIdle
<1>2. On(Top, Restore(tpl))
  BY <1>1, Caller, RestoreOn
<1>3. Sound(Append(Append(Front(stack), Top), Restore(tpl)), High, FALSE)
  BY <1>1, <1>2, ContinuesSame, TopFacts, SoundCall DEF Inv
<1> QED
  BY <1>1, <1>3, SameEvents DEF Callers

\* A service's frame over the code that calls it.
LEMMA ServiceFrame ==
  ASSUME Inv, Top.at = "code", NEW label \in Service, NEW e \in Events, NEW time \in Nat,
         label \in SettingTimer => e \in Timers, label = "group" => Grouped(e),
         NEW f, f = Frame(label, tpl, e, time)
  PROVE  /\ f \in Frames /\ FrameOk(f) /\ On(Top, f) /\ Back(f) = tpl
         /\ f.at = label /\ f.event = e /\ f.tpl = tpl
         /\ label \in SettingTimer => Runs(f, TimerLevel, TRUE)
         /\ label \notin SettingTimer => Runs(f, tpl, TRUE) /\ Floor(f) = tpl
         /\ label \notin Unmasking
<1>1. f = [at |-> label, tpl |-> tpl, event |-> e, time |-> time]
  BY DEF Frame
<1>2. /\ label \in Labels /\ label \notin Unmasking /\ label \notin Function
      /\ label \notin Dispatching /\ label \notin CheckingTimers
      /\ label # "code" /\ label # "notify" /\ label # "again"
  BY DEF Service, SettingTimer, Labels, Unmasking, Function, CheckingTimers, Dispatching
<1>3. f \in Frames
  BY <1>1, <1>2, TopFacts DEF Frames, All
<1>4. f.at = label /\ f.event = e /\ f.tpl = tpl
  BY <1>1
<1>5. FrameOk(f)
  BY <1>2, <1>4, Caller DEF FrameOk
<1>6. Back(f) = tpl /\ On(Top, f)
  BY <1>2, <1>4, Caller DEF Back, On
<1>7. /\ label \in SettingTimer => Runs(f, TimerLevel, TRUE)
      /\ label \notin SettingTimer => Runs(f, tpl, TRUE) /\ Floor(f) = tpl
  BY <1>2, <1>4 DEF Runs, Floor
<1> QED
  BY <1>2, <1>3, <1>4, <1>5, <1>6, <1>7

\* CreateEvent.
LEMMA CreateEventStep ==
  ASSUME Inv, NEW e \in Events, CreateEvent(e)
  PROVE  Inv'
<1>1. /\ Top.at = "code" /\ life[e] = "none" /\ life' = [life EXCEPT ![e] = "open"]
      /\ registered' = IF e \in Signals THEN <<e>> \o registered ELSE registered
      /\ stack' = Append(Callers(Top), Restore(tpl)) /\ tpl' = High /\ interrupts' = FALSE
      /\ UNCHANGED <<notifying, timing, now>>
  BY DEF CreateEvent, Calling, At, Call, Locked
<1>2. /\ Sound(stack', tpl', interrupts')
      /\ \A L : L \subseteq Busy => EventsOf(stack', L) = EventsOf(stack, L)
  BY <1>1, LockedCall
<1>3. /\ e \notin ToSet(registered) /\ registered \in Seq(Signals) /\ IsInjective(registered)
      /\ life \in [Events -> {"none", "open", "closed"}]
  BY <1>1 DEF Inv, Created, Typed
<1>4. /\ registered' \in Seq(Signals) /\ IsInjective(registered')
      /\ ToSet(registered') = ToSet(registered) \cup (IF e \in Signals THEN {e} ELSE {})
  <2>1. CASE e \in Signals
    <3> DEFINE s == <<e>>
    <3>1. s \in Seq(Signals) /\ ToSet(s) = {e} /\ IsInjective(s)
      BY <2>1, OneElement
    <3>2. ToSet(s) \cap ToSet(registered) = {} /\ registered' = s \o registered
      BY <1>1, <1>3, <2>1, <3>1
    <3> HIDE DEF s
    <3>3. /\ s \o registered \in Seq(Signals) /\ IsInjective(s \o registered)
          /\ ToSet(s \o registered) = ToSet(s) \cup ToSet(registered)
      BY <1>3, <3>1, <3>2, Joined
    <3> QED
      BY <2>1, <3>1, <3>2, <3>3
  <2>2. CASE e \notin Signals
    BY <1>1, <1>3, <2>2
  <2> QED
    BY <2>1, <2>2
<1>5. Typed' /\ QueuesSound(queue', pending')
  BY <1>1, <1>3, <1>4 DEF Inv, Typed, notifying, timing
<1>6. life'[e] = "open" /\ \A x \in Events : x # e => life'[x] = life[x]
  BY <1>1, <1>3
<1>7. Delivered'
  <2>1. count[e] = 0
    BY <1>1 DEF Inv, Created
  <2> QED
    BY <1>1, <1>2, <1>6, <2>1, Labelled DEF Inv, Delivered, notifying
<1>8. Created'
  <2>1. \A x \in ToSet(registered) : x \in Events
    BY <1>3, EmptyList, ConstantsAssumption
  <2> QED
    BY <1>1, <1>2, <1>3, <1>4, <1>6, <2>1, Labelled, ConstantsAssumption
       DEF Inv, Created, notifying, timing
<1>9. TimersSound'
  BY <1>1, <1>2, Labelled, TimersKept
<1> QED
  BY <1>2, <1>5, <1>7, <1>8, <1>9 DEF Inv

\* The call of CoreSetTimer.
LEMMA CallSetTimerStep ==
  ASSUME Inv, NEW e \in Events, CallSetTimer(e)
  PROVE  Inv'
<1>1. PICK call \in {"cancel", "relative", "periodic"}, delay \in Nat :
        /\ Top.at = "code" /\ life[e] = "open" /\ e \in Timers
        /\ stack' = Append(Callers(Top), Frame(call, tpl, e, delay))
        /\ tpl' = TimerLevel
        /\ UNCHANGED <<interrupts, notifying, life, registered, timing, now>>
  BY ConstantsAssumption DEF CallSetTimer, Calling, At, Call
<1> DEFINE f == Frame(call, tpl, e, delay)
<1>2. call \in Service /\ call \in SettingTimer /\ call # "group"
  BY DEF Service, SettingTimer
<1>8. f = Frame(call, tpl, e, delay) /\ stack' = Append(Callers(Top), f)
  BY <1>1
<1> HIDE DEF f
<1>3. /\ f \in Frames /\ FrameOk(f) /\ On(Top, f) /\ f.at = call /\ f.event = e
      /\ Runs(f, TimerLevel, TRUE)
  <2>1. Top.at = "code" /\ e \in Timers /\ delay \in Nat /\ call \in Service /\ e \in Events
    BY <1>1, <1>2
  <2>2. f \in Frames
    BY <1>2, <1>8, <2>1, ServiceFrame
  <2>3. FrameOk(f)
    BY <1>2, <1>8, <2>1, ServiceFrame
  <2>4. On(Top, f)
    BY <1>2, <1>8, <2>1, ServiceFrame
  <2>5. f.at = call /\ f.event = e
    BY <1>8 DEF Frame
  <2>6. Runs(f, TimerLevel, TRUE)
    BY <1>2, <1>8, <2>1, ServiceFrame
  <2> QED
    BY <2>2, <2>3, <2>4, <2>5, <2>6
<1>4. TimerLevel \in Levels /\ interrupts = TRUE
  BY <1>1, Caller DEF Levels
<1>5. Sound(stack', tpl', interrupts')
  <2>1. Sound(Append(Append(Front(stack), Top), f), TimerLevel, TRUE)
    BY <1>3, <1>4, ContinuesSame, TopFacts, SoundCall DEF Inv
  <2> QED
    BY <1>1, <1>4, <1>8, <2>1 DEF Callers
<1>6. \A L : EventsOf(stack', L) = EventsOf(stack, L) \cup One(f, L)
  <2>1. \A L : /\ EventsOf(stack, L) = EventsOf(Front(stack), L) \cup One(Top, L)
               /\ EventsOf(Append(Callers(Top), f), L)
                    = EventsOf(Front(stack), L) \cup One(Top, L) \cup One(f, L)
    BY <1>3, TopFacts, EventsAfter
  <2> QED
    BY <1>8, <2>1
<1>7. One(f, Freeing) = {} /\ One(f, Signalled) = {} /\ One(f, Holding) = {} /\ One(f, Busy) = {e}
  BY <1>2, <1>3 DEF One, Freeing, Signalled, Holding, Busy
<1> QED
  BY <1>1, <1>4, <1>5, <1>6, <1>7, Quiet

\* RaiseTPL.
LEMMA RaiseTplStep ==
  ASSUME Inv, RaiseTpl
  PROVE  Inv'
<1>1. PICK level \in {Callback, Notify} :
        /\ Top.at = "code" /\ tpl < level /\ tpl' = level
        /\ stack' = Callers([Top EXCEPT !.tpl = level])
        /\ UNCHANGED <<interrupts, notifying, life, registered, timing, now>>
  BY DEF RaiseTpl, At, Goto
<1> DEFINE f == [Top EXCEPT !.tpl = level]
<1>2. level \in Levels /\ level \in Int /\ level <= Notify
  BY DEF Levels, Callback, Notify
<1>3. f \in Frames /\ f.at = "code" /\ f.tpl = level /\ f.event = Top.event
  BY <1>1, <1>2, TopFacts DEF Frames
<1> HIDE DEF f
<1>4. OwnLevel(f) = OwnLevel(Top) /\ OwnLevel(f) <= level
  <2>1. OwnLevel(f) = OwnLevel(Top)
    BY <1>3 DEF OwnLevel
  <2> QED
    BY <1>1, <1>2, <2>1, Caller, TopFacts
<1>5. Continues(f, Top) /\ Runs(f, level, TRUE)
  BY <1>1, <1>2, <1>3, <1>4, TopFacts DEF Continues, FrameOk, Back, Runs, Floor, Function,
     CheckingTimers, Dispatching, Service, SettingTimer, Unmasking
<1>6. interrupts = TRUE
  BY <1>1, Caller
<1> QED
  BY <1>1, <1>2, <1>3, <1>5, <1>6, QuietGoto DEF f

\* The call of RestoreTPL.
LEMMA CallRestoreTplStep ==
  ASSUME Inv, CallRestoreTpl
  PROVE  Inv'
<1> DEFINE l == OwnLevel(Top)
           f == [Top EXCEPT !.tpl = l]
<1>1. /\ Top.at = "code" /\ stack' = Append(Callers(f), Restore(l))
      /\ UNCHANGED <<tpl, interrupts, notifying, life, registered, timing, now>>
  BY DEF CallRestoreTpl, At, Call
<1>2. /\ l \in Levels /\ l \in Int /\ l <= tpl /\ tpl <= Notify /\ interrupts = TRUE
      /\ tpl \in Levels /\ tpl \in Int /\ Top.at \notin Busy
  BY <1>1, Caller, TopFacts
<1>3. f \in Frames /\ f.at = "code" /\ f.tpl = l /\ f.event = Top.event
  BY <1>1, <1>2, TopFacts DEF Frames
<1>4. OwnLevel(f) = l
  BY <1>3 DEF OwnLevel
<1> HIDE DEF f, l
<1>5. l <= Notify
  BY <1>2 DEF Notify
<1>6. Back(Top) = l
  BY <1>1, Caller DEF l
<1>7. Continues(f, Top)
  BY <1>1, <1>2, <1>3, <1>4, <1>5, <1>6, TopFacts DEF Continues, FrameOk, Back, Function,
     CheckingTimers, Dispatching, Service, SettingTimer
<1>8. /\ Restore(l) \in Frames /\ FrameOk(Restore(l)) /\ Restore(l).at = "restore"
      /\ Restore(l).tpl = l /\ Restore(l).at \notin Busy
  BY <1>2, RestoreFrame, RestoreIdle
<1>9. On(f, Restore(l))
  BY <1>2, <1>3, RestoreOn DEF Unmasking, Floor, SettingTimer
<1>10. Runs(Restore(l), tpl, TRUE)
  BY <1>2, <1>8 DEF Runs, Unmasking
<1> QED
  BY <1>1, <1>2, <1>3, <1>7, <1>8, <1>9, <1>10, QuietCall

\* A notification function returns.
LEMMA NotifyReturnsStep ==
  ASSUME Inv, NotifyReturns
  PROVE  Inv'
<1>1. /\ Top.at = "code" /\ Top.event # Base /\ Top.tpl = OwnLevel(Top) /\ stack' = Front(stack)
      /\ UNCHANGED <<tpl, interrupts, notifying, life, registered, timing, now>>
  BY DEF NotifyReturns, At, Return
<1> QED
  BY <1>1, Caller, QuietReturn

\* The call of CoreCloseEvent.
LEMMA CloseEventStep ==
  ASSUME Inv, NEW e \in Events, CloseEvent(e)
  PROVE  Inv'
<1> DEFINE f == Frame("close", tpl, e, 0)
           h == Frame("cancel", tpl, e, 0)
<1>1. /\ Top.at = "code" /\ life[e] = "open"
      /\ UNCHANGED <<interrupts, notifying, life, registered, timing, now>>
      /\ IF e \in Timers THEN stack' = stack \o <<f, h>> /\ tpl' = TimerLevel
                         ELSE stack' = Append(stack, f) /\ UNCHANGED tpl
  BY DEF CloseEvent, Calling, At
<1>2. f = Frame("close", tpl, e, 0) /\ h = Frame("cancel", tpl, e, 0)
  OBVIOUS
<1>3. /\ f.at = "close" /\ f.event = e /\ f.tpl = tpl
      /\ h.at = "cancel" /\ h.event = e /\ h.tpl = tpl
  BY DEF Frame
<1> HIDE DEF f, h
<1>4. /\ "close" \in Service /\ "close" \notin SettingTimer /\ "cancel" \in Service
      /\ "cancel" \in SettingTimer
  BY DEF Service, SettingTimer
<1>5. f \in Frames /\ FrameOk(f) /\ On(Top, f) /\ Runs(f, tpl, TRUE) /\ Floor(f) = tpl
  <2>1. Top.at = "code" /\ 0 \in Nat /\ "close" # "group" /\ e \in Events
    BY <1>1
  <2>2. f \in Frames
    BY <1>2, <1>4, <2>1, ServiceFrame
  <2>3. FrameOk(f)
    BY <1>2, <1>4, <2>1, ServiceFrame
  <2>4. On(Top, f)
    BY <1>2, <1>4, <2>1, ServiceFrame
  <2>6. Floor(f) = tpl
    BY <1>3, <1>4 DEF Floor
  <2>5. Runs(f, tpl, TRUE)
    BY <1>3, <2>6 DEF Runs, Unmasking
  <2> QED
    BY <2>2, <2>3, <2>4, <2>5, <2>6
<1>6. /\ stack \in Seq(Frames) /\ stack # <<>> /\ tpl \in Levels /\ TimerLevel \in Levels
      /\ interrupts = TRUE
  BY <1>1, TopFacts, Caller DEF Levels
<1>7. Sound(Append(stack, f), tpl, TRUE)
  BY <1>5, <1>6, SoundPush DEF Inv, Top
<1>8. ASSUME e \in Timers
      PROVE  /\ stack' = Append(Append(stack, f), h)
             /\ h \in Frames /\ Sound(Append(Append(stack, f), h), TimerLevel, TRUE)
  <2>1. h \in Frames /\ FrameOk(h) /\ Back(h) = tpl /\ Runs(h, TimerLevel, TRUE)
    <3>1. Top.at = "code" /\ 0 \in Nat /\ "cancel" # "group" /\ e \in Events /\ e \in Timers
      BY <1>1, <1>8
    <3>2. h \in Frames
      BY <1>2, <1>4, <3>1, ServiceFrame
    <3>6. tpl <= Notify
      BY <3>1, Caller
    <3>3. FrameOk(h)
      BY <1>3, <1>4, <3>1, <3>6 DEF FrameOk, CheckingTimers
    <3>4. Back(h) = tpl
      BY <1>3 DEF Back
    <3>5. Runs(h, TimerLevel, TRUE)
      BY <1>2, <1>4, <3>1, ServiceFrame
    <3> QED
      BY <3>2, <3>3, <3>4, <3>5
  <2>2. On(f, h)
    BY <1>3, <1>5, <2>1 DEF On, Function, CheckingTimers, Dispatching, Unmasking
  <2>3. Append(stack, f)[Len(Append(stack, f))] = f
    BY <1>5, <1>6, Called
  <2>4. Sound(Append(Append(stack, f), h), TimerLevel, TRUE)
    BY <1>6, <1>7, <2>1, <2>2, <2>3, SoundPush
  <2> QED
    BY <1>1, <1>5, <1>6, <1>8, <2>1, <2>4, PushTwo
<1>9. Sound(stack', tpl', interrupts')
  BY <1>1, <1>6, <1>7, <1>8
<1>10. \A L : EventsOf(stack', L) = EventsOf(stack, L) \cup One(f, L)
                                     \cup (IF e \in Timers THEN One(h, L) ELSE {})
  <2> SUFFICES ASSUME NEW L
               PROVE  EventsOf(stack', L) = EventsOf(stack, L) \cup One(f, L)
                                              \cup (IF e \in Timers THEN One(h, L) ELSE {})
    OBVIOUS
  <2>1. EventsOf(Append(stack, f), L) = EventsOf(stack, L) \cup One(f, L)
    BY <1>5, EventsAfter
  <2>2. ASSUME e \in Timers
        PROVE  EventsOf(stack', L) = EventsOf(stack, L) \cup One(f, L) \cup One(h, L)
    <3>1. stack' = Append(Append(stack, f), h) /\ h \in Frames /\ f \in Frames
      BY <1>5, <1>8, <2>2
    <3>2. EventsOf(Append(Append(stack, f), h), L)
            = EventsOf(stack, L) \cup One(f, L) \cup One(h, L)
      BY <3>1, EventsAfter
    <3> QED
      BY <3>1, <3>2
  <2> QED
    BY <1>1, <2>1, <2>2
<1>11. /\ \A L \in {Freeing, Signalled, Holding} : One(f, L) = {} /\ One(h, L) = {}
       /\ One(f, Busy) = {e} /\ One(h, Busy) = {e}
  BY <1>3, <1>4 DEF One, Freeing, Signalled, Holding, Busy
<1> QED
  BY <1>1, <1>6, <1>9, <1>10, <1>11, Quiet

\* CoreCloseEvent takes the event off the queues.
LEMMA CloseUnlinkStep ==
  ASSUME Inv, CloseUnlink
  PROVE  Inv'
<1> DEFINE e == Top.event
           l == LevelOf(e)
           f == [Top EXCEPT !.at = "free"]
           h == Restore(Top.tpl)
<1>1. /\ Top.at = "close" /\ stack' = Append(Callers(f), h)
      /\ queue' = [queue EXCEPT ![l] = Without(@, {e})]
      /\ registered' = Without(registered, {e})
      /\ tpl' = High /\ interrupts' = FALSE
      /\ UNCHANGED <<pending, count, life, timing, now>>
  BY DEF CloseUnlink, At, Call, Locked, Unlinked
<1>2. e \in Events /\ e \in All /\ Events \subseteq All /\ l \in Levels /\ Top.tpl \in Levels
  BY <1>1, TopFacts, LevelNumbers DEF FrameOk, All, Service
<1>3. f \in Frames /\ f.at = "free" /\ f.tpl = Top.tpl /\ f.event = e
  BY TopFacts DEF Frames, Labels
<1>4. h \in Frames /\ FrameOk(h) /\ Runs(h, High, FALSE) /\ High \in Levels /\ h.at = "restore"
  BY <1>2, RestoreFrame
<1> HIDE DEF f
<1>5. Continues(f, Top)
  BY <1>1, <1>3, TopFacts DEF Continues, FrameOk, Back, Function, CheckingTimers,
     Dispatching, Service, SettingTimer
<1>6. On(f, h)
  BY <1>2, <1>3, RestoreOn DEF Unmasking, Floor, SettingTimer
<1> HIDE DEF h
<1>7. Sound(stack', tpl', interrupts')
  <2>1. Sound(Append(Append(Front(stack), f), h), High, FALSE)
    BY <1>3, <1>4, <1>5, <1>6, TopFacts, SoundCall DEF Inv
  <2> QED
    BY <1>1, <2>1 DEF Callers
<1>8. /\ EventsOf(stack', Holding) = EventsOf(stack, Holding)
      /\ EventsOf(stack', Freeing) = EventsOf(stack, Freeing) \cup {e}
      /\ EventsOf(stack', Signalled) = EventsOf(stack, Signalled) \cup {e}
      /\ EventsOf(stack', Busy) = EventsOf(stack, Busy)
  <2>1. \A L : /\ EventsOf(stack, L) = EventsOf(Front(stack), L) \cup One(Top, L)
               /\ EventsOf(Append(Callers(f), h), L)
                    = EventsOf(Front(stack), L) \cup One(f, L) \cup One(h, L)
    BY <1>3, <1>4, EventsAfter
  <2>2. /\ One(f, Holding) = {} /\ One(f, Freeing) = {e} /\ One(f, Signalled) = {e}
        /\ One(f, Busy) = {e}
    BY <1>3 DEF One, Holding, Freeing, Signalled, Busy, Service
  <2>3. /\ One(Top, Holding) = {} /\ One(Top, Freeing) = {} /\ One(Top, Signalled) = {}
        /\ One(Top, Busy) = {e}
    BY <1>1 DEF One, Holding, Freeing, Signalled, Busy, Service
  <2>4. /\ One(h, Holding) = {} /\ One(h, Freeing) = {} /\ One(h, Signalled) = {}
        /\ One(h, Busy) = {}
    BY <1>4 DEF One, Holding, Freeing, Signalled, Busy, Service, SettingTimer
  <2> QED
    BY <1>1, <2>1, <2>2, <2>3, <2>4
<1> HIDE DEF e, l
<1>9. /\ registered' \in Seq(Signals) /\ IsInjective(registered')
      /\ ToSet(registered') = ToSet(registered) \ {e}
  BY <1>1, WithoutThem DEF Inv, Typed, Created
<1>10. /\ queue' \in [Levels -> Seq(All)] /\ IsInjective(queue'[l])
       /\ ToSet(queue'[l]) = ToSet(queue[l]) \ {e}
       /\ \A level \in Levels : level # l => queue'[level] = queue[level]
  <2>1. queue[l] \in Seq(All) /\ IsInjective(queue[l])
    BY <1>2 DEF Inv, QueuesSound
  <2>2. /\ Without(queue[l], {e}) \in Seq(All) /\ IsInjective(Without(queue[l], {e}))
        /\ ToSet(Without(queue[l], {e})) = ToSet(queue[l]) \ {e}
    BY <2>1, WithoutThem
  <2>3. queue \in [Levels -> Seq(All)]
    BY DEF Inv, QueuesSound
  <2> QED
    BY <1>1, <1>2, <2>2, <2>3
<1>11. QueuesSound(queue', pending')
  <2>1. queue'[l] # <<>> => l \in pending
    <3>1. queue'[l] # <<>> => queue[l] # <<>>
      BY <1>2, <1>10, EmptyList DEF Inv, QueuesSound
    <3> QED
      BY <1>2, <3>1 DEF Inv, QueuesSound
  <2> QED
    BY <1>1, <1>2, <1>10, <2>1 DEF Inv, QueuesSound
<1>12. Typed'
  BY <1>1, <1>9 DEF Inv, Typed, timing
<1>13. Delivered'
  <2> SUFFICES ASSUME NEW x \in Signals \cup {CheckTimer}, count[x] # 0,
                      x \in Events => life[x] = "open"
               PROVE  InQueue(queue', x) \/ x \in EventsOf(stack', Signalled)
    BY <1>1 DEF Delivered
  <2>1. x \in All /\ LevelOf(x) \in Levels
    BY <1>2, ConstantsAssumption, LevelNumbers DEF All
  <2>2. InQueue(queue, x) \/ x \in EventsOf(stack, Signalled)
    BY DEF Inv, Delivered
  <2>3. x # e /\ InQueue(queue, x) => InQueue(queue', x)
    BY <1>10, <2>1 DEF InQueue
  <2> QED
    BY <1>8, <2>2, <2>3
<1>14. Created'
  BY <1>1, <1>8, <1>9 DEF Inv, Created, timing
<1>15. TimersSound'
  BY <1>1, <1>8, TimersKept
<1> QED
  BY <1>7, <1>11, <1>12, <1>13, <1>14, <1>15 DEF Inv

\* CoreCloseEvent frees the event.
LEMMA CloseFreeStep ==
  ASSUME Inv, CloseFree
  PROVE  Inv'
<1> DEFINE e == Top.event
<1>1. /\ Top.at = "free" /\ stack' = Front(stack) /\ life' = [life EXCEPT ![e] = "closed"]
      /\ UNCHANGED <<tpl, interrupts, notifying, registered, timing, now>>
  BY DEF CloseFree, At, Return
<1>2. Back(Top) = tpl /\ interrupts = TRUE /\ e \in Events
  BY <1>1, TopFacts DEF Back, Runs, Floor, Unmasking, SettingTimer, FrameOk, Service, Inv, Typed
<1>3. Sound(stack', tpl', interrupts')
  BY <1>1, <1>2, TopFacts, SoundReturn DEF Inv
<1>4. \A L : EventsOf(stack, L) = EventsOf(stack', L) \cup One(Top, L)
  BY <1>1, TopFacts, EventsAfter
<1>5. /\ One(Top, Holding) = {} /\ One(Top, Freeing) = {e} /\ One(Top, Signalled) = {e}
  BY <1>1 DEF One, Holding, Freeing, Signalled
<1> HIDE DEF e
<1>6. Typed' /\ QueuesSound(queue', pending')
  BY <1>1, <1>2 DEF Inv, Typed, notifying, timing
<1>7. life'[e] = "closed" /\ \A x \in Events : x # e => life'[x] = life[x]
  BY <1>1, <1>2 DEF Inv, Typed
<1>8. EventsOf(stack', Holding) = EventsOf(stack, Holding)
      /\ EventsOf(stack, Freeing) = EventsOf(stack', Freeing) \cup {e}
      /\ EventsOf(stack, Signalled) = EventsOf(stack', Signalled) \cup {e}
      /\ EventsOf(stack', Busy) \subseteq EventsOf(stack, Busy)
  BY <1>4, <1>5
<1>9. Delivered'
  BY <1>1, <1>2, <1>7, <1>8 DEF Inv, Delivered, notifying
<1>10. Created'
  <2>1. \A x \in ToSet(registered) : x \in Events
    BY EmptyList, ConstantsAssumption DEF Inv, Typed
  <2>2. Signals \subseteq Events
    BY ConstantsAssumption
  <2> QED
    BY <1>1, <1>2, <1>7, <1>8, <2>1, <2>2 DEF Inv, Created, notifying, timing
<1>11. TimersSound'
  BY <1>1, <1>8, TimersKept
<1> QED
  BY <1>3, <1>6, <1>9, <1>10, <1>11 DEF Inv

\* A service whose frame stays under what is restored.
LEMMA PushService ==
  ASSUME Inv, Top.at = "code", NEW label \in {"group", "consume"}, NEW e \in Events,
         label = "group" => Grouped(e),
         stack' = stack \o <<Frame(label, tpl, e, 0), Restore(tpl)>>
  PROVE  /\ Sound(stack', High, FALSE)
         /\ EventsOf(stack', Freeing) = EventsOf(stack, Freeing)
         /\ EventsOf(stack', Holding) = EventsOf(stack, Holding)
         /\ EventsOf(stack', Signalled)
              = EventsOf(stack, Signalled) \cup (IF label = "group" THEN {e} ELSE {})
         /\ EventsOf(stack', Busy) = EventsOf(stack, Busy) \cup {e}
<1> DEFINE f == Frame(label, tpl, e, 0)
           h == Restore(tpl)
<1>1. stack' = stack \o <<f, h>> /\ f = Frame(label, tpl, e, 0) /\ h = Restore(tpl)
  OBVIOUS
<1>2. f.at = label /\ f.event = e /\ f.tpl = tpl
  BY DEF Frame
<1>3. /\ stack \in Seq(Frames) /\ stack # <<>> /\ tpl \in Levels /\ High \in Levels
      /\ h \in Frames /\ FrameOk(h) /\ Runs(h, High, FALSE) /\ h.at = "restore"
  BY TopFacts, RestoreFrame
<1> HIDE DEF f, h
<1>4. label \in Service /\ label \notin SettingTimer /\ label \notin Unmasking
  BY DEF Service, SettingTimer, Unmasking
<1>5. f \in Frames
  <2>1. label \in SettingTimer => e \in Timers
    BY <1>4
  <2> QED
    BY <1>1, <1>4, <2>1, ServiceFrame
<1>6. FrameOk(f)
  BY <1>2, <1>4, Caller DEF FrameOk, CheckingTimers
<1>7. On(Top, f)
  BY <1>2, <1>4, Caller DEF On, Function, CheckingTimers, Dispatching, Back
<1>8. Floor(f) = tpl /\ Runs(f, tpl, TRUE)
  BY <1>2, <1>4 DEF Floor, Runs
<1>9. Sound(Append(stack, f), tpl, TRUE)
  BY <1>3, <1>5, <1>6, <1>7, <1>8, SoundPush DEF Inv, Top
<1>10. Append(stack, f)[Len(Append(stack, f))] = f
  BY <1>3, <1>5, Called
<1>11. On(f, h)
  BY <1>1, <1>2, <1>3, <1>4, <1>8, RestoreOn
<1>12. Sound(Append(Append(stack, f), h), High, FALSE)
  BY <1>3, <1>9, <1>10, <1>11, SoundPush
<1>13. stack' = Append(Append(stack, f), h)
  <2>1. stack \o <<f, h>> = Append(Append(stack, f), h)
    BY <1>3, <1>5, PushTwo
  <2> QED
    BY <1>1, <2>1
<1>14. \A L : EventsOf(stack', L) = EventsOf(stack, L) \cup One(f, L) \cup One(h, L)
  <2>1. \A L : EventsOf(Append(Append(stack, f), h), L)
                 = EventsOf(stack, L) \cup One(f, L) \cup One(h, L)
    BY <1>3, <1>5, EventsAfter
  <2> QED
    BY <1>13, <2>1
<1>15. /\ One(h, Freeing) = {} /\ One(h, Holding) = {} /\ One(h, Signalled) = {}
       /\ One(h, Busy) = {}
  BY <1>3 DEF One, Freeing, Holding, Signalled, Busy, Service, SettingTimer
<1>16. /\ One(f, Freeing) = {} /\ One(f, Holding) = {}
       /\ One(f, Signalled) = (IF label = "group" THEN {e} ELSE {}) /\ One(f, Busy) = {e}
  BY <1>2, <1>4 DEF One, Freeing, Holding, Signalled, Busy
<1> QED
  BY <1>12, <1>13, <1>14, <1>15, <1>16

\* SignalEvent.
LEMMA SignalEventStep ==
  ASSUME Inv, NEW e \in Events, SignalEvent(e)
  PROVE  Inv'
<1>1. /\ Top.at = "code" /\ life[e] = "open" /\ tpl' = High /\ interrupts' = FALSE
      /\ UNCHANGED <<life, registered, timing, now>>
  BY DEF SignalEvent, Calling, At, Locked
<1>2. /\ e \in All /\ Events \subseteq All /\ Signals \subseteq Events /\ CheckTimer \in All
      /\ CheckTimer \notin Events
  BY ConstantsAssumption DEF All
<1>3. /\ registered \in Seq(Signals) /\ IsInjective(registered) /\ count \in [All -> {0, 1}]
      /\ QueuesSound(queue, pending)
  BY DEF Inv, Typed, Created
<1>4. CASE /\ ~Grouped(e) \/ count[e] # 0
           /\ Signal(e)
           /\ Call(Top, Restore(tpl))
  <2>1. stack' = Append(Callers(Top), Restore(tpl))
    BY <1>4 DEF Call
  <2>2. /\ Sound(stack', tpl', interrupts')
        /\ \A L : L \subseteq Busy => EventsOf(stack', L) = EventsOf(stack, L)
    BY <1>1, <2>1, LockedCall
  <2>3. /\ QueuesSound(queue', pending') /\ count' \in [All -> {0, 1}]
        /\ \A x \in All : x # e => count'[x] = count[x]
        /\ \A x \in All : InQueue(queue, x) => InQueue(queue', x)
        /\ count[e] = 0 /\ IsSignal(e) /\ (~Grouped(e) \/ e \in ToSet(registered))
             => InQueue(queue', e)
    BY <1>2, <1>3, <1>4, SignalEffect
  <2>4. Typed'
    BY <1>1, <2>3 DEF Inv, Typed, timing
  <2>5. TimersSound'
    BY <1>1, <2>2, Labelled, TimersKept
  <2>6. ASSUME NEW x \in Signals \cup {CheckTimer}, count'[x] # 0
        PROVE  \/ InQueue(queue', x)
               \/ count[x] # 0 /\ (InQueue(queue, x) => InQueue(queue', x))
    <3>1. x \in All
      BY <1>2
    <3>2. CASE x # e
      BY <2>3, <2>6, <3>1, <3>2
    <3>3. CASE x = e
      <4>1. IsSignal(e)
        BY <1>2, <3>3 DEF IsSignal
      <4>2. count[e] \in {0, 1}
        BY <1>2, <1>3
      <4> QED
        BY <1>4, <2>3, <3>1, <3>3, <4>1, <4>2
    <3> QED
      BY <3>2, <3>3
  <2>7. \A x \in Events : life[x] = "none" => count'[x] = 0 /\ x \notin ToSet(armed')
                                              /\ x \notin EventsOf(stack', Busy)
    BY <1>1, <1>2, <2>2, <2>3 DEF Inv, Created, timing
  <2> QED
    BY <1>1, <2>2, <2>3, <2>4, <2>5, <2>6, <2>7, Labelled, Kept
<1>5. CASE /\ Grouped(e) /\ count[e] = 0
           /\ count' = [count EXCEPT ![e] = 1]
           /\ stack' = stack \o <<Frame("group", tpl, e, 0), Restore(tpl)>>
           /\ UNCHANGED <<queue, pending>>
  <2>1. /\ Sound(stack', tpl', interrupts')
        /\ EventsOf(stack', Freeing) = EventsOf(stack, Freeing)
        /\ EventsOf(stack', Holding) = EventsOf(stack, Holding)
        /\ EventsOf(stack', Signalled) = EventsOf(stack, Signalled) \cup {e}
        /\ EventsOf(stack', Busy) = EventsOf(stack, Busy) \cup {e}
    BY <1>1, <1>5, PushService
  <2>2. Typed' /\ QueuesSound(queue', pending')
    BY <1>1, <1>2, <1>5 DEF Inv, Typed, timing
  <2>3. TimersSound'
    BY <1>1, <2>1, TimersKept
  <2>4. count'[e] = 1 /\ \A x \in All : x # e => count'[x] = count[x]
    BY <1>2, <1>3, <1>5
  <2>5. \A x \in Signals \cup {CheckTimer} :
          count'[x] # 0 =>
            \/ x \in EventsOf(stack', Signalled)
            \/ /\ count[x] # 0 /\ (InQueue(queue, x) => InQueue(queue', x))
               /\ x \in EventsOf(stack, Signalled) => x \in EventsOf(stack', Signalled)
    BY <1>2, <1>5, <2>1, <2>4
  <2>6. \A x \in Events : life[x] = "none" => count'[x] = 0 /\ x \notin ToSet(armed')
                                              /\ x \notin EventsOf(stack', Busy)
    BY <1>1, <1>2, <2>1, <2>4 DEF Inv, Created, timing
  <2> QED
    BY <1>1, <2>1, <2>2, <2>3, <2>5, <2>6, Kept
<1> QED
  BY <1>4, <1>5 DEF SignalEvent

\* The group of the event is queued.
LEMMA SignalGroupStep ==
  ASSUME Inv, SignalGroup
  PROVE  Inv'
<1> DEFINE e == Top.event
           f == Restore(Top.tpl)
<1>1. /\ Top.at = "group" /\ stack' = Callers(f) /\ NotifyEvents(Members(e))
      /\ tpl' = High /\ interrupts' = FALSE
      /\ UNCHANGED <<count, life, registered, timing, now>>
  BY DEF SignalGroup, At, Goto, Locked
<1>2. /\ e \in Events /\ Grouped(e) /\ e \in Signals /\ e \in All /\ Events \subseteq All
      /\ Signals \subseteq All /\ CheckTimer \in All /\ Top.tpl \in Levels
  BY <1>1, TopFacts, ConstantsAssumption DEF FrameOk, Service, All, Grouped
<1>3. /\ f \in Frames /\ FrameOk(f) /\ Back(f) = Top.tpl /\ f.at = "restore" /\ f.tpl = Top.tpl
      /\ Runs(f, High, FALSE) /\ High \in Levels
  BY <1>2, RestoreFrame
<1> HIDE DEF f
<1>4. Continues(f, Top)
  BY <1>1, <1>3 DEF Continues, Back, Function, CheckingTimers, Dispatching
<1>5. Sound(stack', tpl', interrupts')
  BY <1>1, <1>3, <1>4, SoundGoto, TopFacts DEF Inv, Callers
<1>6. /\ EventsOf(stack', Holding) = EventsOf(stack, Holding)
      /\ EventsOf(stack', Freeing) = EventsOf(stack, Freeing)
      /\ EventsOf(stack, Signalled) = EventsOf(stack', Signalled) \cup {e}
      /\ EventsOf(stack', Busy) \subseteq EventsOf(stack, Busy)
  <2>1. \A L : /\ EventsOf(stack, L) = EventsOf(Front(stack), L) \cup One(Top, L)
               /\ EventsOf(Callers(f), L) = EventsOf(Front(stack), L) \cup One(f, L)
    BY <1>3, EventsAfter
  <2>2. /\ One(f, Holding) = {} /\ One(f, Freeing) = {} /\ One(f, Signalled) = {}
        /\ One(f, Busy) = {}
    BY <1>3 DEF One, Holding, Freeing, Signalled, Busy, Service, SettingTimer
  <2>3. /\ One(Top, Holding) = {} /\ One(Top, Freeing) = {} /\ One(Top, Signalled) = {e}
    BY <1>1 DEF One, Holding, Freeing, Signalled
  <2> QED
    BY <1>1, <2>1, <2>2, <2>3
<1> HIDE DEF e
<1>7. /\ registered \in Seq(Signals) /\ IsInjective(registered)
      /\ QueuesSound(queue, pending)
  BY DEF Inv, Typed, Created
<1>8. /\ Members(e) \in Seq(All) /\ IsInjective(Members(e))
      /\ e \in ToSet(registered) => e \in ToSet(Members(e))
  BY <1>2, <1>7, MembersOf DEF IsSignal
<1>9. /\ QueuesSound(queue', pending')
      /\ \A x \in All : InQueue(queue', x) <=> InQueue(queue, x) \/ x \in ToSet(Members(e))
  BY <1>1, <1>7, <1>8, Notified
<1>10. Typed'
  BY <1>1 DEF Inv, Typed, timing
<1>11. TimersSound'
  BY <1>1, <1>6, TimersKept
<1>12. ASSUME NEW x \in Signals \cup {CheckTimer}, count'[x] # 0,
              x \in Events => life[x] = "open"
       PROVE  \/ InQueue(queue', x) \/ x \in EventsOf(stack', Signalled)
              \/ /\ count[x] # 0 /\ (InQueue(queue, x) => InQueue(queue', x))
                 /\ x \in EventsOf(stack, Signalled) => x \in EventsOf(stack', Signalled)
  <2>1. x \in All /\ count[x] # 0
    BY <1>1, <1>2, <1>12
  <2>2. CASE x # e
    BY <1>6, <1>9, <2>1, <2>2
  <2>3. CASE x = e
    <3>1. e \in ToSet(registered) \/ e \in EventsOf(stack, Freeing)
      BY <1>2, <1>12, <2>3 DEF Inv, Created
    <3>2. e \in EventsOf(stack', Freeing) => e \in EventsOf(stack', Signalled)
      BY DEF EventsOf, Freeing, Signalled
    <3> QED
      BY <1>6, <1>8, <1>9, <2>1, <2>3, <3>1, <3>2
  <2> QED
    BY <2>2, <2>3
<1>13. \A x \in Events : life[x] = "none" => count'[x] = 0 /\ x \notin ToSet(armed')
                                             /\ x \notin EventsOf(stack', Busy)
  BY <1>1, <1>6 DEF Inv, Created, timing
<1> QED
  BY <1>1, <1>5, <1>6, <1>9, <1>10, <1>11, <1>12, <1>13, Kept

\* CheckEvent.
LEMMA CheckEventStep ==
  ASSUME Inv, NEW e \in Events, CheckEvent(e)
  PROVE  Inv'
<1>1. /\ Top.at = "code" /\ life[e] = "open" /\ e \notin Signals
      /\ UNCHANGED <<life, registered, timing, now>>
  BY DEF CheckEvent, Calling, At
<1>2. /\ e \in All /\ Events \subseteq All /\ Signals \subseteq Events /\ CheckTimer \in All
      /\ CheckTimer \notin Events
  BY ConstantsAssumption DEF All
<1>3. count \in [All -> {0, 1}] /\ QueuesSound(queue, pending)
  BY DEF Inv, Typed
<1>4. CASE /\ NotifyEvents(<<e>>)
           /\ stack' = stack \o <<Frame("consume", tpl, e, 0), Restore(tpl)>>
           /\ Locked /\ UNCHANGED count
  <2>1. tpl' = High /\ interrupts' = FALSE
    BY <1>4 DEF Locked
  <2>2. /\ Sound(stack', High, FALSE)
        /\ EventsOf(stack', Freeing) = EventsOf(stack, Freeing)
        /\ EventsOf(stack', Holding) = EventsOf(stack, Holding)
        /\ EventsOf(stack', Signalled) = EventsOf(stack, Signalled)
        /\ EventsOf(stack', Busy) = EventsOf(stack, Busy) \cup {e}
    BY <1>1, <1>4, PushService
  <2>3. <<e>> \in Seq(All) /\ IsInjective(<<e>>)
    BY <1>2, OneElement
  <2>4. /\ QueuesSound(queue', pending')
        /\ \A x \in All : InQueue(queue, x) => InQueue(queue', x)
    BY <1>3, <1>4, <2>3, Notified
  <2>5. Typed'
    BY <1>1, <1>4, <2>1 DEF Inv, Typed, timing
  <2>6. TimersSound'
    BY <1>1, <2>2, TimersKept
  <2>7. \A x \in Signals \cup {CheckTimer} : x \in All
    BY <1>2
  <2>8. \A x \in Events : life[x] = "none" => count'[x] = 0 /\ x \notin ToSet(armed')
                                              /\ x \notin EventsOf(stack', Busy)
    BY <1>1, <1>4, <2>2 DEF Inv, Created, timing
  <2> QED
    BY <1>1, <1>4, <2>1, <2>2, <2>4, <2>5, <2>6, <2>7, <2>8, Kept
<1>5. CASE /\ count' = [count EXCEPT ![e] = 0]
           /\ Call(Top, Restore(tpl))
           /\ Locked /\ UNCHANGED <<queue, pending>>
  <2>1. tpl' = High /\ interrupts' = FALSE /\ stack' = Append(Callers(Top), Restore(tpl))
    BY <1>5 DEF Locked, Call
  <2>2. /\ Sound(stack', tpl', interrupts')
        /\ \A L : L \subseteq Busy => EventsOf(stack', L) = EventsOf(stack, L)
    BY <1>1, <2>1, LockedCall
  <2>3. count' \in [All -> {0, 1}] /\ \A x \in All : count'[x] # 0 => count[x] # 0
    BY <1>2, <1>3, <1>5
  <2>4. Typed' /\ QueuesSound(queue', pending')
    BY <1>1, <1>3, <1>5, <2>1, <2>3 DEF Inv, Typed, timing
  <2>5. TimersSound'
    BY <1>1, <2>2, Labelled, TimersKept
  <2>6. ASSUME NEW x \in Signals \cup {CheckTimer}, count'[x] # 0
        PROVE  count[x] # 0 /\ (InQueue(queue, x) => InQueue(queue', x))
    BY <1>2, <1>5, <2>3, <2>6
  <2>7. \A x \in Events : life[x] = "none" => count'[x] = 0 /\ x \notin ToSet(armed')
                                              /\ x \notin EventsOf(stack', Busy)
    BY <1>1, <1>2, <2>2, <2>3 DEF Inv, Created, timing
  <2> QED
    BY <1>1, <2>2, <2>4, <2>5, <2>6, <2>7, Labelled, Kept
<1> QED
  BY <1>4, <1>5 DEF CheckEvent

\* CheckEvent looks at the event again after its function may have run.
LEMMA CheckEventAgainStep ==
  ASSUME Inv, CheckEventAgain
  PROVE  Inv'
<1> DEFINE e == Top.event
           f == Restore(Top.tpl)
<1>1. /\ Top.at = "consume" /\ UNCHANGED <<queue, pending, life, registered, timing, now>>
  BY DEF CheckEventAgain, At
<1>2. /\ e \in Events /\ e \in All /\ Events \subseteq All /\ Signals \subseteq All
      /\ CheckTimer \in All /\ Top.tpl \in Levels
  BY <1>1, TopFacts, ConstantsAssumption DEF FrameOk, Service, All
<1>3. count \in [All -> {0, 1}] /\ QueuesSound(queue, pending)
  BY DEF Inv, Typed
<1>4. CASE /\ count' = [count EXCEPT ![e] = 0]
           /\ Goto(f) /\ Locked
  <2>1. tpl' = High /\ interrupts' = FALSE /\ stack' = Callers(f)
    BY <1>4 DEF Locked, Goto
  <2>2. /\ f \in Frames /\ FrameOk(f) /\ Back(f) = Top.tpl /\ f.at = "restore"
        /\ f.tpl = Top.tpl /\ Runs(f, High, FALSE) /\ High \in Levels
    BY <1>2, RestoreFrame
  <2> HIDE DEF f
  <2>3. Continues(f, Top)
    BY <1>1, <2>2 DEF Continues, Back, Function, CheckingTimers, Dispatching
  <2>4. Sound(stack', tpl', interrupts')
    BY <2>1, <2>2, <2>3, SoundGoto, TopFacts DEF Inv, Callers
  <2>5. /\ EventsOf(stack', Holding) = EventsOf(stack, Holding)
        /\ EventsOf(stack', Freeing) = EventsOf(stack, Freeing)
        /\ EventsOf(stack', Signalled) = EventsOf(stack, Signalled)
        /\ EventsOf(stack', Busy) \subseteq EventsOf(stack, Busy)
    <3>1. \A L : /\ EventsOf(stack, L) = EventsOf(Front(stack), L) \cup One(Top, L)
                 /\ EventsOf(Callers(f), L) = EventsOf(Front(stack), L) \cup One(f, L)
      BY <2>2, EventsAfter
    <3>2. /\ One(f, Holding) = {} /\ One(f, Freeing) = {} /\ One(f, Signalled) = {}
          /\ One(f, Busy) = {}
      BY <2>2 DEF One, Holding, Freeing, Signalled, Busy, Service, SettingTimer
    <3>3. /\ One(Top, Holding) = {} /\ One(Top, Freeing) = {} /\ One(Top, Signalled) = {}
      BY <1>1 DEF One, Holding, Freeing, Signalled
    <3> QED
      BY <2>1, <3>1, <3>2, <3>3
  <2> HIDE DEF e
  <2>6. count' \in [All -> {0, 1}] /\ \A x \in All : count'[x] # 0 => count[x] # 0
    BY <1>2, <1>3, <1>4
  <2>7. Typed' /\ QueuesSound(queue', pending')
    BY <1>1, <1>3, <2>1, <2>6 DEF Inv, Typed, timing
  <2>8. TimersSound'
    BY <1>1, <2>5, TimersKept
  <2>9. ASSUME NEW x \in Signals \cup {CheckTimer}, count'[x] # 0
        PROVE  count[x] # 0 /\ (InQueue(queue, x) => InQueue(queue', x))
    BY <1>1, <1>2, <2>6, <2>9
  <2>10. \A x \in Events : life[x] = "none" => count'[x] = 0 /\ x \notin ToSet(armed')
                                               /\ x \notin EventsOf(stack', Busy)
    BY <1>1, <1>2, <2>5, <2>6 DEF Inv, Created, timing
  <2> QED
    BY <1>1, <2>4, <2>5, <2>7, <2>8, <2>9, <2>10, Kept
<1>5. CASE Return /\ UNCHANGED <<tpl, interrupts, count>>
  <2>1. stack' = Front(stack)
    BY <1>5 DEF Return
  <2>2. Back(Top) = tpl /\ interrupts = TRUE
    BY <1>1, TopFacts DEF Back, Runs, Floor, Unmasking, SettingTimer, Inv, Typed
  <2>3. Sound(stack', tpl', interrupts')
    BY <1>1, <1>5, <2>1, <2>2, TopFacts, SoundReturn DEF Inv
  <2>4. \A L : EventsOf(stack, L) = EventsOf(stack', L) \cup One(Top, L)
    BY <2>1, TopFacts, EventsAfter
  <2>5. One(Top, Holding) = {} /\ One(Top, Freeing) = {} /\ One(Top, Signalled) = {}
    BY <1>1 DEF One, Holding, Freeing, Signalled
  <2> QED
    BY <1>1, <1>5, <2>2, <2>3, <2>4, <2>5, Quiet DEF notifying
<1> QED
  BY <1>4, <1>5 DEF CheckEventAgain

-----------------------------------------------------------------------------
(******************************* The theorems ******************************)

\* The invariant holds at first.
LEMMA InitInv == Init => Inv
<1> SUFFICES ASSUME Init PROVE Inv
  OBVIOUS
<1> DEFINE f == Frame("code", Application, Base, 0)
<1>1. /\ stack = <<f>> /\ tpl = Application /\ interrupts = TRUE
      /\ queue = [level \in Levels |-> <<>>] /\ pending = {}
      /\ count = [e \in All |-> 0] /\ life = [e \in Events |-> "none"]
      /\ registered = <<>> /\ armed = <<>>
      /\ trigger = [e \in Events |-> 0] /\ period = [e \in Events |-> 0] /\ now = 0
  BY DEF Init
<1>2. /\ f \in Frames /\ f.at = "code" /\ f.event = Base /\ f.tpl = Application
      /\ Application \in Levels
  BY DEF Frame, Frames, Labels, Levels
<1> HIDE DEF f
<1>3. Len(stack) = 1 /\ stack[1] = f /\ stack \in Seq(Frames) /\ stack # <<>>
  BY <1>1, <1>2
<1>4. FrameOk(f) /\ Runs(f, Application, TRUE)
  <2>1. Base # CheckTimer /\ OwnLevel(f) = Application
    BY <1>2, ConstantsAssumption DEF OwnLevel, All
  <2> QED
    BY <1>2, <2>1 DEF FrameOk, Runs, Floor, Unmasking, SettingTimer, CheckingTimers, Service,
       Application, Notify
<1>5. Sound(stack, tpl, interrupts)
  <2>1. /\ Len(stack) = 1 /\ stack[1].at = "code" /\ stack[1].event = Base /\ FrameOk(stack[1])
        /\ Runs(stack[1], tpl, interrupts) /\ tpl \in Levels
    BY <1>1, <1>2, <1>3, <1>4
  <2>2. \A i \in 1 .. 1 : i = 1
    OBVIOUS
  <2> QED
    BY <1>3, <2>1, <2>2 DEF Sound
<1>6. \A L : L \subseteq Busy => EventsOf(stack, L) = {}
  <2> SUFFICES ASSUME NEW L, L \subseteq Busy PROVE EventsOf(stack, L) = {}
    OBVIOUS
  <2>1. f.at \notin L
    BY <1>2 DEF Busy, Service, SettingTimer
  <2> QED
    BY <1>3, <2>1 DEF EventsOf
<1>7. /\ \A T : <<>> \in Seq(T)
      /\ IsInjective(<<>>) /\ ToSet(<<>>) = {} /\ DOMAIN <<>> = {}
  <2>1. \A T : <<>> \in Seq(T)
    OBVIOUS
  <2>2. DOMAIN <<>> = {}
    OBVIOUS
  <2>3. IsInjective(<<>>) /\ ToSet(<<>>) = {}
    BY <1>2, OneElement
  <2> QED
    BY <2>1, <2>2, <2>3
<1>8. Typed
  BY <1>1, <1>7, ConstantsAssumption DEF Typed
<1>9. QueuesSound(queue, pending)
  BY <1>1, <1>7 DEF QueuesSound
<1>10. Delivered
  BY <1>1, ConstantsAssumption DEF Delivered, All
<1>11. Created
  BY <1>1, <1>6, <1>7, ConstantsAssumption DEF Created, All
<1>12. TimersSound
  BY <1>1, <1>6, <1>7, Labelled, ConstantsAssumption DEF TimersSound, Ordered
<1> QED
  BY <1>5, <1>8, <1>9, <1>10, <1>11, <1>12 DEF Inv

\* Every step keeps the invariant.
LEMMA NextInv == Inv /\ [Next]_vars => Inv'
<1> SUFFICES ASSUME Inv, [Next]_vars PROVE Inv'
  OBVIOUS
<1>1. CASE RestoreTpl
  BY <1>1, RestoreDispatchStep, RestoreDoneStep, RestoreLowerStep DEF RestoreTpl
<1>2. CASE Dispatch
  BY <1>2, DispatchNextStep, DispatchNotifyStep, DispatchEndStep DEF Dispatch
<1>3. CASE CheckTimers
  BY <1>3, CheckTimersStartStep, CheckTimersExpireStep, CheckTimersAgainStep, CheckTimersEndStep
     DEF CheckTimers
<1>4. CASE Services
  BY <1>4, SetTimerRemoveStep, SetTimerTimeStep, SetTimerInsertStep, SignalGroupStep,
     CheckEventAgainStep, CloseUnlinkStep, CloseFreeStep DEF Services, SetTimer
<1>5. CASE Code
  BY <1>5, CreateEventStep, CallSetTimerStep, SignalEventStep, CheckEventStep, CloseEventStep,
     RaiseTplStep, CallRestoreTplStep, NotifyReturnsStep DEF Code
<1>6. CASE TimerTick
  BY <1>6, TimerTickStep
<1>7. CASE UNCHANGED vars
  BY <1>7 DEF vars, processor, notifying, timing, Inv, Typed, Delivered, Created, TimersSound
<1> QED
  BY <1>1, <1>2, <1>3, <1>4, <1>5, <1>6, <1>7 DEF Next

\* The invariant holds in every state.
THEOREM EventInvariant == Spec => []Inv
<1> QED
  BY InitInv, NextInv, PTL DEF Spec

\* The types.
THEOREM Types == Spec => []TypeOK
<1>1. Inv => TypeOK
  <2> SUFFICES ASSUME Inv PROVE TypeOK
    OBVIOUS
  <2>1. /\ stack \in Seq([at : Labels, tpl : Levels, event : All \cup {Base}, time : Nat])
        /\ stack # <<>> /\ tpl \in Levels
    BY DEF Inv, Sound, Frames
  <2> QED
    BY <2>1 DEF Inv, Typed, QueuesSound, TypeOK
<1> QED
  BY <1>1, EventInvariant, PTL

\* A function runs only above the level of all the code it has interrupted:
\* CoreRestoreTpl dispatches nothing at or below the level it goes back to, and
\* the dispatcher runs a function at the level of its queue.
THEOREM FunctionsPreempt == Spec => []Preempts
<1>1. Inv => Preempts
  BY SoundPreempts DEF Inv
<1> QED
  BY <1>1, EventInvariant, PTL

\* An event whose SignalCount is set is queued, or the frame that queues it or
\* frees it is on the stack; the bit of a queue with events is set.
THEOREM SignalsArrive == Spec => []Deliverable
<1>1. Inv => Deliverable
  <2> SUFFICES ASSUME Inv PROVE Deliverable
    OBVIOUS
  <2>1. ASSUME NEW e \in Signals \cup {CheckTimer}, count[e] # 0,
               e \in Events => life[e] = "open"
        PROVE  \/ Queued(e)
               \/ \E i \in DOMAIN stack : /\ stack[i].event = e
                                          /\ stack[i].at \in {"group", "free"}
    <3>1. InQueue(queue, e) \/ e \in EventsOf(stack, Signalled)
      BY <2>1 DEF Inv, Delivered
    <3>2. DOMAIN stack = 1 .. Len(stack)
      BY TopFacts
    <3> QED
      BY <3>1, <3>2 DEF InQueue, Queued, EventsOf, Signalled
  <2>2. \A level \in Levels : queue[level] # <<>> => level \in pending
    BY DEF Inv, QueuesSound
  <2> QED
    BY <2>1, <2>2 DEF Deliverable
<1> QED
  BY <1>1, EventInvariant, PTL

\* The lists hold each event once and the timers in order; one call at a time
\* changes the timers, at the level of their lock, and no periodic timer drops
\* out of them.
THEOREM ListsStaySound == Spec => []ListsSound
<1>1. Inv => ListsSound
  <2> SUFFICES ASSUME Inv PROVE ListsSound
    OBVIOUS
  <2>1. DOMAIN stack = 1 .. Len(stack)
    BY TopFacts
  <2>2. TimerLock
    <3> DEFINE holders == {i \in DOMAIN stack :
                             stack[i].at \in {"expire", "again", "cancel", "relative",
                                              "periodic", "time", "insert"}}
    <3>1. \A i \in holders : i \in 1 .. Len(stack) /\ stack[i].at \in Holders
      BY <2>1 DEF Holders, SettingTimer
    <3> HIDE DEF holders
    <3>2. \A i \in holders : /\ \A j \in 1 .. Len(stack) : stack[j].at \in Holders => i = j
                             /\ tpl >= TimerLevel
      BY <3>1, SoundLock DEF Inv
    <3>3. (\A i, j \in holders : i = j) /\ (holders # {} => tpl >= TimerLevel)
      BY <3>1, <3>2
    <3> QED
      BY <3>3 DEF TimerLock, holders
  <2>3. PeriodicStays
    BY <2>1 DEF Inv, TimersSound, PeriodicStays, EventsOf, Holding
  <2> QED
    BY <2>2, <2>3 DEF Inv, QueuesSound, TimersSound, Ordered, ListsSound
<1> QED
  BY <1>1, EventInvariant, PTL

\* The function of CheckTimer has no frame that queues or frees it.
LEMMA CheckTimerQueued ==
  ASSUME Inv, count[CheckTimer] # 0
  PROVE  InQueue(queue, CheckTimer)
<1>1. CheckTimer \notin Events
  BY ConstantsAssumption
<1>2. CheckTimer \notin EventsOf(stack, Signalled)
  <2>1. \A i \in 1 .. Len(stack) : FrameOk(stack[i])
    BY DEF Inv, Sound
  <2>2. \A i \in 1 .. Len(stack) : stack[i].at \in Signalled => stack[i].event \in Events
    BY <2>1 DEF FrameOk, Signalled, Service
  <2> QED
    BY <1>1, <2>2 DEF EventsOf
<1> QED
  BY <1>1, <1>2 DEF Inv, Delivered

\* Only the tick moves the time.
LEMMA OnlyTick ==
  ASSUME [Next]_vars, now' # now
  PROVE  TimerTick
<1>1. ~(UNCHANGED vars)
  BY DEF vars
<1>2. ~RestoreTpl /\ ~Dispatch
  BY DEF RestoreTpl, RestoreDispatch, RestoreDone, RestoreLower, Dispatch, DispatchNext,
     DispatchNotify, DispatchEnd
<1>3. ~CheckTimers
  BY DEF CheckTimers, CheckTimersStart, CheckTimersExpire, CheckTimersAgain, CheckTimersEnd
<1>4. ~Services
  BY DEF Services, SetTimer, SetTimerRemove, SetTimerTime, SetTimerInsert, SignalGroup,
     CheckEventAgain, CloseUnlink, CloseFree
<1>5. ~Code
  BY DEF Code, CreateEvent, CallSetTimer, SignalEvent, CheckEvent, CloseEvent, RaiseTpl,
     CallRestoreTpl, NotifyReturns
<1> QED
  BY <1>1, <1>2, <1>3, <1>4, <1>5 DEF Next

\* A tick leaves no expired timer unnoticed: the first of the list is the first
\* to expire, and CheckTimer is queued where its SignalCount is set already.
THEOREM TicksNotice == Spec => TickNotices
<1>1. ASSUME Inv, [Next]_vars, now' # now, NEW i \in DOMAIN armed, trigger[armed[i]] <= now'
      PROVE  CheckTimer \in ToSet(queue'[TimerLevel])
  <2>1. /\ TimerTick /\ now' = now + 1 /\ now \in Int
        /\ IF Expired(armed, now') THEN Signal(CheckTimer) ELSE UNCHANGED notifying
    BY <1>1, OnlyTick, ConstantsAssumption DEF TimerTick, Inv, Typed
  <2>2. Expired(armed, now')
    <3>1. /\ armed \in Seq(Timers) /\ Ordered(armed, trigger) /\ Timers \subseteq Events
          /\ trigger \in [Events -> Nat]
      BY <1>1, ConstantsAssumption DEF Inv, Typed, TimersSound
    <3>2. /\ DOMAIN armed = 1 .. Len(armed) /\ Len(armed) \in Nat /\ i \in 1 .. Len(armed)
          /\ 1 \in 1 .. Len(armed) /\ Head(armed) = armed[1] /\ armed # <<>>
          /\ armed[1] \in Events /\ armed[i] \in Events
      BY <3>1
    <3>3. trigger[armed[1]] \in Nat /\ trigger[armed[i]] \in Nat
      BY <3>1, <3>2
    <3>4. trigger[armed[1]] <= trigger[armed[i]]
      BY <3>1, <3>2, <3>3 DEF Ordered
    <3>5. trigger[armed[1]] <= now'
      BY <1>1, <2>1, <3>3, <3>4
    <3> QED
      BY <3>2, <3>5 DEF Expired
  <2>3. CheckTimer \in All /\ IsSignal(CheckTimer) /\ ~Grouped(CheckTimer)
    BY ConstantsAssumption DEF All, IsSignal, Grouped
  <2>4. /\ \A x \in All : InQueue(queue, x) => InQueue(queue', x)
        /\ count[CheckTimer] = 0 => InQueue(queue', CheckTimer)
    <3>1. /\ registered \in Seq(Signals) /\ IsInjective(registered)
          /\ QueuesSound(queue, pending) /\ count \in [All -> {0, 1}]
      BY <1>1 DEF Inv, Typed, Created
    <3>2. Signal(CheckTimer)
      BY <2>1, <2>2
    <3> QED
      BY <2>3, <3>1, <3>2, SignalEffect
  <2>5. InQueue(queue', CheckTimer)
    BY <1>1, <2>3, <2>4, CheckTimerQueued
  <2> QED
    BY <2>5 DEF InQueue, LevelOf
<1>2. Inv /\ [Next]_vars
        => [now' # now /\ (\E i \in DOMAIN armed : trigger[armed[i]] <= now') =>
              CheckTimer \in ToSet(queue'[TimerLevel])]_vars
  BY <1>1
<1> QED
  BY <1>2, EventInvariant, PTL DEF Spec, TickNotices

-----------------------------------------------------------------------------
(***************************** Closed events *******************************)

\* Only the code at the bottom of the stack closes events, and those it closes
\* are set, waited for and closed by nobody else; their own functions may signal
\* and check them.
BottomCloses ==
  \A closer \in Events \cup {Base}, e \in Events :
    <<closer, "close", e>> \in Uses =>
      /\ closer = Base
      /\ \A who \in Events, call \in Calls :
           <<who, call, e>> \in Uses =>
             call \in {"create", "raise"} \/ (who = e /\ call \in {"signal", "check"})

Closing == {"close", "free"}
Arming  == {"cancel", "relative", "periodic", "time", "insert", "again"}

\* What refers to an event, but for the frame that frees it.
References(a, q, r, s) ==
  ToSet(a) \cup {e \in Events : InQueue(q, e)} \cup ToSet(r) \cup EventsOf(s, Labels \ Freeing)

\* The timers in the list or in the hands of a call that may put them there.
Timed(a, s) == ToSet(a) \cup EventsOf(s, Arming)

\* Closes start at the bottom of the stack.
OnlyBase(s) ==
  \A i \in 1 .. Len(s) :
    s[i].at \in Closing => i = 2 /\ <<Base, "close", s[i].event>> \in Uses

Cancelling(s, e) == Len(s) >= 3 /\ s[3].at = "cancel" /\ s[3].event = e

\* An event that is closed or about to be freed is not referred to; one that is
\* being closed is a timer to cancel, or not armed nor about to be.
CloseInv ==
  /\ OnlyBase(stack)
  /\ \A e \in Events : life[e] = "closed" \/ e \in EventsOf(stack, Freeing) =>
                         e \notin References(armed, queue, registered, stack)
  /\ \A e \in Events : life[e] = "closed" => e \notin EventsOf(stack, Freeing)
  /\ \A e \in EventsOf(stack, {"close"}) : Cancelling(stack, e) \/ e \notin Timed(armed, stack)

\* A stack keeps the calls of CoreSetTimer at its third frame and gets no frame
\* that closes an event.
Keeps(s) ==
  /\ \A i \in 1 .. Len(s) : s[i].at \in Closing => i \in 1 .. Len(stack) /\ s[i] = stack[i]
  /\ Len(stack) >= 3 /\ stack[3].at = "cancel" => Len(s) >= 3 /\ s[3] = stack[3]

\* What keeps the invariant.
LEMMA CloseKept ==
  ASSUME Inv, CloseInv,
         \A i \in 1 .. Len(stack') :
           stack'[i].at \in Closing => i \in 1 .. Len(stack) /\ stack'[i] = stack[i],
         Len(stack) >= 3 /\ stack[3].at = "cancel" =>
           \/ Len(stack') >= 3 /\ stack'[3] = stack[3]
           \/ stack[3].event \notin Timed(armed', stack'),
         \A e \in Events : life'[e] = "closed" => life[e] = "closed",
         \A e \in Events : e \in References(armed', queue', registered', stack') =>
           \/ e \in References(armed, queue, registered, stack)
           \/ life'[e] # "closed" /\ e \notin EventsOf(stack, Freeing),
         \A e \in Events : e \in Timed(armed', stack') =>
           e \in Timed(armed, stack) \/ e \notin EventsOf(stack, {"close"})
  PROVE  CloseInv'
<1>1. EventsOf(stack', Freeing) \subseteq EventsOf(stack, Freeing)
  BY DEF EventsOf, Freeing, Closing
<1>2. EventsOf(stack', {"close"}) \subseteq EventsOf(stack, {"close"})
  BY DEF EventsOf, Closing
<1>3. OnlyBase(stack')
  BY DEF CloseInv, OnlyBase
<1>4. ASSUME NEW e \in Events, life'[e] = "closed" \/ e \in EventsOf(stack', Freeing)
      PROVE  e \notin References(armed', queue', registered', stack')
  <2>1. e \notin References(armed, queue, registered, stack)
    BY <1>1, <1>4 DEF CloseInv
  <2>2. life'[e] = "closed" \/ e \in EventsOf(stack, Freeing)
    BY <1>1, <1>4
  <2> QED
    BY <2>1, <2>2
<1>5. \A e \in Events : life'[e] = "closed" => e \notin EventsOf(stack', Freeing)
  BY <1>1 DEF CloseInv
<1>6. ASSUME NEW e \in EventsOf(stack', {"close"})
      PROVE  Cancelling(stack', e) \/ e \notin Timed(armed', stack')
  <2>1. e \in EventsOf(stack, {"close"})
    BY <1>2
  <2>2. e \in Events
    <3>1. \A i \in 1 .. Len(stack) : FrameOk(stack[i])
      BY DEF Inv, Sound
    <3> QED
      BY <2>1, <3>1 DEF FrameOk, Service, EventsOf
  <2>3. CASE Cancelling(stack, e)
    BY <2>3 DEF Cancelling
  <2>4. CASE e \notin Timed(armed, stack)
    BY <2>1, <2>2, <2>4
  <2> QED
    BY <2>1, <2>3, <2>4 DEF CloseInv
<1> QED
  BY <1>3, <1>4, <1>5, <1>6 DEF CloseInv

\* The ways to change the stack keep what is below.
LEMMA StackKeeps ==
  ASSUME Inv, NEW f \in Frames, NEW h \in Frames, f.at \notin Closing, h.at \notin Closing
  PROVE  /\ Top.at # "cancel" => /\ Keeps(Callers(f)) /\ Keeps(Append(Callers(f), h))
                                 /\ Keeps(Front(stack))
         /\ Keeps(Append(stack, h)) /\ Keeps(Append(Append(stack, f), h))
<1> DEFINE n == Len(stack)
<1>1. /\ stack \in Seq(Frames) /\ stack # <<>> /\ n \in Nat /\ n > 0 /\ Top = stack[n]
  BY TopFacts
<1>2. /\ Front(stack) \in Seq(Frames) /\ Len(Front(stack)) = n - 1
      /\ \A i \in 1 .. n - 1 : Front(stack)[i] = stack[i]
  BY <1>1, FrontOf
<1>3. /\ Callers(f) \in Seq(Frames) /\ Len(Callers(f)) = n /\ Callers(f)[n] = f
      /\ \A i \in 1 .. n - 1 : Callers(f)[i] = stack[i]
  BY <1>1, Gone DEF Callers
<1>4. /\ Len(Append(Callers(f), h)) = n + 1 /\ Append(Callers(f), h)[n + 1] = h
      /\ \A i \in 1 .. n : Append(Callers(f), h)[i] = Callers(f)[i]
  BY <1>3, <1>1
<1>5. /\ Append(stack, f) \in Seq(Frames) /\ Len(Append(stack, f)) = n + 1
      /\ Append(stack, f)[n + 1] = f
      /\ \A i \in 1 .. n : Append(stack, f)[i] = stack[i]
  BY <1>1
<1>6. /\ Len(Append(stack, h)) = n + 1 /\ Append(stack, h)[n + 1] = h
      /\ \A i \in 1 .. n : Append(stack, h)[i] = stack[i]
  BY <1>1
<1>7. /\ Len(Append(Append(stack, f), h)) = n + 2 /\ Append(Append(stack, f), h)[n + 2] = h
      /\ \A i \in 1 .. n + 1 : Append(Append(stack, f), h)[i] = Append(stack, f)[i]
  BY <1>1, <1>5
<1> HIDE DEF n
<1>8. Keeps(Append(stack, h))
  <2> DEFINE s == Append(stack, h)
  <2>1. Len(s) = n + 1 /\ s[n + 1] = h /\ \A i \in 1 .. n : s[i] = stack[i]
    BY <1>6
  <2> HIDE DEF s
  <2> QED
    BY <1>1, <2>1 DEF Keeps, n, s
<1>9. Keeps(Append(Append(stack, f), h))
  <2> DEFINE s == Append(Append(stack, f), h)
  <2>1. /\ Len(s) = n + 2 /\ s[n + 2] = h /\ s[n + 1] = f
        /\ \A i \in 1 .. n : s[i] = stack[i]
    BY <1>1, <1>5, <1>7
  <2> HIDE DEF s
  <2> QED
    BY <1>1, <2>1 DEF Keeps, n, s
<1>10. ASSUME Top.at # "cancel" PROVE Keeps(Callers(f))
  <2> DEFINE s == Callers(f)
  <2>1. /\ Len(s) = n /\ s[n] = f /\ \A i \in 1 .. n - 1 : s[i] = stack[i]
        /\ stack[n].at # "cancel"
    BY <1>1, <1>3, <1>10
  <2> HIDE DEF s
  <2> QED
    BY <1>1, <2>1 DEF Keeps, n, s
<1>11. ASSUME Top.at # "cancel" PROVE Keeps(Append(Callers(f), h))
  <2> DEFINE s == Append(Callers(f), h)
  <2>1. /\ Len(s) = n + 1 /\ s[n] = f /\ s[n + 1] = h /\ \A i \in 1 .. n - 1 : s[i] = stack[i]
        /\ stack[n].at # "cancel"
    BY <1>1, <1>3, <1>4, <1>11
  <2> HIDE DEF s
  <2> QED
    BY <1>1, <2>1 DEF Keeps, n, s
<1>12. ASSUME Top.at # "cancel" PROVE Keeps(Front(stack))
  <2> DEFINE s == Front(stack)
  <2>1. /\ Len(s) = n - 1 /\ \A i \in 1 .. n - 1 : s[i] = stack[i]
        /\ stack[n].at # "cancel"
    BY <1>1, <1>2, <1>12
  <2> HIDE DEF s
  <2> QED
    BY <1>1, <2>1 DEF Keeps, n, s
<1> QED
  BY <1>8, <1>9, <1>10, <1>11, <1>12

\* The events that a step may give to a list or a frame.
Known(e) ==
  \/ e \in References(armed, queue, registered, stack)
  \/ life'[e] # "closed" /\ e \notin EventsOf(stack, Freeing)

\* Those that it may give to the timer list or to a call that arms it.
Settable(e) == e \in Timed(armed, stack) \/ e \notin EventsOf(stack, {"close"})

\* A step that closes nothing.
LEMMA CloseMoved ==
  ASSUME Inv, CloseInv, NEW f \in Frames, NEW h \in Frames,
         f.at \notin Closing, h.at \notin Closing,
         \/ /\ Top.at # "cancel"
            /\ stack' \in {stack, Callers(f), Append(Callers(f), h), Front(stack)}
         \/ stack' \in {Append(stack, h), Append(Append(stack, f), h)},
         \A e \in Events : life'[e] = "closed" => life[e] = "closed",
         \A e \in Events :
           (\/ e = f.event \/ e = h.event \/ e \in ToSet(armed') \/ InQueue(queue', e)
            \/ e \in ToSet(registered'))
           => Known(e),
         \A e \in Events :
           (\/ e = f.event /\ f.at \in Arming
            \/ e = h.event /\ h.at \in Arming
            \/ e \in ToSet(armed'))
           => Settable(e)
  PROVE  CloseInv'
<1>1. Keeps(stack')
  <2>1. CASE stack' = stack
    BY <2>1 DEF Keeps
  <2>2. CASE /\ Top.at # "cancel"
             /\ stack' \in {Callers(f), Append(Callers(f), h), Front(stack)}
    <3>1. Keeps(Callers(f)) /\ Keeps(Append(Callers(f), h)) /\ Keeps(Front(stack))
      BY <2>2, StackKeeps
    <3> QED
      BY <2>2, <3>1
  <2>3. CASE stack' \in {Append(stack, h), Append(Append(stack, f), h)}
    <3>1. Keeps(Append(stack, h)) /\ Keeps(Append(Append(stack, f), h))
      BY StackKeeps
    <3> QED
      BY <2>3, <3>1
  <2> QED
    BY <2>1, <2>2, <2>3
<1>2. \A L : EventsOf(stack', L) \subseteq EventsOf(stack, L) \cup One(f, L) \cup One(h, L)
  <2> SUFFICES ASSUME NEW L
               PROVE  EventsOf(stack', L) \subseteq EventsOf(stack, L) \cup One(f, L) \cup One(h, L)
    OBVIOUS
  <2>1. /\ EventsOf(stack, L) = EventsOf(Front(stack), L) \cup One(Top, L)
        /\ EventsOf(Callers(f), L) = EventsOf(Front(stack), L) \cup One(f, L)
        /\ EventsOf(Append(Callers(f), h), L)
             = EventsOf(Front(stack), L) \cup One(f, L) \cup One(h, L)
        /\ EventsOf(Append(stack, h), L) = EventsOf(stack, L) \cup One(h, L)
        /\ EventsOf(Append(Append(stack, f), h), L)
             = EventsOf(stack, L) \cup One(f, L) \cup One(h, L)
    BY EventsAfter
  <2>2. stack' \in {stack, Callers(f), Append(Callers(f), h), Front(stack), Append(stack, h),
                    Append(Append(stack, f), h)}
    OBVIOUS
  <2> QED
    BY <2>1, <2>2
<1>3. \A L : One(f, L) \subseteq {f.event} /\ One(h, L) \subseteq {h.event}
  BY DEF One
<1>4. ASSUME NEW e \in Events, e \in References(armed', queue', registered', stack')
      PROVE  \/ e \in References(armed, queue, registered, stack)
             \/ life'[e] # "closed" /\ e \notin EventsOf(stack, Freeing)
  <2>1. CASE e \in EventsOf(stack, Labels \ Freeing)
    BY <2>1 DEF References
  <2>2. CASE e \notin EventsOf(stack, Labels \ Freeing)
    <3>1. e \in EventsOf(stack', Labels \ Freeing) => e = f.event \/ e = h.event
      BY <1>2, <1>3, <2>2
    <3> QED
      BY <1>4, <3>1 DEF References, Known
  <2> QED
    BY <2>1, <2>2
<1>5. ASSUME NEW e \in Events, e \in Timed(armed', stack')
      PROVE  e \in Timed(armed, stack) \/ e \notin EventsOf(stack, {"close"})
  <2>1. CASE e \in EventsOf(stack, Arming)
    BY <2>1 DEF Timed
  <2>2. CASE e \notin EventsOf(stack, Arming)
    <3>1. e \in EventsOf(stack', Arming) => \/ e = f.event /\ f.at \in Arming
                                            \/ e = h.event /\ h.at \in Arming
      BY <1>2, <2>2 DEF One
    <3> QED
      BY <1>5, <3>1 DEF Timed, Settable
  <2> QED
    BY <2>1, <2>2
<1> QED
  BY <1>1, <1>4, <1>5, CloseKept DEF Keeps

\* The event of the frame that runs is referred to.
LEMMA TopKnown ==
  ASSUME Inv
  PROVE  /\ Top.event \in Events /\ Top.at \notin Freeing => Known(Top.event)
         /\ Top.event \in Events /\ Top.at \in Arming => Settable(Top.event)
         /\ \A e \in Events : e \in ToSet(armed) \/ InQueue(queue, e) \/ e \in ToSet(registered)
              => Known(e)
         /\ \A e \in Events : e \in ToSet(armed) => Settable(e)
<1>1. \A L : Top.at \in L => Top.event \in EventsOf(stack, L)
  <2>1. Len(stack) \in 1 .. Len(stack) /\ Top = stack[Len(stack)]
    BY TopFacts
  <2> QED
    BY <2>1 DEF EventsOf
<1>2. Top.at \in Labels
  BY TopFacts
<1> QED
  BY <1>1, <1>2 DEF Known, Settable, References, Timed

\* Steps that change no list and no life, and whose frames have no other event.
LEMMA CloseQuiet ==
  ASSUME Inv, CloseInv, NEW f \in Frames, NEW h \in Frames,
         f.at \notin Closing, h.at \notin Closing,
         Top.at \notin {"cancel", "free"} \/ stack' = Append(stack, h),
         stack' \in {stack, Callers(f), Append(Callers(f), h), Front(stack), Append(stack, h)},
         f.event \in {Top.event, CheckTimer}, h.event \in {Top.event, CheckTimer},
         Top.at \in Freeing => h.event = CheckTimer /\ f.event = CheckTimer,
         f.at \in Arming => Top.at \in Arming, h.at \in Arming => Top.at \in Arming,
         life' = life, armed' = armed, registered' = registered,
         \A e \in Events : InQueue(queue', e) => InQueue(queue, e)
  PROVE  CloseInv'
<1>1. CheckTimer \notin Events
  BY ConstantsAssumption
<1>2. \A e \in Events :
           (\/ e = f.event \/ e = h.event \/ e \in ToSet(armed') \/ InQueue(queue', e)
            \/ e \in ToSet(registered'))
           => Known(e)
  BY <1>1, TopKnown
<1>3. \A e \in Events :
           (\/ e = f.event /\ f.at \in Arming
            \/ e = h.event /\ h.at \in Arming
            \/ e \in ToSet(armed'))
           => Settable(e)
  BY <1>1, TopKnown
<1> QED
  BY <1>2, <1>3, CloseMoved

\* Frames that have no event of a driver's in hand.
LEMMA IdleFrame ==
  ASSUME NEW level \in Levels
  PROVE  /\ Restore(level) \in Frames /\ Restore(level).event = CheckTimer
         /\ Restore(level).at = "restore"
         /\ Restore(level).at \notin Closing /\ Restore(level).at \notin Arming
         /\ Application \in Levels
BY RestoreFrame DEF Restore, Frame, Closing, Arming, Levels

\* RestoreTPL.
LEMMA CloseRestoreTpl ==
  ASSUME Inv, CloseInv, RestoreTpl
  PROVE  CloseInv'
<1> DEFINE r == Restore(Application)
           h == Frame("dispatch", Highest(pending), CheckTimer, 0)
           f == [Top EXCEPT !.at = "lower"]
<1>1. r \in Frames /\ r.event = CheckTimer /\ r.at \notin Closing /\ r.at \notin Arming
  <2>1. Application \in Levels
    BY DEF Levels
  <2> QED
    BY <2>1, IdleFrame
<1>2. Top \in Frames /\ pending \subseteq Levels /\ Top.at \in {"restore", "lower"}
  BY TopFacts DEF Inv, QueuesSound, RestoreTpl, RestoreDispatch, RestoreDone, RestoreLower, At
<1>3. Top.at \notin {"cancel", "free"} /\ Top.at \notin Closing /\ Top.at \notin Arming
      /\ Top.at \notin Freeing
  BY <1>2 DEF Closing, Arming, Freeing
<1> HIDE DEF r
<1>4. life' = life /\ armed' = armed /\ registered' = registered /\ queue' = queue
  BY DEF RestoreTpl, RestoreDispatch, RestoreDone, RestoreLower, notifying, timing
<1>5. CASE RestoreDispatch
  <2>1. h \in Frames /\ h.event = CheckTimer /\ h.at = "dispatch"
    <3>1. Highest(pending) \in Levels
      <4>1. pending # {}
        BY <1>5 DEF RestoreDispatch, Unmasked
      <4> QED
        BY <1>2, <4>1, HighestOf
    <3> QED
      BY <3>1 DEF Frame, Frames, Labels, All
  <2>2. stack' = Append(Callers(Top), h)
    BY <1>5 DEF RestoreDispatch, Call
  <2> HIDE DEF h
  <2> QED
    BY <1>2, <1>3, <1>4, <2>1, <2>2, CloseQuiet DEF Closing, Arming
<1>6. CASE RestoreDone
  <2>1. f \in Frames /\ f.event = Top.event /\ f.at = "lower"
    BY <1>2 DEF Frames, Labels
  <2>2. stack' = Callers(f)
    BY <1>6 DEF RestoreDone, Goto
  <2> HIDE DEF f
  <2> QED
    BY <1>1, <1>2, <1>3, <1>4, <2>1, <2>2, CloseQuiet DEF Closing, Arming
<1>7. CASE RestoreLower
  <2>1. stack' = Front(stack)
    BY <1>7 DEF RestoreLower, Return
  <2> QED
    BY <1>1, <1>2, <1>3, <1>4, <2>1, CloseQuiet
<1> QED
  BY <1>5, <1>6, <1>7 DEF RestoreTpl

\* The dispatcher.
LEMMA CloseDispatch ==
  ASSUME Inv, CloseInv, Dispatch
  PROVE  CloseInv'
<1> DEFINE l == Top.tpl
<1>1. /\ Top \in Frames /\ l \in Levels /\ Top.at \in {"dispatch", "notify"}
      /\ Top.event \in All \cup {Base}
  BY TopFacts DEF Dispatch, DispatchNext, DispatchNotify, DispatchEnd, At
<1>2. Top.at \notin {"cancel", "free"} /\ Top.at \notin Closing /\ Top.at \notin Arming
      /\ Top.at \notin Freeing
  BY <1>1 DEF Closing, Arming, Freeing
<1>3. life' = life /\ armed' = armed /\ registered' = registered
  BY DEF Dispatch, DispatchNext, DispatchNotify, DispatchEnd, timing
<1> DEFINE r == Restore(l)
<1>4. /\ r \in Frames /\ r.event = CheckTimer /\ r.at \notin Closing /\ r.at \notin Arming
  BY <1>1, IdleFrame
<1> HIDE DEF r
<1>5. CASE DispatchNext
  <2> DEFINE e == Head(queue[l])
             f == [Top EXCEPT !.at = "notify", !.event = e]
  <2>1. /\ queue[l] # <<>> /\ stack' = Append(Callers(f), r)
        /\ queue' = [queue EXCEPT ![l] = Tail(@)]
    BY <1>5 DEF DispatchNext, Call, r
  <2>2. /\ queue[l] \in Seq(All) /\ IsInjective(queue[l]) /\ queue \in [Levels -> Seq(All)]
        /\ \A x \in ToSet(queue[l]) : LevelOf(x) = l
    BY <1>1 DEF Inv, QueuesSound
  <2>3. /\ e \in All /\ e \in ToSet(queue[l]) /\ LevelOf(e) = l
        /\ ToSet(Tail(queue[l])) = ToSet(queue[l]) \ {e}
    BY <2>1, <2>2, Taken
  <2> HIDE DEF e
  <2>4. f \in Frames /\ f.at = "notify" /\ f.event = e
    BY <1>1, <2>3 DEF Frames, Labels
  <2> HIDE DEF f
  <2>5. InQueue(queue, e)
    BY <2>3 DEF InQueue
  <2>6. \A x \in Events : InQueue(queue', x) => InQueue(queue, x)
    <3>1. \A x \in Events : LevelOf(x) \in Levels
      BY LevelNumbers DEF All
    <3>2. /\ queue'[l] = Tail(queue[l])
          /\ \A level \in Levels : level # l => queue'[level] = queue[level]
      BY <1>1, <2>1, <2>2
    <3> QED
      BY <2>3, <3>1, <3>2 DEF InQueue
  <2>7. \A x \in Events :
           (\/ x = f.event \/ x = r.event \/ x \in ToSet(armed') \/ InQueue(queue', x)
            \/ x \in ToSet(registered'))
           => Known(x)
    BY <1>3, <1>4, <2>4, <2>5, <2>6, TopKnown, ConstantsAssumption
  <2>8. \A x \in Events :
           (\/ x = f.event /\ f.at \in Arming
            \/ x = r.event /\ r.at \in Arming
            \/ x \in ToSet(armed'))
           => Settable(x)
    BY <1>3, <1>4, <2>4, TopKnown DEF Arming
  <2>9. f.at \notin Closing
    BY <2>4 DEF Closing
  <2> QED
    BY <1>2, <1>3, <1>4, <2>1, <2>4, <2>7, <2>8, <2>9, CloseMoved
<1>6. CASE DispatchNotify
  <2> DEFINE e == Top.event
             f == [Top EXCEPT !.at = "dispatch"]
             h == Frame(IF e = CheckTimer THEN "timers" ELSE "code", LevelOf(e), e, 0)
  <2>1. stack' = Append(Callers(f), h) /\ queue' = queue /\ Top.at = "notify"
    BY <1>6 DEF DispatchNotify, Call, notifying, At
  <2>2. f \in Frames /\ f.at = "dispatch" /\ f.event = Top.event
    BY <1>1 DEF Frames, Labels
  <2>3. LevelOf(e) \in Levels
    <3>1. e # Base
      BY <2>1, TopFacts DEF FrameOk
    <3> QED
      BY <1>1, <3>1, LevelNumbers
  <2>4. h \in Frames /\ h.at \in {"timers", "code"} /\ h.event = Top.event
    BY <1>1, <2>3 DEF Frame, Frames, Labels
  <2> HIDE DEF f, h, e
  <2>5. f.at \notin Closing /\ h.at \notin Closing /\ f.at \notin Arming /\ h.at \notin Arming
    BY <2>2, <2>4 DEF Closing, Arming
  <2> QED
    BY <1>2, <1>3, <2>1, <2>2, <2>4, <2>5, CloseQuiet
<1>7. CASE DispatchEnd
  <2>1. stack' = Callers(r) /\ queue' = queue
    BY <1>7 DEF DispatchEnd, Goto, r
  <2> QED
    BY <1>2, <1>3, <1>4, <2>1, CloseQuiet
<1> QED
  BY <1>5, <1>6, <1>7 DEF Dispatch

\* A timer that a frame has in hand is put into the list.
LEMMA AgainElements ==
  ASSUME Inv, Top.at \in {"again", "insert"}, NEW time \in Int,
         armed' = Insert(Top.event, time)
  PROVE  ToSet(armed') = ToSet(armed) \cup {Top.event}
<1> DEFINE e == Top.event
           f == [x \in Timers |-> IF x = e THEN time ELSE trigger[x]]
<1>1. e \in Timers /\ Timers \subseteq Events
  BY TopFacts, ConstantsAssumption DEF FrameOk, SettingTimer
<1>2. e \in EventsOf(stack, Holding)
  <2>1. Len(stack) \in 1 .. Len(stack) /\ Top = stack[Len(stack)]
    BY TopFacts
  <2> QED
    BY <2>1 DEF EventsOf, Holding
<1>3. /\ armed \in Seq(Timers) /\ IsInjective(armed) /\ e \notin ToSet(armed)
      /\ Ordered(armed, trigger) /\ armed' = Insert(e, time)
  BY <1>2 DEF Inv, Typed, TimersSound
<1>4. \A x \in Timers : trigger[x] \in Int
  BY <1>1 DEF Inv, Typed
<1>5. /\ \A x \in Timers : x # e => f[x] = trigger[x]
      /\ f[e] = time
  BY <1>1
<1> HIDE DEF e, f
<1>6. ToSet(Insert(e, time)) = ToSet(armed) \cup {e}
  BY <1>1, <1>3, <1>4, <1>5, Inserted
<1> QED
  BY <1>3, <1>6 DEF e

\* What CoreSignalEvent queues is the event or registered.
LEMMA SignalKnown ==
  ASSUME Inv, NEW e \in All, Signal(e) \/ UNCHANGED notifying
  PROVE  \A x \in Events : InQueue(queue', x) =>
           InQueue(queue, x) \/ x = e \/ x \in ToSet(registered)
<1>1. CASE Signal(e)
  <2>1. /\ registered \in Seq(Signals) /\ IsInjective(registered)
        /\ QueuesSound(queue, pending) /\ count \in [All -> {0, 1}]
    BY DEF Inv, Typed, Created
  <2>2. \A x \in All : InQueue(queue', x) =>
                         InQueue(queue, x) \/ x \in {e} \cup ToSet(registered)
    BY <1>1, <2>1, SignalEffect
  <2> QED
    BY <2>2 DEF All
<1>2. CASE UNCHANGED notifying
  BY <1>2 DEF notifying
<1> QED
  BY <1>1, <1>2

\* The tick.
LEMMA CloseTick ==
  ASSUME Inv, CloseInv, TimerTick
  PROVE  CloseInv'
<1> DEFINE r == Restore(tpl)
<1>1. r \in Frames /\ r.event = CheckTimer /\ r.at \notin Closing /\ r.at \notin Arming
  BY TopFacts, IdleFrame
<1>2. stack' = Append(stack, r) /\ life' = life /\ armed' = armed /\ registered' = registered
  BY DEF TimerTick, timing
<1> HIDE DEF r
<1>3. CheckTimer \in All /\ CheckTimer \notin Events
  BY ConstantsAssumption DEF All
<1>4. \A x \in Events : InQueue(queue', x) => InQueue(queue, x) \/ x \in ToSet(registered)
  <2>1. Signal(CheckTimer) \/ UNCHANGED notifying
    BY DEF TimerTick
  <2> QED
    BY <1>3, <2>1, SignalKnown
<1>5. \A x \in Events :
         (\/ x = r.event \/ x = r.event \/ x \in ToSet(armed') \/ InQueue(queue', x)
          \/ x \in ToSet(registered'))
         => Known(x)
  BY <1>1, <1>2, <1>3, <1>4, TopKnown
<1>6. \A x \in Events :
         (\/ x = r.event /\ r.at \in Arming
          \/ x = r.event /\ r.at \in Arming
          \/ x \in ToSet(armed'))
         => Settable(x)
  BY <1>1, <1>2, TopKnown
<1> QED
  BY <1>1, <1>2, <1>5, <1>6, CloseMoved

\* The function of CheckTimer.
LEMMA CloseCheckTimers ==
  ASSUME Inv, CloseInv, CheckTimers
  PROVE  CloseInv'
<1>1. Top \in Frames /\ Top.at \in {"timers", "expire", "again"}
  BY TopFacts DEF CheckTimers, CheckTimersStart, CheckTimersExpire, CheckTimersAgain,
     CheckTimersEnd, At
<1>2. Top.at \notin {"cancel", "free"} /\ Top.at \notin Closing /\ Top.at \notin Freeing
  BY <1>1 DEF Closing, Freeing
<1>3. life' = life /\ registered' = registered
  BY DEF CheckTimers, CheckTimersStart, CheckTimersExpire, CheckTimersAgain, CheckTimersEnd
<1> DEFINE r == Restore(Application)
<1>4. r \in Frames /\ r.event = CheckTimer /\ r.at \notin Closing /\ r.at \notin Arming
  <2>1. Application \in Levels
    BY DEF Levels
  <2> QED
    BY <2>1, IdleFrame
<1> HIDE DEF r
<1>5. /\ CheckTimer \in All /\ CheckTimer \notin Events /\ Events \subseteq All
      /\ Timers \subseteq Events
  BY ConstantsAssumption DEF All
<1>6. CASE CheckTimersStart
  <2> DEFINE f == [Top EXCEPT !.at = "expire", !.time = now]
  <2>1. f \in Frames /\ f.at = "expire" /\ f.event = Top.event
    <3>1. now \in Nat
      BY ConstantsAssumption DEF Inv, Typed
    <3> QED
      BY <1>1, <3>1 DEF Frames, Labels
  <2>2. stack' = Callers(f) /\ armed' = armed /\ queue' = queue
    BY <1>6 DEF CheckTimersStart, Goto, notifying, timing
  <2> HIDE DEF f
  <2>3. f.at \notin Closing /\ f.at \notin Arming
    BY <2>1 DEF Closing, Arming
  <2> QED
    BY <1>2, <1>3, <1>4, <2>1, <2>2, <2>3, CloseQuiet
<1>7. CASE CheckTimersEnd
  <2>1. stack' = Front(stack) /\ armed' = armed /\ queue' = queue
    BY <1>7 DEF CheckTimersEnd, Return, notifying, timing
  <2> QED
    BY <1>2, <1>3, <1>4, <2>1, CloseQuiet
<1>8. CASE CheckTimersExpire
  <2> DEFINE e == Head(armed)
             f == [Top EXCEPT !.at = "again", !.event = e]
  <2>1. /\ armed # <<>> /\ armed' = Tail(armed) /\ Signal(e) /\ stack' \in {stack, Callers(f)}
    BY <1>8 DEF CheckTimersExpire, Goto, Expired
  <2>2. armed \in Seq(Timers) /\ IsInjective(armed)
    BY DEF Inv, Typed, TimersSound
  <2>3. /\ e \in Timers /\ e \in ToSet(armed) /\ ToSet(armed') = ToSet(armed) \ {e}
    BY <2>1, <2>2, Taken
  <2> HIDE DEF e
  <2>4. f \in Frames /\ f.at = "again" /\ f.event = e
    BY <1>1, <1>5, <2>3 DEF Frames, Labels
  <2> HIDE DEF f
  <2>5. \A x \in Events : InQueue(queue', x) =>
          InQueue(queue, x) \/ x = e \/ x \in ToSet(registered)
    BY <1>5, <2>1, <2>3, SignalKnown
  <2>6. \A x \in Events :
           (\/ x = f.event \/ x = r.event \/ x \in ToSet(armed') \/ InQueue(queue', x)
            \/ x \in ToSet(registered'))
           => Known(x)
    BY <1>3, <1>4, <1>5, <2>3, <2>4, <2>5, TopKnown
  <2>7. \A x \in Events :
           (\/ x = f.event /\ f.at \in Arming
            \/ x = r.event /\ r.at \in Arming
            \/ x \in ToSet(armed'))
           => Settable(x)
    BY <1>4, <2>3, <2>4, TopKnown
  <2>8. f.at \notin Closing
    BY <2>4 DEF Closing
  <2> QED
    BY <1>2, <1>3, <1>4, <2>1, <2>6, <2>7, <2>8, <2>4, CloseMoved
<1>9. CASE CheckTimersAgain
  <2> DEFINE e == Top.event
             f == [Top EXCEPT !.at = "expire", !.event = CheckTimer]
  <2>1. /\ Top.at = "again" /\ stack' = Callers(f)
        /\ armed' = Insert(e, NextTrigger(e, Top.time))
        /\ Signal(CheckTimer) \/ UNCHANGED notifying
    BY <1>9 DEF CheckTimersAgain, Goto, Again, At
  <2>2. f \in Frames /\ f.at = "expire" /\ f.event = CheckTimer
    BY <1>1, <1>5 DEF Frames, Labels
  <2>3. Top.at \in Arming /\ e \in Events /\ e \in Timers
    BY <1>5, <2>1, TopFacts DEF Arming, FrameOk
  <2>4. ToSet(armed') \subseteq ToSet(armed) \cup {e}
    <3>1. NextTrigger(e, Top.time) \in Int
      BY <2>3, TopFacts DEF NextTrigger, Inv, Typed
    <3> QED
      BY <2>1, <3>1, AgainElements
  <2> HIDE DEF f
  <2>5. \A x \in Events : InQueue(queue', x) => InQueue(queue, x) \/ x \in ToSet(registered)
    BY <1>5, <2>1, SignalKnown
  <2>6. Known(e) /\ Settable(e)
    BY <1>2, <2>3, TopKnown
  <2>7. \A x \in Events :
           (\/ x = f.event \/ x = r.event \/ x \in ToSet(armed') \/ InQueue(queue', x)
            \/ x \in ToSet(registered'))
           => Known(x)
    BY <1>3, <1>4, <1>5, <2>2, <2>4, <2>5, <2>6, TopKnown
  <2>8. \A x \in Events :
           (\/ x = f.event /\ f.at \in Arming
            \/ x = r.event /\ r.at \in Arming
            \/ x \in ToSet(armed'))
           => Settable(x)
    BY <1>4, <1>5, <2>2, <2>4, <2>6, TopKnown
  <2>9. f.at \notin Closing
    BY <2>2 DEF Closing
  <2> QED
    BY <1>2, <1>3, <1>4, <2>1, <2>2, <2>7, <2>8, <2>9, CloseMoved
<1> QED
  BY <1>6, <1>7, <1>8, <1>9 DEF CheckTimers

\* The timer that CoreCloseEvent cancels is in the list no more, and no other
\* call has it in hand.
LEMMA CancelDone ==
  ASSUME Inv, CloseInv, SetTimerRemove, Top.at = "cancel"
  PROVE  CloseInv'
<1> DEFINE e == Top.event
           f == Restore(Top.tpl)
           n == Len(stack)
<1>1. /\ stack' = Callers(f) /\ armed' = Without(armed, {e})
      /\ life' = life /\ registered' = registered /\ queue' = queue
  BY DEF SetTimerRemove, Goto, notifying
<1>2. f \in Frames /\ f.event = CheckTimer /\ f.at = "restore"
  BY TopFacts, IdleFrame
<1>3. ToSet(armed') = ToSet(armed) \ {e}
  BY <1>1, WithoutThem DEF Inv, Typed
<1>4. /\ stack \in Seq(Frames) /\ stack # <<>> /\ n \in Nat /\ n > 0 /\ Top = stack[n]
  BY TopFacts
<1>5. /\ Len(stack') = n /\ stack'[n] = f /\ \A i \in 1 .. n - 1 : stack'[i] = stack[i]
  BY <1>1, <1>2, <1>4, Gone DEF Callers
<1> HIDE DEF f
<1>6. \A i \in 1 .. n - 1 : stack[i].at \notin Holders
  <2>1. n \in 1 .. Len(stack) /\ stack[n].at \in Holders
    BY <1>4 DEF Holders, SettingTimer
  <2>2. \A j \in 1 .. Len(stack) : stack[j].at \in Holders => n = j
    BY <2>1, SoundLock DEF Inv
  <2> QED
    BY <1>4, <2>2
<1> HIDE DEF n
<1>7. Arming \subseteq Holders /\ "restore" \notin Arming /\ "restore" \notin Closing
  BY DEF Arming, Holders, SettingTimer, Closing
<1>8. EventsOf(stack', Arming) = {}
  <2>1. \A i \in 1 .. n : stack'[i].at \notin Arming
    BY <1>2, <1>4, <1>5, <1>6, <1>7
  <2> QED
    BY <1>5, <2>1 DEF EventsOf
<1>9. \A i \in 1 .. Len(stack') :
        stack'[i].at \in Closing => i \in 1 .. Len(stack) /\ stack'[i] = stack[i]
  <2> SUFFICES ASSUME NEW i \in 1 .. n, stack'[i].at \in Closing PROVE stack'[i] = stack[i]
    BY <1>5 DEF n
  <2> QED
    BY <1>2, <1>4, <1>5, <1>7
<1>10. n >= 3 /\ stack[3].at = "cancel" =>
         \/ Len(stack') >= 3 /\ stack'[3] = stack[3]
         \/ stack[3].event \notin Timed(armed', stack')
  <2> SUFFICES ASSUME n >= 3
               PROVE  \/ Len(stack') >= 3 /\ stack'[3] = stack[3]
                      \/ stack[3].event \notin Timed(armed', stack')
    OBVIOUS
  <2>1. CASE n = 3
    <3>1. stack[3].event = e
      BY <1>4, <2>1
    <3> QED
      BY <1>3, <1>8, <3>1 DEF Timed
  <2>2. CASE n # 3
    BY <1>4, <1>5, <2>2
  <2> QED
    BY <2>1, <2>2
<1>11. \A x \in Events : x \in References(armed', queue', registered', stack') =>
         x \in References(armed, queue, registered, stack)
  <2>1. /\ EventsOf(stack, Labels \ Freeing)
             = EventsOf(Front(stack), Labels \ Freeing) \cup One(Top, Labels \ Freeing)
        /\ EventsOf(Callers(f), Labels \ Freeing)
             = EventsOf(Front(stack), Labels \ Freeing) \cup One(f, Labels \ Freeing)
    BY <1>2, EventsAfter
  <2>2. One(f, Labels \ Freeing) \subseteq {CheckTimer} /\ CheckTimer \notin Events
    BY <1>2, ConstantsAssumption DEF One
  <2> QED
    BY <1>1, <1>3, <2>1, <2>2 DEF References
<1>12. \A x \in Events : x \in Timed(armed', stack') => x \in Timed(armed, stack)
  BY <1>3, <1>8 DEF Timed
<1> QED
  BY <1>1, <1>9, <1>10, <1>11, <1>12, CloseKept DEF n

\* CoreSetTimer.
LEMMA CloseSetTimer ==
  ASSUME Inv, CloseInv, SetTimer
  PROVE  CloseInv'
<1> DEFINE e == Top.event
           r == Restore(Top.tpl)
<1>1. Top \in Frames /\ Top.at \in SettingTimer
  BY TopFacts DEF SetTimer, SetTimerRemove, SetTimerTime, SetTimerInsert, At, SettingTimer
<1>2. /\ e \in Events /\ Top.at \in Arming /\ Top.at \notin Freeing
  BY <1>1, TopFacts DEF FrameOk, Service, SettingTimer, Arming, Freeing
<1>3. Known(e) /\ Settable(e)
  BY <1>2, TopKnown
<1>4. r \in Frames /\ r.event = CheckTimer /\ r.at \notin Closing /\ r.at \notin Arming
  BY TopFacts, IdleFrame
<1>5. CheckTimer \in All /\ CheckTimer \notin Events
  BY ConstantsAssumption DEF All
<1>6. life' = life /\ registered' = registered
  BY DEF SetTimer, SetTimerRemove, SetTimerTime, SetTimerInsert
<1> HIDE DEF r
<1>7. CASE SetTimerRemove /\ Top.at # "cancel"
  <2> DEFINE delay == IF Top.at = "periodic" /\ Top.time = 0 THEN 1 ELSE Top.time
             f == [Top EXCEPT !.at = "time", !.time = delay]
  <2>1. stack' = Callers(f) /\ armed' = Without(armed, {e}) /\ queue' = queue
    BY <1>7 DEF SetTimerRemove, Goto, notifying
  <2>2. f \in Frames /\ f.at = "time" /\ f.event = e
    <3>1. delay \in Nat
      BY TopFacts
    <3> HIDE DEF delay
    <3> QED
      BY <1>1, <3>1 DEF Frames, Labels
  <2> HIDE DEF f
  <2>3. ToSet(armed') \subseteq ToSet(armed)
    BY <2>1, WithoutThem DEF Inv, Typed
  <2> HIDE DEF e
  <2>4. \A x \in Events :
           (\/ x = f.event \/ x = r.event \/ x \in ToSet(armed') \/ InQueue(queue', x)
            \/ x \in ToSet(registered'))
           => Known(x)
    BY <1>3, <1>4, <1>5, <1>6, <2>1, <2>2, <2>3, TopKnown
  <2>5. \A x \in Events :
           (\/ x = f.event /\ f.at \in Arming
            \/ x = r.event /\ r.at \in Arming
            \/ x \in ToSet(armed'))
           => Settable(x)
    BY <1>3, <1>4, <2>2, <2>3, TopKnown
  <2>6. f.at \notin Closing
    BY <2>2 DEF Closing
  <2> QED
    BY <1>4, <1>6, <1>7, <2>1, <2>2, <2>4, <2>5, <2>6, CloseMoved
<1>8. CASE SetTimerTime
  <2> DEFINE f == [Top EXCEPT !.at = "insert"]
  <2>1. stack' = Callers(f) /\ armed' = armed /\ queue' = queue /\ Top.at = "time"
    BY <1>8 DEF SetTimerTime, Goto, notifying, At
  <2>2. f \in Frames /\ f.at = "insert" /\ f.event = Top.event
    BY <1>1 DEF Frames, Labels
  <2> HIDE DEF f
  <2>3. f.at \notin Closing
    BY <2>2 DEF Closing
  <2> QED
    BY <1>2, <1>4, <1>6, <2>1, <2>2, <2>3, CloseQuiet
<1>9. CASE SetTimerInsert
  <2>1. /\ Top.at = "insert" /\ stack' = Callers(r) /\ armed' = Insert(e, trigger[e])
        /\ Signal(CheckTimer) \/ UNCHANGED notifying
    BY <1>9 DEF SetTimerInsert, Goto, At, r
  <2>2. ToSet(armed') = ToSet(armed) \cup {e}
    <3>1. trigger[e] \in Int
      BY <1>2 DEF Inv, Typed
    <3> QED
      BY <2>1, <3>1, AgainElements
  <2>3. \A x \in Events : InQueue(queue', x) => InQueue(queue, x) \/ x \in ToSet(registered)
    BY <1>5, <2>1, SignalKnown
  <2> HIDE DEF e
  <2>4. \A x \in Events :
           (\/ x = r.event \/ x = r.event \/ x \in ToSet(armed') \/ InQueue(queue', x)
            \/ x \in ToSet(registered'))
           => Known(x)
    BY <1>3, <1>4, <1>5, <1>6, <2>2, <2>3, TopKnown
  <2>5. \A x \in Events :
           (\/ x = r.event /\ r.at \in Arming
            \/ x = r.event /\ r.at \in Arming
            \/ x \in ToSet(armed'))
           => Settable(x)
    BY <1>3, <1>4, <2>2, TopKnown
  <2> QED
    BY <1>4, <1>6, <2>1, <2>4, <2>5, CloseMoved
<1> QED
  BY <1>7, <1>8, <1>9, CancelDone DEF SetTimer

\* What a service leaves to be done.
LEMMA CloseServices ==
  ASSUME Inv, CloseInv, SignalGroup \/ CheckEventAgain
  PROVE  CloseInv'
<1> DEFINE e == Top.event
           r == Restore(Top.tpl)
<1>1. Top \in Frames /\ Top.at \in {"group", "consume"}
  BY TopFacts DEF SignalGroup, CheckEventAgain, At
<1>2. e \in Events /\ Top.at \notin {"cancel", "free"} /\ Top.at \notin Freeing
  BY <1>1, TopFacts DEF FrameOk, Service, Freeing
<1>3. r \in Frames /\ r.event = CheckTimer /\ r.at \notin Closing /\ r.at \notin Arming
  BY TopFacts, IdleFrame
<1>4. life' = life /\ armed' = armed /\ registered' = registered
  BY DEF SignalGroup, CheckEventAgain, timing
<1>5. CASE SignalGroup
  <2>1. stack' = Callers(r) /\ NotifyEvents(Members(e))
    BY <1>5 DEF SignalGroup, Goto
  <2>2. e \in All /\ Events \subseteq All /\ CheckTimer \notin Events
    BY <1>2, ConstantsAssumption DEF All
  <2>3. /\ Members(e) \in Seq(All) /\ IsInjective(Members(e))
        /\ ToSet(Members(e)) \subseteq {e} \cup ToSet(registered)
    BY <2>2, MembersOf DEF Inv, Typed, Created
  <2>4. Known(e)
    BY <1>2, TopKnown
  <2> HIDE DEF r, e
  <2>5. \A x \in All : InQueue(queue', x) <=> InQueue(queue, x) \/ x \in ToSet(Members(e))
    BY <2>1, <2>3, Notified DEF Inv
  <2>6. \A x \in Events :
           (\/ x = r.event \/ x = r.event \/ x \in ToSet(armed') \/ InQueue(queue', x)
            \/ x \in ToSet(registered'))
           => Known(x)
    BY <1>3, <1>4, <2>2, <2>3, <2>4, <2>5, TopKnown
  <2>7. \A x \in Events :
           (\/ x = r.event /\ r.at \in Arming
            \/ x = r.event /\ r.at \in Arming
            \/ x \in ToSet(armed'))
           => Settable(x)
    BY <1>3, <1>4, TopKnown
  <2> QED
    BY <1>2, <1>3, <1>4, <2>1, <2>6, <2>7, CloseMoved
<1>6. CASE CheckEventAgain
  <2>1. stack' \in {Callers(r), Front(stack)} /\ queue' = queue
    BY <1>6 DEF CheckEventAgain, Goto, Return
  <2> HIDE DEF r, e
  <2> QED
    BY <1>2, <1>3, <1>4, <2>1, CloseQuiet
<1> QED
  BY <1>5, <1>6

\* Code that changes its own level or returns.
LEMMA CloseCode ==
  ASSUME Inv, CloseInv, RaiseTpl \/ CallRestoreTpl \/ NotifyReturns
  PROVE  CloseInv'
<1>1. Top \in Frames /\ Top.at = "code" /\ OwnLevel(Top) \in Levels
  BY TopFacts, Caller DEF RaiseTpl, CallRestoreTpl, NotifyReturns, At
<1>2. /\ Top.at \notin {"cancel", "free"} /\ Top.at \notin Freeing /\ "code" \notin Closing
      /\ "code" \notin Arming
  BY <1>1 DEF Freeing, Closing, Arming
<1>3. life' = life /\ armed' = armed /\ registered' = registered /\ queue' = queue
  BY DEF RaiseTpl, CallRestoreTpl, NotifyReturns, notifying, timing
<1> DEFINE l == OwnLevel(Top)
           r == Restore(l)
<1>4. r \in Frames /\ r.event = CheckTimer /\ r.at \notin Closing /\ r.at \notin Arming
  BY <1>1, IdleFrame
<1>5. \A level \in Levels :
        /\ [Top EXCEPT !.tpl = level] \in Frames
        /\ [Top EXCEPT !.tpl = level].at = "code"
        /\ [Top EXCEPT !.tpl = level].event = Top.event
  BY <1>1 DEF Frames
<1> HIDE DEF r
<1>6. CASE RaiseTpl
  <2>1. PICK level \in {Callback, Notify} : stack' = Callers([Top EXCEPT !.tpl = level])
    BY <1>6 DEF RaiseTpl, Goto
  <2> DEFINE f == [Top EXCEPT !.tpl = level]
  <2>2. f \in Frames /\ f.at = "code" /\ f.event = Top.event /\ stack' = Callers(f)
    BY <1>5, <2>1 DEF Levels
  <2> HIDE DEF f
  <2> QED
    BY <1>2, <1>3, <1>4, <2>2, CloseQuiet
<1>7. CASE CallRestoreTpl
  <2> DEFINE f == [Top EXCEPT !.tpl = l]
  <2>1. f \in Frames /\ f.at = "code" /\ f.event = Top.event /\ stack' = Append(Callers(f), r)
    BY <1>1, <1>5, <1>7 DEF CallRestoreTpl, Call, r
  <2> HIDE DEF f
  <2> QED
    BY <1>2, <1>3, <1>4, <2>1, CloseQuiet
<1>8. CASE NotifyReturns
  <2>1. stack' = Front(stack)
    BY <1>8 DEF NotifyReturns, Return
  <2> QED
    BY <1>2, <1>3, <1>4, <2>1, CloseQuiet
<1> QED
  BY <1>6, <1>7, <1>8

\* The code at the bottom of the stack.
LEMMA AtBottom ==
  ASSUME Inv
  PROVE  /\ stack[1].at = "code" /\ stack[1].event = Base /\ Base \notin Events
         /\ Base # CheckTimer /\ 1 \in 1 .. Len(stack)
         /\ \A i \in 1 .. Len(stack) :
              i # 1 /\ stack[i].at = "code" => stack[i].event \in Events
         /\ Top.at = "code" /\ Top.event = Base => Len(stack) = 1
<1>1. stack[1].at = "code" /\ stack[1].event = Base /\ Base \notin Events /\ Base # CheckTimer
  BY ConstantsAssumption DEF Inv, Sound, All
<1>2. /\ stack \in Seq(Frames) /\ Len(stack) \in Nat /\ Len(stack) > 0 /\ Top = stack[Len(stack)]
      /\ 1 \in 1 .. Len(stack) /\ Len(stack) \in 1 .. Len(stack)
  BY TopFacts
<1>3. ASSUME NEW i \in 1 .. Len(stack), i # 1, stack[i].at = "code"
      PROVE  stack[i].event \in Events /\ stack[i].event # Base
  <2>1. stack[i].event # Base
    BY <1>3 DEF Inv, Sound, On
  <2>2. FrameOk(stack[i]) /\ stack[i] \in Frames
    BY <1>2 DEF Inv, Sound
  <2> QED
    BY <1>3, <2>1, <2>2 DEF FrameOk, Frames, All
<1>4. Top.at = "code" /\ Top.event = Base => Len(stack) = 1
  BY <1>2, <1>3
<1> QED
  BY <1>1, <1>2, <1>3, <1>4

\* What code may call while an event is closed.
LEMMA CallAllowed ==
  ASSUME BottomCloses, Inv, CloseInv, NEW e \in Events, NEW call \in Calls, call # "create",
         call # "raise", Calling(call, e)
  PROVE  /\ e \notin EventsOf(stack, Freeing)
         /\ call \notin {"signal", "check"} => e \notin EventsOf(stack, {"close"})
<1>1. Top.at = "code" /\ <<Top.event, call, e>> \in Uses
  BY DEF Calling, At
<1>2. ASSUME NEW i \in 1 .. Len(stack), stack[i].at \in Closing, stack[i].event = e
      PROVE  Top.event = e /\ call \in {"signal", "check"}
  <2>1. i = 2 /\ <<Base, "close", e>> \in Uses
    BY <1>2 DEF CloseInv, OnlyBase
  <2>2. Len(stack) # 1
    BY <1>2, <2>1, TopFacts
  <2>3. Top.event \in Events
    <3>1. Len(stack) \in 1 .. Len(stack) /\ Top = stack[Len(stack)]
      BY TopFacts
    <3> QED
      BY <1>1, <2>2, <3>1, AtBottom
  <2>4. \A who \in Events, c \in Calls : <<who, c, e>> \in Uses =>
          c \in {"create", "raise"} \/ (who = e /\ c \in {"signal", "check"})
    BY <2>1 DEF BottomCloses
  <2> QED
    BY <1>1, <2>3, <2>4
<1>3. e \notin EventsOf(stack, Freeing)
  <2> SUFFICES ASSUME e \in EventsOf(stack, Freeing) PROVE FALSE
    OBVIOUS
  <2>1. Top.event = e
    BY <1>2 DEF EventsOf, Freeing, Closing
  <2>2. Len(stack) \in 1 .. Len(stack) /\ Top = stack[Len(stack)]
    BY TopFacts
  <2>3. e \in EventsOf(stack, Labels \ Freeing)
    BY <1>1, <2>1, <2>2 DEF EventsOf, Labels, Freeing
  <2> QED
    BY <2>3 DEF CloseInv, References
<1>4. call \notin {"signal", "check"} => e \notin EventsOf(stack, {"close"})
  BY <1>2 DEF EventsOf, Closing
<1> QED
  BY <1>3, <1>4

\* Code that creates an event or sets a timer.
LEMMA CloseCreateSet ==
  ASSUME BottomCloses, Inv, CloseInv, NEW e \in Events, CreateEvent(e) \/ CallSetTimer(e)
  PROVE  CloseInv'
<1>1. Top \in Frames /\ Top.at = "code" /\ tpl \in Levels
  BY TopFacts DEF CreateEvent, CallSetTimer, Calling, At
<1>2. /\ Top.at # "cancel" /\ Top.at \notin Freeing /\ Top.at \notin Closing
      /\ Top.at \notin Arming
  BY <1>1 DEF Freeing, Closing, Arming
<1>3. Top.event \in Events => Known(Top.event)
  BY <1>2, TopKnown
<1>4. CheckTimer \notin Events
  BY ConstantsAssumption
<1>5. armed' = armed /\ queue' = queue
  BY DEF CreateEvent, CallSetTimer, notifying, timing
<1>6. CASE CreateEvent(e)
  <2> DEFINE r == Restore(tpl)
  <2>1. /\ stack' = Append(Callers(Top), r) /\ life[e] = "none"
        /\ life' = [life EXCEPT ![e] = "open"]
        /\ registered' = IF e \in Signals THEN <<e>> \o registered ELSE registered
    BY <1>6 DEF CreateEvent, Call
  <2>2. r \in Frames /\ r.event = CheckTimer /\ r.at \notin Closing /\ r.at \notin Arming
    BY <1>1, IdleFrame
  <2> HIDE DEF r
  <2>3. life'[e] = "open" /\ \A x \in Events : life'[x] = "closed" => life[x] = "closed"
    BY <2>1 DEF Inv, Typed
  <2>4. Known(e)
    <3>1. e \notin EventsOf(stack, Busy)
      BY <2>1 DEF Inv, Created
    <3>2. e \notin EventsOf(stack, Freeing)
      BY <3>1, Labelled DEF EventsOf
    <3> QED
      BY <2>3, <3>2 DEF Known
  <2>5. ToSet(registered') \subseteq ToSet(registered) \cup {e}
    <3>1. CASE e \in Signals
      <4>1. <<e>> \in Seq(Signals) /\ registered \in Seq(Signals) /\ ToSet(<<e>>) = {e}
        BY <3>1, OneElement DEF Inv, Typed
      <4>2. ToSet(<<e>> \o registered) = ToSet(<<e>>) \cup ToSet(registered)
        BY <4>1, Joined
      <4> QED
        BY <2>1, <3>1, <4>1, <4>2
    <3> QED
      BY <2>1, <3>1
  <2>6. \A x \in Events :
           (\/ x = Top.event \/ x = r.event \/ x \in ToSet(armed') \/ InQueue(queue', x)
            \/ x \in ToSet(registered'))
           => Known(x)
    BY <1>3, <1>4, <1>5, <2>2, <2>4, <2>5, TopKnown
  <2>7. \A x \in Events :
           (\/ x = Top.event /\ Top.at \in Arming
            \/ x = r.event /\ r.at \in Arming
            \/ x \in ToSet(armed'))
           => Settable(x)
    BY <1>2, <1>5, <2>2, TopKnown
  <2> QED
    BY <1>1, <1>2, <2>1, <2>2, <2>3, <2>6, <2>7, CloseMoved
<1>7. CASE CallSetTimer(e)
  <2>1. PICK call \in {"cancel", "relative", "periodic"}, delay \in Nat :
          /\ Calling(call, e) /\ life[e] = "open" /\ e \in Timers
          /\ stack' = Append(Callers(Top), Frame(call, tpl, e, delay))
    BY <1>7, ConstantsAssumption DEF CallSetTimer, Call
  <2> DEFINE f == Frame(call, tpl, e, delay)
  <2>2. f \in Frames /\ f.at = call /\ f.event = e /\ stack' = Append(Callers(Top), f)
    BY <1>1, <2>1 DEF Frame, Frames, Labels, All
  <2> HIDE DEF f
  <2>3. e \notin EventsOf(stack, Freeing) /\ e \notin EventsOf(stack, {"close"})
    <3>1. call \in Calls /\ call \notin {"create", "raise", "signal", "check"}
      BY DEF Calls
    <3> QED
      BY <2>1, <3>1, CallAllowed
  <2>4. life' = life /\ registered' = registered
    BY <1>7 DEF CallSetTimer
  <2>5. Known(e) /\ Settable(e)
    BY <2>1, <2>3, <2>4 DEF Known, Settable
  <2>6. \A x \in Events :
           (\/ x = Top.event \/ x = f.event \/ x \in ToSet(armed') \/ InQueue(queue', x)
            \/ x \in ToSet(registered'))
           => Known(x)
    BY <1>3, <1>5, <2>2, <2>4, <2>5, TopKnown
  <2>7. \A x \in Events :
           (\/ x = Top.event /\ Top.at \in Arming
            \/ x = f.event /\ f.at \in Arming
            \/ x \in ToSet(armed'))
           => Settable(x)
    BY <1>2, <1>5, <2>2, <2>5, TopKnown
  <2>8. f.at \notin Closing
    BY <2>2 DEF Closing
  <2> QED
    BY <1>1, <1>2, <2>2, <2>4, <2>6, <2>7, <2>8, CloseMoved
<1> QED
  BY <1>6, <1>7

\* Code that signals or checks an event.
LEMMA CloseSignalCheck ==
  ASSUME BottomCloses, Inv, CloseInv, NEW e \in Events, SignalEvent(e) \/ CheckEvent(e)
  PROVE  CloseInv'
<1>1. Top \in Frames /\ Top.at = "code" /\ tpl \in Levels /\ stack \in Seq(Frames)
  BY TopFacts DEF SignalEvent, CheckEvent, Calling, At
<1>2. /\ Top.at # "cancel" /\ Top.at \notin Freeing /\ Top.at \notin Closing
      /\ Top.at \notin Arming
  BY <1>1 DEF Freeing, Closing, Arming
<1>3. Top.event \in Events => Known(Top.event)
  BY <1>2, TopKnown
<1>4. CheckTimer \notin Events /\ e \in All /\ Events \subseteq All
  BY ConstantsAssumption DEF All
<1>5. armed' = armed /\ life' = life /\ registered' = registered /\ life[e] = "open"
  BY DEF SignalEvent, CheckEvent, timing
<1>6. Known(e)
  <2>1. e \notin EventsOf(stack, Freeing)
    <3>1. \E call \in {"signal", "check"} : Calling(call, e)
      BY DEF SignalEvent, CheckEvent
    <3> QED
      BY <3>1, CallAllowed DEF Calls
  <2> QED
    BY <1>5, <2>1 DEF Known
<1> DEFINE r == Restore(tpl)
           g == Frame("group", tpl, e, 0)
           c == Frame("consume", tpl, e, 0)
<1>7. r \in Frames /\ r.event = CheckTimer /\ r.at \notin Closing /\ r.at \notin Arming
  BY <1>1, IdleFrame
<1>8. /\ g \in Frames /\ g.at = "group" /\ g.event = e
      /\ c \in Frames /\ c.at = "consume" /\ c.event = e
  BY <1>1 DEF Frame, Frames, Labels, All
<1>9. \/ stack' = Append(Callers(Top), r)
      \/ \E f \in {g, c} : stack' = Append(Append(stack, f), r)
  <2>1. /\ stack \o <<g, r>> = Append(Append(stack, g), r)
        /\ stack \o <<c, r>> = Append(Append(stack, c), r)
    BY <1>1, <1>7, <1>8, PushTwo
  <2>2. \/ stack' = Append(Callers(Top), r)
        \/ \E f \in {g, c} : stack' = stack \o <<f, r>>
    BY DEF SignalEvent, CheckEvent, Call
  <2> HIDE DEF g, c, r
  <2> QED
    BY <2>1, <2>2
<1> HIDE DEF r, g, c
<1>10. \A x \in Events : InQueue(queue', x) =>
         InQueue(queue, x) \/ x = e \/ x \in ToSet(registered)
  <2>1. CASE Signal(e)
    BY <1>4, <2>1, SignalKnown
  <2>2. CASE NotifyEvents(<<e>>)
    <3>1. <<e>> \in Seq(All) /\ IsInjective(<<e>>) /\ ToSet(<<e>>) = {e}
      BY <1>4, OneElement
    <3>2. \A x \in All : InQueue(queue', x) <=> InQueue(queue, x) \/ x \in ToSet(<<e>>)
      BY <2>2, <3>1, Notified DEF Inv
    <3> QED
      BY <1>4, <3>1, <3>2
  <2>3. CASE queue' = queue
    BY <2>3
  <2> QED
    BY <2>1, <2>2, <2>3 DEF SignalEvent, CheckEvent
<1>11. \A x \in Events :
         x \in ToSet(armed') \/ InQueue(queue', x) \/ x \in ToSet(registered') => Known(x)
  BY <1>5, <1>6, <1>10, TopKnown
<1>12. \A x \in Events : x \in ToSet(armed') => Settable(x)
  BY <1>5, TopKnown
<1>13. CASE stack' = Append(Callers(Top), r)
  <2>1. \A x \in Events :
           (\/ x = Top.event \/ x = r.event \/ x \in ToSet(armed') \/ InQueue(queue', x)
            \/ x \in ToSet(registered'))
           => Known(x)
    BY <1>3, <1>4, <1>7, <1>11
  <2>2. \A x \in Events :
           (\/ x = Top.event /\ Top.at \in Arming
            \/ x = r.event /\ r.at \in Arming
            \/ x \in ToSet(armed'))
           => Settable(x)
    BY <1>2, <1>7, <1>12
  <2> QED
    BY <1>1, <1>2, <1>5, <1>7, <1>13, <2>1, <2>2, CloseMoved
<1>14. CASE \E f \in {g, c} : stack' = Append(Append(stack, f), r)
  <2>1. PICK f \in {g, c} : stack' = Append(Append(stack, f), r)
    BY <1>14
  <2>2. f \in Frames /\ f.event = e /\ f.at \notin Closing /\ f.at \notin Arming
    BY <1>8 DEF Closing, Arming
  <2>3. \A x \in Events :
           (\/ x = f.event \/ x = r.event \/ x \in ToSet(armed') \/ InQueue(queue', x)
            \/ x \in ToSet(registered'))
           => Known(x)
    BY <1>4, <1>6, <1>7, <1>11, <2>2
  <2>4. \A x \in Events :
           (\/ x = f.event /\ f.at \in Arming
            \/ x = r.event /\ r.at \in Arming
            \/ x \in ToSet(armed'))
           => Settable(x)
    BY <1>7, <1>12, <2>2
  <2> QED
    BY <1>5, <1>7, <2>1, <2>2, <2>3, <2>4, CloseMoved
<1> QED
  BY <1>9, <1>13, <1>14

\* A frame that closes an event is the second of the stack.
LEMMA SecondFrame ==
  ASSUME Inv, CloseInv, Top.at \in Closing
  PROVE  /\ Len(stack) = 2 /\ Top = stack[2] /\ <<Base, "close", Top.event>> \in Uses
         /\ Top.event \in Events
         /\ Len(Front(stack)) = 1 /\ Front(stack)[1] = stack[1]
         /\ \A L : EventsOf(Front(stack), L) \subseteq {Base}
         /\ \A L : "code" \notin L => EventsOf(Front(stack), L) = {}
<1>1. /\ Len(stack) \in 1 .. Len(stack) /\ Top = stack[Len(stack)]
      /\ stack \in Seq(Frames) /\ stack # <<>> /\ FrameOk(Top)
  BY TopFacts
<1>2. Len(stack) = 2 /\ <<Base, "close", Top.event>> \in Uses
  BY <1>1 DEF CloseInv, OnlyBase
<1>3. Top.event \in Events
  <2>1. Top.at \in Service
    BY DEF Closing, Service
  <2> QED
    BY <1>1, <2>1 DEF FrameOk
<1>4. Len(Front(stack)) = 1 /\ Front(stack)[1] = stack[1]
  <2>1. /\ Len(Front(stack)) = Len(stack) - 1
        /\ \A i \in 1 .. Len(stack) - 1 : Front(stack)[i] = stack[i]
    BY <1>1, FrontOf
  <2>2. Len(stack) - 1 = 1 /\ 1 \in 1 .. 1
    BY <1>2
  <2> QED
    BY <2>1, <2>2
<1>5. stack[1].at = "code" /\ stack[1].event = Base
  BY AtBottom
<1>6. \A L : EventsOf(Front(stack), L) \subseteq {Base}
  BY <1>4, <1>5 DEF EventsOf
<1>7. \A L : "code" \notin L => EventsOf(Front(stack), L) = {}
  BY <1>4, <1>5 DEF EventsOf
<1> QED
  BY <1>1, <1>2, <1>3, <1>4, <1>6, <1>7

\* CloseEvent is called.
LEMMA CloseStarts ==
  ASSUME BottomCloses, Inv, CloseInv, NEW e \in Events, CloseEvent(e)
  PROVE  CloseInv'
<1> DEFINE f == Frame("close", tpl, e, 0)
           h == Frame("cancel", tpl, e, 0)
<1>1. /\ Top.at = "code" /\ <<Top.event, "close", e>> \in Uses /\ life[e] = "open"
      /\ life' = life /\ armed' = armed /\ registered' = registered /\ queue' = queue
      /\ stack' = IF e \in Timers THEN stack \o <<f, h>> ELSE Append(stack, f)
  BY DEF CloseEvent, Calling, At, notifying, timing
<1>2. /\ f \in Frames /\ f.at = "close" /\ f.event = e
      /\ h \in Frames /\ h.at = "cancel" /\ h.event = e /\ stack \in Seq(Frames)
  BY TopFacts DEF Frame, Frames, Labels, All
<1> HIDE DEF f, h
<1>3. <<Base, "close", e>> \in Uses /\ Len(stack) = 1
  <2>1. Top.event \in Events \cup {Base}
    BY <1>1, ConstantsAssumption
  <2>2. Top.event = Base
    BY <1>1, <2>1 DEF BottomCloses
  <2> QED
    BY <1>1, <2>2, AtBottom
<1>4. stack[1].at = "code" /\ stack[1].event = Base /\ Base \notin Events
  BY AtBottom
<1>5. /\ stack'[1] = stack[1] /\ stack'[2] = f
      /\ e \in Timers => Len(stack') = 3 /\ stack'[3] = h
      /\ e \notin Timers => Len(stack') = 2
  <2> DEFINE a == Append(stack, f)
  <2>1. a \in Seq(Frames) /\ Len(a) = 2 /\ a[1] = stack[1] /\ a[2] = f /\ a # <<>>
    <3>1. stack # <<>>
      BY TopFacts
    <3>2. /\ a \in Seq(Frames) /\ Len(a) = Len(stack) + 1
          /\ \A i \in 1 .. Len(stack) : a[i] = stack[i]
          /\ a[Len(stack) + 1] = f
      BY <1>2, <3>1, Called
    <3> HIDE DEF a
    <3>3. Len(a) = 2 /\ a[1] = stack[1] /\ a[2] = f
      <4>1. Len(stack) + 1 = 2 /\ 1 \in 1 .. Len(stack)
        BY <1>3
      <4> QED
        BY <3>2, <4>1
    <3>4. a # <<>>
      BY <3>3
    <3> QED
      BY <3>2, <3>3, <3>4
  <2>2. CASE e \in Timers
    <3>1. stack' = Append(a, h)
      BY <1>1, <1>2, <2>2, PushTwo
    <3> HIDE DEF a
    <3> DEFINE b == Append(a, h)
    <3>4. a \in Seq(Frames) /\ a # <<>> /\ h \in Frames
      BY <1>2, <2>1
    <3>2. /\ Len(b) = Len(a) + 1 /\ b[Len(a) + 1] = h
          /\ \A i \in 1 .. Len(a) : b[i] = a[i]
      BY <3>4, Called
    <3>3. stack' = b
      BY <3>1
    <3> HIDE DEF b
    <3> QED
      BY <2>1, <2>2, <3>2, <3>3
  <2>3. CASE e \notin Timers
    <3>1. stack' = a
      BY <1>1, <2>3
    <3> HIDE DEF a
    <3> QED
      BY <2>1, <2>3, <3>1
  <2> QED
    BY <2>2, <2>3
<1>6. \A i \in 1 .. Len(stack') : i = 1 \/ i = 2 \/ (i = 3 /\ e \in Timers)
  <2>1. CASE e \in Timers
    <3>1. Len(stack') = 3
      BY <1>5, <2>1
    <3> QED
      BY <2>1, <3>1
  <2>2. CASE e \notin Timers
    BY <1>5, <2>2
  <2> QED
    BY <2>1, <2>2
<1>7. OnlyBase(stack')
  <2>1. "code" \notin Closing /\ "cancel" \notin Closing
    BY DEF Closing
  <2> QED
    BY <1>2, <1>3, <1>4, <1>5, <1>6, <2>1 DEF OnlyBase
<1>8. \A x \in Events : x \in References(armed', queue', registered', stack') =>
        x \in References(armed, queue, registered, stack) \/ x = e
  <2>1. \A x \in Events : x \in EventsOf(stack', Labels \ Freeing) => x = e
    BY <1>2, <1>4, <1>5, <1>6 DEF EventsOf
  <2> QED
    BY <1>1, <2>1 DEF References
<1>9. /\ EventsOf(stack', Freeing) = {} /\ EventsOf(stack', {"close"}) = {e}
      /\ e \notin Timers => EventsOf(stack', Arming) = {}
  <2>1. EventsOf(stack', Freeing) = {}
    BY <1>2, <1>4, <1>5, <1>6 DEF EventsOf, Freeing
  <2>2. EventsOf(stack', {"close"}) \subseteq {e}
    BY <1>2, <1>4, <1>5, <1>6 DEF EventsOf
  <2>3. 2 \in 1 .. Len(stack')
    BY <1>5
  <2>4. e \in EventsOf(stack', {"close"})
    BY <1>2, <1>5, <2>3 DEF EventsOf
  <2>5. e \notin Timers => EventsOf(stack', Arming) = {}
    BY <1>2, <1>4, <1>5, <1>6 DEF EventsOf, Arming
  <2> QED
    BY <2>1, <2>2, <2>4, <2>5
<1>10. Cancelling(stack', e) \/ e \notin Timed(armed', stack')
  <2>1. CASE e \in Timers
    <3>1. Len(stack') = 3 /\ stack'[3] = h
      BY <1>5, <2>1
    <3> QED
      BY <1>2, <3>1 DEF Cancelling
  <2>2. CASE e \notin Timers
    <3>1. e \notin ToSet(armed)
      BY <2>2, EmptyList DEF Inv, Typed
    <3> QED
      BY <1>1, <1>9, <2>2, <3>1 DEF Timed
  <2> QED
    BY <2>1, <2>2
<1>11. \A x \in Events : life'[x] = "closed" \/ x \in EventsOf(stack', Freeing) =>
         x \notin References(armed', queue', registered', stack')
  BY <1>1, <1>8, <1>9 DEF CloseInv
<1>12. \A x \in Events : life'[x] = "closed" => x \notin EventsOf(stack', Freeing)
  BY <1>9
<1> QED
  BY <1>7, <1>9, <1>10, <1>11, <1>12 DEF CloseInv

\* CloseEvent takes the event off the lists.
LEMMA CloseUnlinks ==
  ASSUME Inv, CloseInv, CloseUnlink
  PROVE  CloseInv'
<1> DEFINE e == Top.event
           l == LevelOf(e)
           f == [Top EXCEPT !.at = "free"]
           h == Restore(Top.tpl)
<1>1. /\ Top.at = "close" /\ stack' = Append(Callers(f), h)
      /\ queue' = [queue EXCEPT ![l] = Without(@, {e})]
      /\ registered' = Without(registered, {e}) /\ life' = life /\ armed' = armed
  BY DEF CloseUnlink, At, Call, Unlinked, timing
<1>2. f \in Frames /\ f.at = "free" /\ f.event = e
  BY TopFacts DEF Frames, Labels
<1>3. h \in Frames /\ h.at = "restore" /\ h.event = CheckTimer /\ CheckTimer \notin Events
  BY TopFacts, IdleFrame, ConstantsAssumption
<1>4. /\ Len(stack) = 2 /\ Top = stack[2] /\ <<Base, "close", e>> \in Uses /\ e \in Events
      /\ \A L : EventsOf(Front(stack), L) \subseteq {Base}
      /\ \A L : "code" \notin L => EventsOf(Front(stack), L) = {}
  BY <1>1, SecondFrame DEF Closing
<1>5. stack[1].at = "code" /\ Base \notin Events
  BY AtBottom
<1> HIDE DEF f, h
<1>6. Len(stack') = 3 /\ stack'[1] = stack[1] /\ stack'[2] = f /\ stack'[3] = h
  <2> DEFINE a == Callers(f)
  <2>1. a \in Seq(Frames) /\ Len(a) = 2 /\ a[1] = stack[1] /\ a[2] = f /\ a # <<>>
    <3>1. stack \in Seq(Frames) /\ stack # <<>>
      BY TopFacts
    <3>2. /\ a \in Seq(Frames) /\ Len(a) = Len(stack)
          /\ \A i \in 1 .. Len(stack) - 1 : a[i] = stack[i]
          /\ a[Len(stack)] = f
      BY <1>2, <3>1, Gone DEF Callers
    <3>3. Len(stack) = 2 /\ 1 \in 1 .. 2 - 1
      BY <1>4
    <3> HIDE DEF a
    <3> QED
      BY <3>2, <3>3
  <2> HIDE DEF a
  <2> DEFINE b == Append(a, h)
  <2>4. a \in Seq(Frames) /\ a # <<>> /\ h \in Frames
    BY <1>3, <2>1
  <2>2. /\ Len(b) = Len(a) + 1 /\ b[Len(a) + 1] = h
        /\ \A i \in 1 .. Len(a) : b[i] = a[i]
    BY <2>4, Called
  <2>3. stack' = b
    BY <1>1 DEF a
  <2> HIDE DEF b
  <2> QED
    BY <2>1, <2>2, <2>3
<1>7. OnlyBase(stack')
  <2>1. "code" \notin Closing /\ "restore" \notin Closing
    BY DEF Closing
  <2>2. \A i \in 1 .. 3 : i = 1 \/ i = 2 \/ i = 3
    OBVIOUS
  <2> QED
    BY <1>2, <1>3, <1>4, <1>5, <1>6, <2>1, <2>2 DEF OnlyBase
<1>8. \A L : EventsOf(stack', L) = EventsOf(Front(stack), L) \cup One(f, L) \cup One(h, L)
  BY <1>1, <1>2, <1>3, EventsAfter
<1>9. /\ EventsOf(stack', Freeing) = {e} /\ EventsOf(stack', {"close"}) = {}
      /\ \A x \in Events : x \notin EventsOf(stack', Labels \ Freeing)
  <2>1. /\ One(f, Freeing) = {e} /\ One(f, {"close"}) = {} /\ One(f, Labels \ Freeing) = {}
        /\ One(h, Freeing) = {} /\ One(h, {"close"}) = {}
        /\ One(h, Labels \ Freeing) \subseteq {CheckTimer}
    BY <1>2, <1>3 DEF One, Freeing
  <2>2. EventsOf(Front(stack), Freeing) = {} /\ EventsOf(Front(stack), {"close"}) = {}
    BY <1>4 DEF Freeing
  <2>3. EventsOf(Front(stack), Labels \ Freeing) \subseteq {Base}
    BY <1>4
  <2> QED
    BY <1>3, <1>5, <1>8, <2>1, <2>2, <2>3
<1>10. e \in EventsOf(stack, {"close"}) /\ e \in EventsOf(stack, Labels \ Freeing)
  BY <1>1, <1>4 DEF EventsOf, Labels, Freeing
<1> HIDE DEF e, l
<1>11. e \notin ToSet(armed) /\ life[e] # "closed"
  <2>1. ~Cancelling(stack, e)
    BY <1>4 DEF Cancelling
  <2>2. e \notin Timed(armed, stack)
    BY <1>10, <2>1 DEF CloseInv
  <2>3. e \in References(armed, queue, registered, stack)
    BY <1>10 DEF References
  <2> QED
    BY <1>4, <2>2, <2>3 DEF CloseInv, Timed
<1>12. ToSet(registered') = ToSet(registered) \ {e}
  BY <1>1, WithoutThem DEF Inv, Typed
<1>13. \A x \in Events : InQueue(queue', x) => InQueue(queue, x) /\ x # e
  <2>1. l \in Levels /\ l = LevelOf(e) /\ \A x \in Events : LevelOf(x) \in Levels
    BY <1>4, LevelNumbers DEF All, l
  <2>2. queue \in [Levels -> Seq(All)] /\ queue[l] \in Seq(All)
    BY <2>1 DEF Inv, QueuesSound
  <2>3. ToSet(Without(queue[l], {e})) = ToSet(queue[l]) \ {e}
    BY <2>2, WithoutThem
  <2>4. ToSet(queue'[l]) = ToSet(queue[l]) \ {e}
    BY <1>1, <2>1, <2>2, <2>3
  <2>5. \A level \in Levels : level # l => queue'[level] = queue[level]
    BY <1>1, <2>2
  <2> QED
    BY <2>1, <2>4, <2>5 DEF InQueue
<1>14. \A x \in Events : x \in References(armed', queue', registered', stack') =>
         x \in References(armed, queue, registered, stack) /\ x # e
  BY <1>1, <1>9, <1>11, <1>12, <1>13 DEF References
<1>15. \A x \in Events : life'[x] = "closed" \/ x \in EventsOf(stack', Freeing) =>
         x \notin References(armed', queue', registered', stack')
  BY <1>1, <1>9, <1>14 DEF CloseInv
<1>16. \A x \in Events : life'[x] = "closed" => x \notin EventsOf(stack', Freeing)
  BY <1>1, <1>9, <1>11
<1> QED
  BY <1>7, <1>9, <1>15, <1>16 DEF CloseInv

\* CloseEvent frees the event.
LEMMA CloseFrees ==
  ASSUME Inv, CloseInv, CloseFree
  PROVE  CloseInv'
<1> DEFINE e == Top.event
<1>1. /\ Top.at = "free" /\ stack' = Front(stack) /\ life' = [life EXCEPT ![e] = "closed"]
      /\ queue' = queue /\ registered' = registered /\ armed' = armed
  BY DEF CloseFree, At, Return, notifying, timing
<1>2. /\ Len(stack) = 2 /\ Top = stack[2] /\ e \in Events
      /\ Len(Front(stack)) = 1 /\ Front(stack)[1] = stack[1]
      /\ \A L : "code" \notin L => EventsOf(Front(stack), L) = {}
  BY <1>1, SecondFrame DEF Closing
<1>3. stack[1].at = "code"
  BY AtBottom
<1>4. OnlyBase(stack')
  BY <1>1, <1>2, <1>3 DEF OnlyBase, Closing
<1>5. EventsOf(stack', Freeing) = {} /\ EventsOf(stack', {"close"}) = {}
  BY <1>1, <1>2 DEF Freeing
<1>6. e \in EventsOf(stack, Freeing)
  BY <1>1, <1>2 DEF EventsOf, Freeing
<1>7. \A x \in Events : x \in References(armed', queue', registered', stack') =>
        x \in References(armed, queue, registered, stack)
  <2>1. EventsOf(stack, Labels \ Freeing)
          = EventsOf(Front(stack), Labels \ Freeing) \cup One(Top, Labels \ Freeing)
    BY TopFacts, EventsAfter
  <2> QED
    BY <1>1, <2>1 DEF References
<1> HIDE DEF e
<1>8. \A x \in Events : life'[x] = "closed" => life[x] = "closed" \/ x = e
  BY <1>1, <1>2 DEF Inv, Typed
<1>9. \A x \in Events : life'[x] = "closed" \/ x \in EventsOf(stack', Freeing) =>
         x \notin References(armed', queue', registered', stack')
  BY <1>2, <1>5, <1>6, <1>7, <1>8 DEF CloseInv
<1> QED
  BY <1>4, <1>5, <1>9 DEF CloseInv

\* What is proved of closed events holds at first.
LEMMA InitClose == Init => CloseInv
<1> SUFFICES ASSUME Init PROVE CloseInv
  OBVIOUS
<1>1. stack[1].at = "code" /\ Len(stack) = 1 /\ life = [e \in Events |-> "none"]
  BY DEF Init, Frame
<1>2. EventsOf(stack, Freeing) = {} /\ EventsOf(stack, {"close"}) = {}
  BY <1>1 DEF EventsOf, Freeing
<1>3. OnlyBase(stack)
  BY <1>1 DEF OnlyBase, Closing
<1> QED
  BY <1>1, <1>2, <1>3 DEF CloseInv

\* Every step keeps it.
LEMMA NextClose == BottomCloses /\ Inv /\ CloseInv /\ [Next]_vars => CloseInv'
<1> SUFFICES ASSUME BottomCloses, Inv, CloseInv, [Next]_vars PROVE CloseInv'
  OBVIOUS
<1>1. CASE RestoreTpl
  BY <1>1, CloseRestoreTpl
<1>2. CASE Dispatch
  BY <1>2, CloseDispatch
<1>3. CASE CheckTimers
  BY <1>3, CloseCheckTimers
<1>4. CASE Services
  BY <1>4, CloseSetTimer, CloseServices, CloseUnlinks, CloseFrees DEF Services
<1>5. CASE Code
  BY <1>5, CloseCreateSet, CloseSignalCheck, CloseStarts, CloseCode DEF Code
<1>6. CASE TimerTick
  BY <1>6, CloseTick
<1>7. CASE UNCHANGED vars
  BY <1>7 DEF vars, processor, notifying, timing, CloseInv, OnlyBase, References, Timed,
     Cancelling, EventsOf, InQueue
<1> QED
  BY <1>1, <1>2, <1>3, <1>4, <1>5, <1>6, <1>7 DEF Next

\* No list and no call that is under way refers to the memory of a closed event,
\* where events are closed by the code at the bottom of the stack and used by
\* nobody else but their own functions.  CoreCloseEvent cancels the timer and
\* takes the event off the queues in two critical sections; what makes this
\* enough is that its frame is the second of the stack until the event is freed.
THEOREM ClosedStaysUnused == ASSUME BottomCloses PROVE Spec => []ClosedUnused
<1>1. Inv /\ CloseInv => ClosedUnused
  <2> SUFFICES ASSUME Inv, CloseInv, NEW e \in Events, life[e] = "closed"
               PROVE  /\ e \notin ToSet(armed) /\ ~Queued(e)
                      /\ \A i \in DOMAIN stack : stack[i].event # e
    BY DEF ClosedUnused
  <2>1. e \notin References(armed, queue, registered, stack) /\ e \notin EventsOf(stack, Freeing)
    BY DEF CloseInv
  <2>2. DOMAIN stack = 1 .. Len(stack) /\ \A i \in 1 .. Len(stack) : stack[i].at \in Labels
    <3>1. stack \in Seq(Frames)
      BY TopFacts
    <3>2. \A i \in 1 .. Len(stack) : stack[i] \in Frames
      BY <3>1
    <3> QED
      BY <3>1, <3>2 DEF Frames
  <2>3. \A i \in 1 .. Len(stack) : stack[i].event # e
    BY <2>1, <2>2 DEF References, EventsOf
  <2> QED
    BY <2>1, <2>2, <2>3 DEF References, InQueue, Queued
<1>2. Inv /\ CloseInv /\ [Next]_vars => CloseInv'
  BY NextClose
<1> QED
  BY <1>1, <1>2, InitClose, EventInvariant, PTL DEF Spec
=============================================================================
