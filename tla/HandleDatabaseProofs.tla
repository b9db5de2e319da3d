------------------------ MODULE HandleDatabaseProofs ------------------------
(***************************************************************************)
(* What holds of HandleDatabase for every set of devices and everything    *)
(* its environment may do.                                                 *)
(***************************************************************************)
EXTENDS HandleDatabase, SubsequencesProofs

-----------------------------------------------------------------------------
(********************************** Lists **********************************)

\* What is chosen from a list are elements of it.
LEMMA PartOf ==
  ASSUME NEW T, NEW s \in Seq(T), NEW S, S \subseteq DOMAIN s
  PROVE  /\ Subsequence(s, S) \in Seq(T)
         /\ Range(Subsequence(s, S)) = {s[i] : i \in S}
         /\ IsInjective(s) => IsInjective(Subsequence(s, S))
<1> DEFINE t == Subsequence(s, S)
<1>1. /\ t \in Seq(T) /\ DOMAIN t = 1 .. Cardinality(S)
      /\ \A k \in 1 .. Cardinality(S) : Nth(S, k) \in S /\ t[k] = s[Nth(S, k)]
      /\ \A k, l \in 1 .. Cardinality(S) : k < l => Nth(S, k) < Nth(S, l)
      /\ \A i \in S : \E k \in 1 .. Cardinality(S) : Nth(S, k) = i
  BY SubsequenceElements
<1> HIDE DEF t
<1>2. Range(t) = {s[i] : i \in S}
  BY <1>1 DEF Range
<1>3. ASSUME IsInjective(s) PROVE IsInjective(t)
  <2> SUFFICES ASSUME NEW k \in DOMAIN t, NEW l \in DOMAIN t, t[k] = t[l] PROVE k = l
    BY DEF IsInjective
  <2>1. Nth(S, k) = Nth(S, l) /\ Nth(S, k) \in Int /\ k \in Int /\ l \in Int
    <3>1. Nth(S, k) \in DOMAIN s /\ Nth(S, l) \in DOMAIN s /\ DOMAIN s \subseteq Int
      BY <1>1
    <3> QED
      BY <1>1, <1>3, <3>1 DEF IsInjective
  <2> QED
    BY <1>1, <2>1
<1> QED
  BY <1>1, <1>2, <1>3 DEF t

\* A list without an element has the others.
LEMMA WithoutIt ==
  ASSUME NEW T, NEW s \in Seq(T), NEW x
  PROVE  /\ Without(s, x) \in Seq(T)
         /\ Range(Without(s, x)) = Range(s) \ {x}
         /\ IsInjective(s) => IsInjective(Without(s, x))
<1> DEFINE I == {i \in DOMAIN s : s[i] # x}
<1>1. I \subseteq DOMAIN s
  OBVIOUS
<1>2. {s[i] : i \in I} = Range(s) \ {x}
  BY DEF Range
<1> HIDE DEF I
<1>3. Without(s, x) = Subsequence(s, I)
  BY DEF I, Without
<1> QED
  BY <1>1, <1>2, <1>3, PartOf

\* A list without repetitions has the same elements, each once.
LEMMA DistinctOnes ==
  ASSUME NEW T, NEW s \in Seq(T)
  PROVE  /\ Distinct(s) \in Seq(T)
         /\ Range(Distinct(s)) = Range(s)
         /\ IsInjective(Distinct(s))
<1> DEFINE I == {i \in DOMAIN s : \A j \in 1 .. i - 1 : s[j] # s[i]}
<1>1. I \subseteq DOMAIN s /\ DOMAIN s \subseteq Nat
  OBVIOUS
<1>2. {s[i] : i \in I} = Range(s)
  <2>1. ASSUME NEW i \in DOMAIN s PROVE \E j \in I : s[j] = s[i]
    <3> DEFINE J == {j \in DOMAIN s : s[j] = s[i]}
    <3>1. J \subseteq Nat /\ J # {}
      OBVIOUS
    <3>2. PICK j \in J : \A k \in J : j <= k
      BY <3>1, Smallest
    <3>3. j \in I
      BY <3>2
    <3> QED
      BY <3>2, <3>3
  <2>2. \A i \in I : i \in DOMAIN s
    OBVIOUS
  <2> HIDE DEF I
  <2> QED
    BY <2>1, <2>2 DEF Range
<1>3. \A i, j \in I : s[i] = s[j] => i = j
  <2> SUFFICES ASSUME NEW i \in I, NEW j \in I, s[i] = s[j], i # j PROVE FALSE
    OBVIOUS
  <2>1. i \in Nat /\ j \in Nat /\ i > 0 /\ j > 0
    OBVIOUS
  <2>2. CASE i < j
    BY <2>1, <2>2
  <2>3. CASE j < i
    BY <2>1, <2>3
  <2> QED
    BY <2>1, <2>2, <2>3
<1> HIDE DEF I
<1> DEFINE t == Subsequence(s, I)
<1>4. Distinct(s) = t
  BY DEF I, Distinct
<1>5. /\ t \in Seq(T) /\ DOMAIN t = 1 .. Cardinality(I)
      /\ \A k \in 1 .. Cardinality(I) : Nth(I, k) \in I /\ t[k] = s[Nth(I, k)]
      /\ \A k, l \in 1 .. Cardinality(I) : k < l => Nth(I, k) < Nth(I, l)
  BY <1>1, SubsequenceElements
<1>6. Range(t) = Range(s)
  BY <1>1, <1>2, PartOf
<1> HIDE DEF t
<1>7. IsInjective(t)
  <2> SUFFICES ASSUME NEW k \in DOMAIN t, NEW l \in DOMAIN t, t[k] = t[l] PROVE k = l
    BY DEF IsInjective
  <2>1. Nth(I, k) = Nth(I, l)
    BY <1>3, <1>5
  <2>2. Nth(I, k) \in Nat /\ k \in Int /\ l \in Int
    BY <1>1, <1>5
  <2> QED
    BY <1>5, <2>1, <2>2
<1> QED
  BY <1>4, <1>5, <1>6, <1>7

\* Two lists joined have the elements of both.
LEMMA Joined ==
  ASSUME NEW T, NEW u \in Seq(T), NEW v \in Seq(T)
  PROVE  u \o v \in Seq(T) /\ Range(u \o v) = Range(u) \cup Range(v)
<1> DEFINE w == u \o v
<1>1. /\ w \in Seq(T) /\ Len(w) = Len(u) + Len(v) /\ Len(u) \in Nat /\ Len(v) \in Nat
      /\ \A k \in 1 .. Len(u) : w[k] = u[k]
      /\ \A k \in 1 .. Len(v) : w[k + Len(u)] = v[k]
  OBVIOUS
<1> HIDE DEF w
<1>2. ASSUME NEW k \in 1 .. Len(u) PROVE u[k] \in Range(w)
  <2>1. k \in DOMAIN w /\ w[k] = u[k]
    BY <1>1
  <2> QED
    BY <2>1 DEF Range
<1>3. ASSUME NEW k \in 1 .. Len(v) PROVE v[k] \in Range(w)
  <2>1. k + Len(u) \in DOMAIN w /\ w[k + Len(u)] = v[k]
    BY <1>1
  <2> QED
    BY <2>1 DEF Range
<1>4. ASSUME NEW k \in DOMAIN w PROVE w[k] \in Range(u) \cup Range(v)
  <2>1. CASE k <= Len(u)
    <3>1. k \in DOMAIN u /\ w[k] = u[k]
      BY <1>1, <2>1
    <3> QED
      BY <3>1 DEF Range
  <2>2. CASE ~ (k <= Len(u))
    <3>1. k - Len(u) \in 1 .. Len(v) /\ (k - Len(u)) + Len(u) = k
      BY <1>1, <2>2
    <3>2. w[k] = v[k - Len(u)] /\ k - Len(u) \in DOMAIN v
      BY <1>1, <3>1
    <3> QED
      BY <3>2 DEF Range
  <2> QED
    BY <2>1, <2>2
<1>5. Range(u) \subseteq Range(w) /\ Range(v) \subseteq Range(w)
  BY <1>2, <1>3 DEF Range
<1>6. Range(w) \subseteq Range(u) \cup Range(v)
  <2> SUFFICES ASSUME NEW x \in Range(w) PROVE x \in Range(u) \cup Range(v)
    OBVIOUS
  <2>1. PICK k \in DOMAIN w : x = w[k]
    BY DEF Range
  <2> QED
    BY <1>4, <2>1
<1> QED
  BY <1>1, <1>5, <1>6 DEF w

\* f has the beginnings of the sequences of q, joined.
Joins(f, q) ==
  /\ DOMAIN f = 1 .. Len(q)
  /\ \A i \in 1 .. Len(q) : f[i] = IF i = 1 THEN q[i] ELSE f[i - 1] \o q[i]

\* Such sequences exist.
LEMMA JoinsExist ==
  ASSUME NEW T, NEW q \in Seq(Seq(T))
  PROVE  \E f : Joins(f, q)
<1> DEFINE Upto(f, n) == /\ DOMAIN f = 1 .. n
                         /\ f = [i \in 1 .. n |-> f[i]]
                         /\ \A i \in 1 .. n : f[i] = IF i = 1 THEN q[i] ELSE f[i - 1] \o q[i]
           S == {n \in Nat : n <= Len(q) => \E f : Upto(f, n)}
<1>1. 0 \in S
  <2>1. Upto([i \in 1 .. 0 |-> 0], 0)
    OBVIOUS
  <2> QED
    BY <2>1
<1>2. ASSUME NEW n \in Nat, n \in S PROVE n + 1 \in S
  <2> HIDE DEF Upto
  <2> SUFFICES ASSUME n + 1 <= Len(q) PROVE \E f : Upto(f, n + 1)
    OBVIOUS
  <2>1. PICK f : Upto(f, n)
    BY <1>2
  <2> USE DEF Upto
  <2> DEFINE v == IF n = 0 THEN q[1] ELSE f[n] \o q[n + 1]
             g == [i \in 1 .. n + 1 |-> IF i = n + 1 THEN v ELSE f[i]]
  <2>2. DOMAIN g = 1 .. n + 1 /\ g[n + 1] = v /\ \A i \in 1 .. n : g[i] = f[i]
    <3> HIDE DEF v
    <3> QED
      OBVIOUS
  <2>3. g = [i \in 1 .. n + 1 |-> g[i]]
    OBVIOUS
  <2> HIDE DEF g
  <2>4. ASSUME NEW i \in 1 .. n + 1
        PROVE  g[i] = IF i = 1 THEN q[i] ELSE g[i - 1] \o q[i]
    <3>1. CASE i = n + 1
      BY <2>2, <3>1
    <3>2. CASE i # n + 1
      <4>1. i \in 1 .. n /\ g[i] = f[i] /\ (i # 1 => g[i - 1] = f[i - 1])
        BY <2>2, <3>2
      <4>2. f[i] = IF i = 1 THEN q[i] ELSE f[i - 1] \o q[i]
        BY <2>1, <4>1
      <4> QED
        BY <4>1, <4>2
    <3> QED
      BY <3>1, <3>2
  <2>5. Upto(g, n + 1)
    BY <2>2, <2>3, <2>4
  <2> QED
    BY <2>5
<1>3. Len(q) \in S
  <2> HIDE DEF S
  <2>1. Nat \subseteq S
    BY <1>1, <1>2, AllNumbers
  <2> QED
    BY <2>1
<1> QED
  BY <1>3 DEF Joins

\* Joined sequences have the elements of each.
LEMMA Flattened ==
  ASSUME NEW T, NEW q \in Seq(Seq(T))
  PROVE  /\ FlattenSeq(q) \in Seq(T)
         /\ \A x : x \in Range(FlattenSeq(q)) <=> \E i \in 1 .. Len(q) : x \in Range(q[i])
<1>1. CASE q = <<>>
  BY <1>1 DEF FlattenSeq, Range
<1>2. CASE q # <<>>
  <2> DEFINE Value(h, i) == IF i = 1 THEN q[i] ELSE h[i - 1] \o q[i]
             Def(h) == h = [i \in 1 .. Len(q) |-> Value(h, i)]
             all == CHOOSE h : Def(h)
  <2>1. \E h : Def(h)
    <3>1. PICK f : Joins(f, q)
      BY JoinsExist
    <3> DEFINE g == [i \in 1 .. Len(q) |-> f[i]]
    <3>2. \A i \in 1 .. Len(q) : g[i] = IF i = 1 THEN q[i] ELSE g[i - 1] \o q[i]
      <4> SUFFICES ASSUME NEW i \in 1 .. Len(q)
                   PROVE  g[i] = IF i = 1 THEN q[i] ELSE g[i - 1] \o q[i]
        OBVIOUS
      <4>1. f[i] = IF i = 1 THEN q[i] ELSE f[i - 1] \o q[i]
        BY <3>1 DEF Joins
      <4>2. i # 1 => i - 1 \in 1 .. Len(q)
        OBVIOUS
      <4> QED
        BY <4>1, <4>2
    <3>3. g = [i \in 1 .. Len(q) |-> g[i]]
      OBVIOUS
    <3> HIDE DEF g
    <3>4. Def(g)
      BY <3>2, <3>3
    <3> QED
      BY <3>4
  <2>2. \A i \in 1 .. Len(q) : all[i] = Value(all, i)
    <3>1. Def(all)
      BY <2>1
    <3> HIDE DEF all, Value
    <3> QED
      BY <3>1
  <2>3. FlattenSeq(q) = all[Len(q)]
    BY <1>2 DEF FlattenSeq
  <2> HIDE DEF all
  <2> DEFINE Good(n) == /\ all[n] \in Seq(T)
                        /\ \A x : x \in Range(all[n]) <=> \E i \in 1 .. n : x \in Range(q[i])
             S == {n \in Nat : n \in 1 .. Len(q) => Good(n)}
  <2>4. 0 \in S
    OBVIOUS
  <2>5. ASSUME NEW n \in Nat, n \in S PROVE n + 1 \in S
    <3> SUFFICES ASSUME n + 1 \in 1 .. Len(q) PROVE Good(n + 1)
      OBVIOUS
    <3>1. q[n + 1] \in Seq(T)
      OBVIOUS
    <3>2. CASE n = 0
      <4>1. all[1] = q[1]
        BY <2>2, <3>2
      <4> QED
        BY <3>1, <3>2, <4>1
    <3>3. CASE n # 0
      <4>1. all[n + 1] = all[n] \o q[n + 1]
        <5>1. n + 1 \in 1 .. Len(q) /\ n + 1 # 1 /\ n + 1 - 1 = n
          BY <3>3
        <5>2. all[n + 1] = Value(all, n + 1)
          <6> HIDE DEF Value
          <6> QED
            BY <2>2, <5>1
        <5>3. Value(all, n + 1) = all[n] \o q[n + 1]
          <6> DEFINE m == n + 1
          <6>1. m # 1 /\ m - 1 = n
            BY <5>1
          <6> HIDE DEF m
          <6>2. Value(all, m) = all[n] \o q[m]
            BY <6>1, Zenon
          <6> QED
            BY <6>2, Zenon DEF m
        <5> HIDE DEF Value
        <5> QED
          BY <5>2, <5>3, Zenon
      <4>2. Good(n)
        BY <2>5, <3>3
      <4>3. all[n + 1] \in Seq(T)
        BY <3>1, <4>1, <4>2
      <4>5. Range(all[n + 1]) = Range(all[n]) \cup Range(q[n + 1])
        BY <3>1, <4>1, <4>2, Joined
      <4>6. 1 .. n + 1 = (1 .. n) \cup {n + 1}
        OBVIOUS
      <4> QED
        BY <4>2, <4>3, <4>5, <4>6
    <3> QED
      BY <3>2, <3>3
  <2>6. Len(q) \in Nat /\ Len(q) \in 1 .. Len(q)
    BY <1>2
  <2>7. Nat \subseteq S
    <3> HIDE DEF S
    <3> QED
      BY <2>4, <2>5, AllNumbers
  <2>8. Good(Len(q))
    BY <2>6, <2>7
  <2> QED
    BY <2>3, <2>8
<1> QED
  BY <1>1, <1>2

-----------------------------------------------------------------------------
(********************************** Types **********************************)

\* The opens there may be of a protocol on a handle.
Openings(h, p) ==
  {Manager(d, h) : d \in {e \in Drivers : Uses[e] = p}}
    \cup {Child(k) : k \in {l \in Kids : p = "io"}}
    \cup {Open("app", Null, "exclusive"), Open("core", Null, "get")}

Ops == {"uninstall", "reinstall", "open", "disconnect", "connect", "start", "stop"}

Labels ==
  {"find", "asked", "refused", "moved", "open", "agents", "next", "stop", "stopped", "release",
   "released", "collect", "sorted", "try", "descend", "start", "enumerate", "child", "make"}

FrameType ==
  [op : Ops, at : Labels, h : Handles, p : Protocols \cup {""}, agent : Drivers \cup {"", "app"},
   child : Kids \cup {Null}, how : {"", "exclusive"}, recursive : BOOLEAN, drivers : Seq(Drivers),
   kids : Seq(Kids), index : Nat, any : BOOLEAN, status : {"", "success", "error"},
   callback : BOOLEAN]

\* A frame has the arguments of its call, and its buffers as far as it has come.
Formed(f) ==
  /\ f.op \in {"uninstall", "reinstall"} => f.p \in Protocols
  /\ f.op = "open" => f.p \in Protocols /\ f.agent = "app" /\ f.how = "exclusive"
  /\ f.op = "disconnect" => f.at \in {"agents", "next"} \/ f.drivers # <<>>
  /\ f.op = "connect" => f.at \in {"collect", "sorted", "descend"} \/ f.index > 0
  /\ f.op \in {"start", "stop"} => f.agent \in Drivers
  /\ f.op = "start" /\ f.at = "child" => f.child \in Kids
  /\ f.op = "stop" /\ f.agent = "bus" => f.at = "stop" \/ f.kids # <<>>
  /\ f.at = "moved" => f.op = "reinstall"
  /\ f.at = "refused" => f.op \in {"uninstall", "reinstall"}

Frames == {f \in FrameType : Formed(f)}

OpensTyped ==
  /\ opens \in [Handles \X Protocols -> Seq(OpenType)]
  /\ \A h \in Handles, p \in Protocols : opens[<<h, p>>] \in Seq(Openings(h, p))

Tables == protocols \in [Handles -> Seq(Protocols)] /\ OpensTyped

Typed ==
  /\ scenario \in Scenarios
  /\ Tables
  /\ signaled \in BOOLEAN
  /\ bindings \subseteq Drivers
  /\ stack \in Seq(Frames)

LEMMA Constants ==
  /\ Null \notin Handles /\ Null \notin Kids /\ Root \in Handles /\ Root \notin Kids
  /\ Kids \subseteq Handles
  /\ Drivers = {"bus", "disk", "fs"}
  /\ Uses["bus"] = "io" /\ Uses["disk"] = "block" /\ Uses["fs"] = "volume"
  /\ Makes["bus"] = "block" /\ Makes["disk"] = "volume"
BY ConstantsAssumption DEF Handles, Drivers, Uses, Makes

LEMMA OpeningsAre ==
  ASSUME NEW h \in Handles, NEW p \in Protocols
  PROVE  /\ Openings(h, p) \subseteq OpenType
         /\ \A o \in Openings(h, p) :
              /\ o.how = "driver" =>
                   o.agent \in Drivers /\ o = Manager(o.agent, h) /\ Uses[o.agent] = p
              /\ o.how = "child" => o.controller \in Kids /\ o = Child(o.controller) /\ p = "io"
BY Constants DEF Openings, OpenType, Manager, Child, Open

\* The opens of one interface change.
LEMMA OpensSet ==
  ASSUME OpensTyped, NEW h \in Handles, NEW p \in Protocols, NEW s \in Seq(Openings(h, p)),
         opens' = [opens EXCEPT ![<<h, p>>] = s]
  PROVE  /\ OpensTyped'
         /\ opens'[<<h, p>>] = s
         /\ \A g \in Handles, q \in Protocols : g # h \/ q # p => opens'[<<g, q>>] = opens[<<g, q>>]
<1>1. s \in Seq(OpenType)
  BY OpeningsAre
<1>2. opens' \in [Handles \X Protocols -> Seq(OpenType)] /\ opens'[<<h, p>>] = s
  BY <1>1 DEF OpensTyped
<1>3. ASSUME NEW g \in Handles, NEW q \in Protocols, g # h \/ q # p
      PROVE  opens'[<<g, q>>] = opens[<<g, q>>]
  <2>1. <<g, q>> # <<h, p>> /\ <<g, q>> \in Handles \X Protocols
    BY <1>3
  <2> QED
    BY <2>1 DEF OpensTyped
<1>4. ASSUME NEW g \in Handles, NEW q \in Protocols
      PROVE  opens'[<<g, q>>] \in Seq(Openings(g, q))
  <2>1. CASE g = h /\ q = p
    BY <1>2, <2>1
  <2>2. CASE g # h \/ q # p
    BY <1>3, <2>2 DEF OpensTyped
  <2> QED
    BY <2>1, <2>2
<1> QED
  BY <1>2, <1>3, <1>4 DEF OpensTyped

\* The opens of a handle are those of the interfaces it has.
LEMMA AllOpens ==
  ASSUME Tables, NEW h \in Handles
  PROVE  /\ OpensOf(h) \in Seq(UNION {Openings(h, p) : p \in Protocols})
         /\ \A o : o \in Range(OpensOf(h)) <=>
              \E p \in Protocols : Installed(h, p) /\ o \in Range(opens[<<h, p>>])
<1> DEFINE T == UNION {Openings(h, p) : p \in Protocols}
           s == protocols[h]
           q == [i \in DOMAIN s |-> opens[<<h, s[i]>>]]
<1>1. s \in Seq(Protocols)
  BY DEF Tables
<1>2. \A i \in DOMAIN s : s[i] \in Protocols
  BY <1>1
<1>3. \A p \in Protocols : opens[<<h, p>>] \in Seq(T)
  <2> SUFFICES ASSUME NEW p \in Protocols PROVE opens[<<h, p>>] \in Seq(T)
    OBVIOUS
  <2>1. opens[<<h, p>>] \in Seq(Openings(h, p)) /\ Openings(h, p) \subseteq T
    BY DEF Tables, OpensTyped
  <2> HIDE DEF T
  <2> QED
    BY <2>1
<1> HIDE DEF T
<1>4. q \in Seq(Seq(T)) /\ Len(q) = Len(s) /\ DOMAIN s = 1 .. Len(s)
  <2>1. Len(s) \in Nat /\ DOMAIN s = 1 .. Len(s)
    BY <1>1
  <2>2. \A i \in 1 .. Len(s) : opens[<<h, s[i]>>] \in Seq(T)
    BY <1>2, <1>3, <2>1
  <2> HIDE DEF s
  <2>3. q \in [1 .. Len(s) -> Seq(T)]
    BY <2>1, <2>2
  <2> QED
    BY <2>1, <2>3
<1>5. OpensOf(h) = FlattenSeq(q)
  BY DEF OpensOf
<1>6. \A i \in 1 .. Len(s) : q[i] = opens[<<h, s[i]>>]
  BY <1>4
<1> HIDE DEF q
<1>7. /\ FlattenSeq(q) \in Seq(T)
      /\ \A o : o \in Range(FlattenSeq(q)) <=> \E i \in 1 .. Len(q) : o \in Range(q[i])
  BY <1>4, Flattened
<1>8. \A o : o \in Range(OpensOf(h)) <=> \E i \in 1 .. Len(s) : o \in Range(opens[<<h, s[i]>>])
  BY <1>4, <1>5, <1>6, <1>7
<1>9. \A p : Installed(h, p) <=> \E i \in 1 .. Len(s) : p = s[i]
  BY <1>4 DEF Installed, Range
<1> HIDE DEF s
<1> QED
  BY <1>2, <1>4, <1>5, <1>7, <1>8, <1>9 DEF T

\* The drivers that manage a handle.
LEMMA ManagersTyped ==
  ASSUME Tables, NEW h \in Handles
  PROVE  ManagersOf(h) \in Seq(Drivers)
<1> DEFINE T == UNION {Openings(h, p) : p \in Protocols}
           all == OpensOf(h)
           s == Those(all, "driver")
           t == [i \in DOMAIN s |-> s[i].agent]
<1>1. all \in Seq(T)
  BY AllOpens
<1>2. \A o \in T : o.how = "driver" => o.agent \in Drivers
  BY OpeningsAre
<1> HIDE DEF T, all
<1>3. s \in Seq(T) /\ Range(s) = {all[i] : i \in {j \in DOMAIN all : all[j].how = "driver"}}
  BY <1>1, PartOf DEF Those
<1>4. \A i \in DOMAIN s : s[i].agent \in Drivers
  BY <1>1, <1>2, <1>3 DEF Range
<1> HIDE DEF s
<1>5. t \in Seq(Drivers)
  <2>1. Len(s) \in Nat /\ DOMAIN s = 1 .. Len(s)
    BY <1>3
  <2>2. t \in [1 .. Len(s) -> Drivers]
    BY <1>4, <2>1
  <2> QED
    BY <2>1, <2>2
<1> HIDE DEF t
<1>6. ManagersOf(h) = Distinct(t)
  BY DEF ManagersOf, all, s, t
<1> QED
  BY <1>5, <1>6, DistinctOnes

\* The children some agents have of a handle.
LEMMA ChildrenAre ==
  ASSUME Tables, NEW h \in Handles, NEW A
  PROVE  /\ ChildrenOf(h, A) \in Seq(Kids)
         /\ \A k : k \in Range(ChildrenOf(h, A)) <=>
              /\ "bus" \in A /\ Installed(h, "io")
              /\ k \in Kids /\ Child(k) \in Range(opens[<<h, "io">>])
<1> DEFINE T == UNION {Openings(h, p) : p \in Protocols}
           all == OpensOf(h)
           I == {i \in DOMAIN all : all[i].how = "child" /\ all[i].agent \in A}
           s == Subsequence(all, I)
           t == [i \in DOMAIN s |-> s[i].controller]
<1>1. /\ all \in Seq(T)
      /\ \A o : o \in Range(all) <=>
           \E p \in Protocols : Installed(h, p) /\ o \in Range(opens[<<h, p>>])
  BY AllOpens
<1>2. \A o \in T : o.how = "child" => o.controller \in Kids /\ o = Child(o.controller)
  BY OpeningsAre
<1>3. \A p \in Protocols : \A k : Child(k) \in Range(opens[<<h, p>>]) => p = "io" /\ k \in Kids
  <2> SUFFICES ASSUME NEW p \in Protocols, NEW k, Child(k) \in Range(opens[<<h, p>>])
               PROVE  p = "io" /\ k \in Kids
    OBVIOUS
  <2>1. Child(k) \in Openings(h, p)
    BY DEF Tables, OpensTyped, Range
  <2>2. Child(k).how = "child" /\ Child(k).controller = k
    BY DEF Child, Open
  <2> QED
    BY <2>1, <2>2, OpeningsAre
<1> HIDE DEF T, all
<1>4. I \subseteq DOMAIN all
  OBVIOUS
<1>5. s \in Seq(T) /\ Range(s) = {all[i] : i \in I}
  <2> HIDE DEF I
  <2> QED
    BY <1>1, <1>4, PartOf
<1>6. \A o : o \in Range(s) <=> o \in Range(all) /\ o.how = "child" /\ o.agent \in A
  <2> HIDE DEF s
  <2> QED
    BY <1>5 DEF Range
<1> HIDE DEF I, s
<1>7. \A i \in DOMAIN s : s[i] \in T /\ s[i].how = "child"
  BY <1>5, <1>6 DEF Range
<1>8. t \in Seq(Kids) /\ DOMAIN t = DOMAIN s /\ \A i \in DOMAIN s : t[i] = s[i].controller
  <2>1. Len(s) \in Nat /\ DOMAIN s = 1 .. Len(s)
    BY <1>5
  <2>2. t \in [1 .. Len(s) -> Kids]
    BY <1>2, <1>7, <2>1
  <2> QED
    BY <2>1, <2>2
<1>9. \A i \in DOMAIN s : s[i] = Child(t[i])
  BY <1>2, <1>7, <1>8
<1> HIDE DEF t
<1>10. \A k : k \in Range(t) <=> Child(k) \in Range(s)
  <2> SUFFICES ASSUME NEW k PROVE k \in Range(t) <=> Child(k) \in Range(s)
    OBVIOUS
  <2>1. ASSUME k \in Range(t) PROVE Child(k) \in Range(s)
    <3>1. PICK i \in DOMAIN t : t[i] = k
      BY <2>1 DEF Range
    <3> QED
      BY <1>8, <1>9, <3>1 DEF Range
  <2>2. ASSUME Child(k) \in Range(s) PROVE k \in Range(t)
    <3>1. PICK i \in DOMAIN s : s[i] = Child(k)
      BY <2>2 DEF Range
    <3>2. t[i] = k
      BY <1>8, <3>1 DEF Child, Open
    <3> QED
      BY <1>8, <3>2 DEF Range
  <2> QED
    BY <2>1, <2>2
<1>11. \A k : Child(k).how = "child" /\ Child(k).agent = "bus"
  BY DEF Child, Open
<1>12. ChildrenOf(h, A) = t
  BY DEF ChildrenOf, all, I, s, t
<1>13. "io" \in Protocols
  BY DEF Protocols
<1> HIDE DEF Installed, Child
<1>14. ASSUME NEW k
       PROVE  k \in Range(t) <=> /\ "bus" \in A /\ Installed(h, "io")
                                 /\ k \in Kids /\ Child(k) \in Range(opens[<<h, "io">>])
  <2>1. k \in Range(t) <=> Child(k) \in Range(all) /\ "bus" \in A
    BY <1>6, <1>10, <1>11
  <2>2. Child(k) \in Range(all) <=>
          \E p \in Protocols : Installed(h, p) /\ Child(k) \in Range(opens[<<h, p>>])
    BY <1>1
  <2> QED
    BY <1>3, <1>13, <2>1, <2>2
<1> QED
  BY <1>8, <1>12, <1>14

-----------------------------------------------------------------------------
(******************************** The stack ********************************)

LEMMA FrontOf ==
  ASSUME NEW T, NEW s \in Seq(T), s # <<>>
  PROVE  /\ Len(s) \in Nat /\ Len(s) > 0
         /\ Front(s) \in Seq(T) /\ Len(Front(s)) = Len(s) - 1
         /\ \A i \in 1 .. Len(s) - 1 : Front(s)[i] = s[i]
<1>1. Len(s) \in Nat /\ Len(s) > 0
  OBVIOUS
<1>2. \A i \in 1 .. Len(s) - 1 : s[i] \in T
  BY <1>1
<1>3. Front(s) = [i \in 1 .. Len(s) - 1 |-> s[i]]
  BY <1>1 DEF Front
<1> QED
  BY <1>1, <1>2, <1>3

LEMMA TopFrame ==
  ASSUME NEW T, stack \in Seq(T), stack # <<>>
  PROVE  Top \in T /\ Len(stack) \in Nat /\ Len(stack) > 0 /\ Top = stack[Len(stack)]
BY DEF Top, Last

\* What is below the last frame stays.
Below == \A i \in 1 .. Len(stack) - 1 : i <= Len(stack') /\ stack'[i] = stack[i]

\* The last call goes on.
LEMMA Goes ==
  ASSUME NEW T, stack \in Seq(T), stack # <<>>, NEW f \in T, GoOn(f)
  PROVE  /\ stack' \in Seq(T) /\ Len(stack') = Len(stack) /\ stack'[Len(stack)] = f
         /\ Below
<1> DEFINE s == Front(stack)
<1>1. /\ Len(stack) \in Nat /\ Len(stack) > 0 /\ s \in Seq(T) /\ Len(s) = Len(stack) - 1
      /\ \A i \in 1 .. Len(stack) - 1 : s[i] = stack[i]
  BY FrontOf
<1>2. stack' = Append(s, f)
  BY DEF GoOn
<1> HIDE DEF s
<1> QED
  BY <1>1, <1>2 DEF Below

\* The last call makes a call.
LEMMA Calling ==
  ASSUME NEW T, stack \in Seq(T), stack # <<>>, NEW f \in T, NEW g \in T, Invoke(f, g)
  PROVE  /\ stack' \in Seq(T) /\ Len(stack') = Len(stack) + 1
         /\ stack'[Len(stack)] = f /\ stack'[Len(stack) + 1] = g
         /\ Below
<1> DEFINE s == Front(stack)
<1>1. /\ Len(stack) \in Nat /\ Len(stack) > 0 /\ s \in Seq(T) /\ Len(s) = Len(stack) - 1
      /\ \A i \in 1 .. Len(stack) - 1 : s[i] = stack[i]
  BY FrontOf
<1>2. stack' = s \o <<f, g>>
  BY DEF Invoke
<1> HIDE DEF s
<1>3. stack' = Append(Append(s, f), g)
  BY <1>1, <1>2
<1> QED
  BY <1>1, <1>3 DEF Below

\* f, told of how the call it has made ended.
Told(f, status) == [f EXCEPT !.status = status]

\* The last call returns.
LEMMA Returning ==
  ASSUME NEW T, stack \in Seq(T), stack # <<>>, NEW status, Return(status),
         \A f \in T : Told(f, status) \in T
  PROVE  /\ stack' \in Seq(T) /\ Len(stack') = Len(stack) - 1
         /\ \A i \in 1 .. Len(stack) - 2 : stack'[i] = stack[i]
         /\ Len(stack) > 1 =>
              stack'[Len(stack) - 1] = IF Top.callback THEN stack[Len(stack) - 1]
                                       ELSE Told(stack[Len(stack) - 1], status)
<1> DEFINE s == Front(stack)
           n == Len(stack)
<1>1. /\ n \in Nat /\ n > 0 /\ s \in Seq(T) /\ Len(s) = n - 1
      /\ \A i \in 1 .. n - 1 : s[i] = stack[i]
  BY FrontOf
<1>2. stack' = IF n = 1 \/ Top.callback THEN s ELSE [s EXCEPT ![n - 1].status = status]
  BY DEF Return
<1> HIDE DEF s, n
<1>3. CASE n = 1 \/ Top.callback
  <2>1. stack' = s
    BY <1>2, <1>3
  <2> QED
    BY <1>1, <1>3, <2>1 DEF n
<1>4. CASE ~ (n = 1 \/ Top.callback)
  <2>1. n - 1 \in DOMAIN s /\ n - 1 \in 1 .. n - 1
    BY <1>1, <1>4
  <2>2. stack' = [s EXCEPT ![n - 1] = Told(s[n - 1], status)]
    BY <1>2, <1>4, <2>1 DEF Told
  <2>3. Told(s[n - 1], status) \in T
    BY <1>1, <2>1
  <2> HIDE DEF Told
  <2>4. /\ stack' \in Seq(T) /\ Len(stack') = n - 1
        /\ \A i \in 1 .. n - 2 : stack'[i] = stack[i]
    BY <1>1, <2>1, <2>2, <2>3
  <2>5. stack'[n - 1] = Told(stack[n - 1], status)
    BY <1>1, <2>1, <2>2, <2>3
  <2> QED
    BY <1>4, <2>4, <2>5 DEF n
<1> QED
  BY <1>3, <1>4

\* Somebody calls.
LEMMA Beginning ==
  ASSUME NEW T, stack \in Seq(T), NEW op, NEW f, Begin(op, f),
         NEW g \in T, g = [f EXCEPT !.callback = stack # <<>>]
  PROVE  /\ stack' \in Seq(T) /\ Len(stack') = Len(stack) + 1 /\ Len(stack) \in Nat
         /\ stack'[Len(stack) + 1] = g
         /\ \A i \in 1 .. Len(stack) : stack'[i] = stack[i]
<1>1. stack' = Append(stack, g)
  BY DEF Begin
<1> QED
  BY <1>1

-----------------------------------------------------------------------------
(********************************* Frames **********************************)

Statuses == {"", "success", "error"}

LEMMA ToldFrame ==
  ASSUME NEW f \in Frames, NEW status \in Statuses
  PROVE  Told(f, status) \in Frames
<1>1. Told(f, status) \in FrameType
  BY DEF Frames, FrameType, Told, Statuses
<1>2. Formed(Told(f, status))
  BY DEF Frames, FrameType, Formed, Told
<1> QED
  BY <1>1, <1>2 DEF Frames

\* A frame is marked as a call of the notification function, or not.
Marked(f, callback) == [f EXCEPT !.callback = callback]

LEMMA MarkedFrame ==
  ASSUME NEW f \in Frames, NEW callback \in BOOLEAN
  PROVE  Marked(f, callback) \in Frames
<1>1. Marked(f, callback) \in FrameType
  BY DEF Frames, FrameType, Marked
<1>2. Formed(Marked(f, callback))
  BY DEF Frames, FrameType, Formed, Marked
<1> QED
  BY <1>1, <1>2 DEF Frames

IsCall(c, op, at) == c \in FrameType /\ c.op = op /\ c.at = at

LEMMA CallFrame ==
  ASSUME NEW op \in Ops, NEW at \in Labels, NEW h \in Handles
  PROVE  IsCall(Call(op, at, h), op, at)
<1>1. <<>> \in Seq(Drivers) /\ <<>> \in Seq(Kids)
  OBVIOUS
<1> QED
  BY <1>1 DEF IsCall, Call, FrameType

LEMMA NewFrames ==
  ASSUME NEW h \in Handles
  PROVE  /\ \A p \in Protocols : Uninstall(h, p) \in Frames /\ Reinstall(h, p) \in Frames
         /\ \A p \in Protocols : Exclusive(h, p) \in Frames
         /\ \A agent \in Drivers \cup {""}, child \in Kids \cup {Null} :
              Disconnect(h, agent, child) \in Frames
         /\ \A recursive \in BOOLEAN : Connect(h, recursive) \in Frames
         /\ WholeTree(h) \in Frames
         /\ \A d \in Drivers : Start(d, h) \in Frames
         /\ \A d \in Drivers, kids \in Seq(Kids) : Stop(d, h, kids) \in Frames
<1>1. ASSUME NEW p \in Protocols
      PROVE  Uninstall(h, p) \in Frames
  <2>1. ASSUME NEW c, IsCall(c, "uninstall", "find")
        PROVE  [c EXCEPT !.p = p] \in Frames
    <3>1. c \in FrameType
      BY <2>1 DEF IsCall
    <3> QED
      BY <2>1, <3>1 DEF IsCall, Frames, FrameType, Formed
  <2>2. IsCall(Call("uninstall", "find", h), "uninstall", "find")
    <3>1. "uninstall" \in Ops /\ "find" \in Labels
      BY DEF Ops, Labels
    <3> QED
      BY <3>1, CallFrame, Zenon
  <2> QED
    BY <2>1, <2>2, Zenon DEF Uninstall
<1>2. ASSUME NEW p \in Protocols
      PROVE  Reinstall(h, p) \in Frames
  <2>1. ASSUME NEW c, IsCall(c, "reinstall", "find")
        PROVE  [c EXCEPT !.p = p] \in Frames
    <3>1. c \in FrameType
      BY <2>1 DEF IsCall
    <3> QED
      BY <2>1, <3>1 DEF IsCall, Frames, FrameType, Formed
  <2>2. IsCall(Call("reinstall", "find", h), "reinstall", "find")
    <3>1. "reinstall" \in Ops /\ "find" \in Labels
      BY DEF Ops, Labels
    <3> QED
      BY <3>1, CallFrame, Zenon
  <2> QED
    BY <2>1, <2>2, Zenon DEF Reinstall
<1>3. ASSUME NEW p \in Protocols
      PROVE  Exclusive(h, p) \in Frames
  <2>1. ASSUME NEW c, IsCall(c, "open", "open")
        PROVE  [c EXCEPT !.p = p, !.agent = "app", !.how = "exclusive"] \in Frames
    <3>1. c \in FrameType
      BY <2>1 DEF IsCall
    <3> QED
      BY <2>1, <3>1 DEF IsCall, Frames, FrameType, Formed
  <2>2. IsCall(Call("open", "open", h), "open", "open")
    <3>1. "open" \in Ops /\ "open" \in Labels
      BY DEF Ops, Labels
    <3> QED
      BY <3>1, CallFrame, Zenon
  <2> QED
    BY <2>1, <2>2, Zenon DEF Exclusive
<1>9. <<>> \in Seq(Drivers) /\ \A d \in Drivers : <<d>> \in Seq(Drivers)
  OBVIOUS
<1>4. ASSUME NEW agent \in Drivers \cup {""}, NEW child \in Kids \cup {Null}
      PROVE  Disconnect(h, agent, child) \in Frames
  <2>1. ASSUME NEW c, IsCall(c, "disconnect", "agents") \/ IsCall(c, "disconnect", "next"),
               NEW drivers \in Seq(Drivers)
        PROVE  [c EXCEPT !.child = child, !.drivers = drivers] \in Frames
    <3>1. c \in FrameType
      BY <2>1 DEF IsCall
    <3> QED
      BY <2>1, <3>1 DEF IsCall, Frames, FrameType, Formed
  <2>2. /\ IsCall(Call("disconnect", "agents", h), "disconnect", "agents")
        /\ IsCall(Call("disconnect", "next", h), "disconnect", "next")
    <3>1. "disconnect" \in Ops /\ "agents" \in Labels /\ "next" \in Labels
      BY DEF Ops, Labels
    <3> QED
      BY <3>1, CallFrame, Zenon
  <2>3. CASE agent = ""
    <3>1. <<>> \in Seq(Drivers)
      BY <1>9, Zenon
    <3>2. Disconnect(h, agent, child)
            = [Call("disconnect", "agents", h) EXCEPT !.child = child, !.drivers = <<>>]
      BY <2>3 DEF Disconnect
    <3>3. [Call("disconnect", "agents", h) EXCEPT !.child = child, !.drivers = <<>>]
            \in Frames
      <4>1. IsCall(Call("disconnect", "agents", h), "disconnect", "agents")
        BY <2>2
      <4> HIDE DEF IsCall
      <4> QED
        BY <2>1, <3>1, <4>1, Zenon
    <3> QED
      BY <3>2, <3>3, Zenon
  <2>4. CASE agent # ""
    <3>1. <<agent>> \in Seq(Drivers)
      <4>1. agent \in Drivers
        BY <2>4
      <4> QED
        BY <1>9, <4>1, Zenon
    <3>2. Disconnect(h, agent, child)
            = [Call("disconnect", "next", h) EXCEPT !.child = child, !.drivers = <<agent>>]
      BY <2>4, Zenon DEF Disconnect
    <3>3. [Call("disconnect", "next", h) EXCEPT !.child = child, !.drivers = <<agent>>]
            \in Frames
      <4>1. IsCall(Call("disconnect", "next", h), "disconnect", "next")
        BY <2>2
      <4> HIDE DEF IsCall
      <4> QED
        BY <2>1, <3>1, <4>1, Zenon
    <3> QED
      BY <3>2, <3>3, Zenon
  <2> QED
    BY <2>3, <2>4
<1>5. ASSUME NEW recursive \in BOOLEAN
      PROVE  Connect(h, recursive) \in Frames
  <2>1. ASSUME NEW c, IsCall(c, "connect", "collect")
        PROVE  [c EXCEPT !.recursive = recursive] \in Frames
    <3>1. c \in FrameType
      BY <2>1 DEF IsCall
    <3> QED
      BY <2>1, <3>1 DEF IsCall, Frames, FrameType, Formed
  <2>2. IsCall(Call("connect", "collect", h), "connect", "collect")
    <3>1. "connect" \in Ops /\ "collect" \in Labels
      BY DEF Ops, Labels
    <3> QED
      BY <3>1, CallFrame, Zenon
  <2> QED
    BY <2>1, <2>2, Zenon DEF Connect
<1>6. WholeTree(h) \in Frames
  BY <1>5 DEF WholeTree
<1>7. ASSUME NEW d \in Drivers
      PROVE  Start(d, h) \in Frames
  <2>1. ASSUME NEW c, IsCall(c, "start", "start")
        PROVE  [c EXCEPT !.agent = d] \in Frames
    <3>1. c \in FrameType
      BY <2>1 DEF IsCall
    <3> QED
      BY <2>1, <3>1 DEF IsCall, Frames, FrameType, Formed
  <2>2. IsCall(Call("start", "start", h), "start", "start")
    <3>1. "start" \in Ops /\ "start" \in Labels
      BY DEF Ops, Labels
    <3> QED
      BY <3>1, CallFrame, Zenon
  <2> QED
    BY <2>1, <2>2, Zenon DEF Start
<1>8. ASSUME NEW d \in Drivers, NEW kids \in Seq(Kids)
      PROVE  Stop(d, h, kids) \in Frames
  <2>1. ASSUME NEW c, IsCall(c, "stop", "stop")
        PROVE  [c EXCEPT !.agent = d, !.kids = kids] \in Frames
    <3>1. c \in FrameType
      BY <2>1 DEF IsCall
    <3> QED
      BY <2>1, <3>1 DEF IsCall, Frames, FrameType, Formed
  <2>2. IsCall(Call("stop", "stop", h), "stop", "stop")
    <3>1. "stop" \in Ops /\ "stop" \in Labels
      BY DEF Ops, Labels
    <3> QED
      BY <3>1, CallFrame, Zenon
  <2> QED
    BY <2>1, <2>2, Zenon DEF Stop
<1> QED
  BY <1>1, <1>2, <1>3, <1>4, <1>5, <1>6, <1>7, <1>8

-----------------------------------------------------------------------------
(****************** What the registered function is told of ****************)

\* An interface is being reinstalled that will be signalled.
Moved(f) == f.at = "moved" /\ f.p = Watched

Reader ==
  /\ entry \in Seq(Handles) /\ IsInjective(entry)
  /\ Range(entry) = {h \in Handles : Installed(h, Watched)}
  /\ position \in Range(entry) \cup {Null}
  /\ unseen = Range(SubSeq(entry, After, Len(entry)))
  /\ unseen # {} => signaled \/ \E i \in DOMAIN stack : Moved(stack[i])

Known == Typed /\ Reader

\* The interfaces that are being reinstalled still are.
MovedStays ==
  (\E i \in DOMAIN stack : Moved(stack[i])) => \E i \in DOMAIN stack' : Moved(stack'[i])

LEMMA QuietStep ==
  ASSUME Known, OpensTyped', stack' \in Seq(Frames), MovedStays, bindings' \subseteq Drivers,
         UNCHANGED <<scenario, protocols, notify>>
  PROVE  Known'
<1>1. Typed'
  BY DEF Known, Typed, Tables, notify
<1>2. entry' = entry /\ position' = position /\ signaled' = signaled /\ unseen' = unseen
      /\ protocols' = protocols
  BY DEF notify
<1>3. After' = After /\ \A h : Installed(h, Watched)' <=> Installed(h, Watched)
  BY <1>2 DEF After, Installed
<1>4. Reader'
  BY <1>2, <1>3 DEF Known, Reader, MovedStays
<1> QED
  BY <1>1, <1>4 DEF Known

LEMMA SameOpens ==
  ASSUME OpensTyped, UNCHANGED opens
  PROVE  OpensTyped'
BY DEF OpensTyped

\* The last call goes on, and what is below it stays.
LEMMA QuietGoes ==
  ASSUME Known, stack # <<>>, ~ Moved(Top), NEW f \in Frames, GoOn(f), OpensTyped',
         UNCHANGED <<scenario, protocols, notify, bindings>>
  PROVE  Known'
<1>1. stack \in Seq(Frames) /\ bindings \subseteq Drivers
  BY DEF Known, Typed
<1>2. /\ stack' \in Seq(Frames) /\ Len(stack') = Len(stack)
      /\ \A i \in 1 .. Len(stack) - 1 : stack'[i] = stack[i]
  BY <1>1, Goes DEF Below
<1>3. MovedStays
  <2>1. Len(stack) \in Nat /\ Top = stack[Len(stack)]
    BY <1>1, TopFrame
  <2>2. ASSUME NEW i \in DOMAIN stack, Moved(stack[i])
        PROVE  i \in DOMAIN stack' /\ Moved(stack'[i])
    <3>1. i # Len(stack)
      BY <2>1, <2>2
    <3>2. i \in 1 .. Len(stack) - 1 /\ i \in DOMAIN stack'
      BY <1>1, <1>2, <2>1, <3>1
    <3> QED
      BY <1>2, <2>2, <3>2
  <2> QED
    BY <2>2 DEF MovedStays
<1> QED
  BY <1>1, <1>2, <1>3, QuietStep

LEMMA QuietCalls ==
  ASSUME Known, stack # <<>>, ~ Moved(Top), NEW f \in Frames, NEW g \in Frames, Invoke(f, g),
         OpensTyped', UNCHANGED <<scenario, protocols, notify, bindings>>
  PROVE  Known'
<1>1. stack \in Seq(Frames) /\ bindings \subseteq Drivers
  BY DEF Known, Typed
<1>2. /\ stack' \in Seq(Frames) /\ Len(stack') = Len(stack) + 1
      /\ \A i \in 1 .. Len(stack) - 1 : stack'[i] = stack[i]
  BY <1>1, Calling DEF Below
<1>3. MovedStays
  <2>1. Len(stack) \in Nat /\ Top = stack[Len(stack)]
    BY <1>1, TopFrame
  <2>2. ASSUME NEW i \in DOMAIN stack, Moved(stack[i])
        PROVE  i \in DOMAIN stack' /\ Moved(stack'[i])
    <3>1. i # Len(stack)
      BY <2>1, <2>2
    <3>2. i \in 1 .. Len(stack) - 1 /\ i \in DOMAIN stack'
      BY <1>1, <1>2, <2>1, <3>1
    <3> QED
      BY <1>2, <2>2, <3>2
  <2> QED
    BY <2>2 DEF MovedStays
<1> QED
  BY <1>1, <1>2, <1>3, QuietStep

\* The frames below one that returns keep all but their status.
LEMMA ReturnMoves ==
  ASSUME stack \in Seq(Frames), stack # <<>>, ~ Moved(Top), NEW status \in Statuses,
         Return(status)
  PROVE  stack' \in Seq(Frames) /\ MovedStays
<1>1. \A f \in Frames : Told(f, status) \in Frames
  BY ToldFrame
<1>2. /\ stack' \in Seq(Frames) /\ Len(stack') = Len(stack) - 1
      /\ \A i \in 1 .. Len(stack) - 2 : stack'[i] = stack[i]
      /\ Len(stack) > 1 =>
           stack'[Len(stack) - 1] = IF Top.callback THEN stack[Len(stack) - 1]
                                    ELSE Told(stack[Len(stack) - 1], status)
  BY <1>1, Returning
<1>3. Len(stack) \in Nat /\ Top = stack[Len(stack)]
  BY TopFrame
<1>4. ASSUME NEW i \in DOMAIN stack, Moved(stack[i])
      PROVE  i \in DOMAIN stack' /\ Moved(stack'[i])
  <2>1. i # Len(stack)
    BY <1>3, <1>4
  <2>2. i \in 1 .. Len(stack) - 1 /\ i \in DOMAIN stack'
    BY <1>2, <1>3, <2>1
  <2>3. CASE i = Len(stack) - 1
    <3>1. \A f \in Frames : Moved(f) => Moved(Told(f, status))
      BY DEF Moved, Told, Frames, FrameType
    <3>2. stack[i] \in Frames
      OBVIOUS
    <3>3. stack'[i] = stack[i] \/ stack'[i] = Told(stack[i], status)
      BY <1>2, <1>3, <2>2, <2>3
    <3> QED
      BY <1>4, <2>2, <3>1, <3>2, <3>3
  <2>4. CASE i # Len(stack) - 1
    BY <1>2, <1>3, <1>4, <2>2, <2>4
  <2> QED
    BY <2>3, <2>4
<1> QED
  BY <1>2, <1>4 DEF MovedStays

LEMMA QuietReturns ==
  ASSUME Known, stack # <<>>, ~ Moved(Top), NEW status \in Statuses, Return(status),
         OpensTyped', UNCHANGED <<scenario, protocols, notify, bindings>>
  PROVE  Known'
<1>1. stack \in Seq(Frames) /\ bindings \subseteq Drivers
  BY DEF Known, Typed
<1>2. stack' \in Seq(Frames) /\ MovedStays
  BY <1>1, ReturnMoves
<1> QED
  BY <1>1, <1>2, QuietStep

\* Somebody calls.
LEMMA QuietBegins ==
  ASSUME Known, NEW op, NEW f \in Frames, Begin(op, f)
  PROVE  Known'
<1>1. stack \in Seq(Frames) /\ bindings \subseteq Drivers
  BY DEF Known, Typed
<1> DEFINE g == Marked(f, stack # <<>>)
<1>2. g \in Frames
  BY MarkedFrame
<1>3. g = [f EXCEPT !.callback = stack # <<>>]
  BY DEF Marked
<1> HIDE DEF g
<1>4. /\ stack' \in Seq(Frames) /\ Len(stack') = Len(stack) + 1 /\ Len(stack) \in Nat
      /\ \A i \in 1 .. Len(stack) : stack'[i] = stack[i]
  BY <1>1, <1>2, <1>3, Beginning
<1>5. MovedStays
  BY <1>1, <1>4 DEF MovedStays
<1>6. UNCHANGED <<scenario, protocols, notify>> /\ opens' = opens /\ bindings' = bindings
  BY DEF Begin, database
<1>7. OpensTyped'
  BY <1>6, SameOpens DEF Known, Typed, Tables
<1> QED
  BY <1>1, <1>4, <1>5, <1>6, <1>7, QuietStep

-----------------------------------------------------------------------------
(************************ What is known of the tables **********************)

LEMMA TheTop ==
  ASSUME Known, stack # <<>>
  PROVE  /\ Top \in Frames /\ Top \in FrameType /\ Formed(Top)
         /\ stack \in Seq(Frames) /\ Tables /\ OpensTyped /\ bindings \subseteq Drivers
         /\ Top.h \in Handles
<1>1. stack \in Seq(Frames) /\ Tables /\ OpensTyped /\ bindings \subseteq Drivers
  BY DEF Known, Typed, Tables
<1>2. Top \in Frames
  BY <1>1, TopFrame
<1> QED
  BY <1>1, <1>2 DEF Frames, FrameType

\* Nothing but the calls under way changes.
LEMMA NoOpens ==
  ASSUME Known, UNCHANGED database
  PROVE  OpensTyped' /\ UNCHANGED protocols /\ opens' = opens
BY SameOpens DEF Known, Typed, Tables, database

\* The opens of one kind.
LEMMA ThoseAre ==
  ASSUME NEW T, NEW s \in Seq(T), NEW how
  PROVE  /\ Those(s, how) \in Seq(T)
         /\ \A o : o \in Range(Those(s, how)) <=> o \in Range(s) /\ o.how = how
         /\ Some(s, how) <=> \E o \in Range(s) : o.how = how
         /\ Some(s, how) => Those(s, how)[1] \in Range(s) /\ Those(s, how)[1].how = how
<1> DEFINE I == {i \in DOMAIN s : s[i].how = how}
           t == Those(s, how)
<1>1. t \in Seq(T) /\ Range(t) = {s[i] : i \in I}
  <2>1. I \subseteq DOMAIN s
    OBVIOUS
  <2>2. t = Subsequence(s, I)
    BY DEF Those
  <2> HIDE DEF I, t
  <2> QED
    BY <2>1, <2>2, PartOf
<1> HIDE DEF t
<1>2. \A o : o \in Range(t) <=> o \in Range(s) /\ o.how = how
  BY <1>1 DEF Range
<1>3. t # <<>> <=> \E o : o \in Range(t)
  <2>1. t # <<>> => 1 \in DOMAIN t
    BY <1>1
  <2>2. (\E i : i \in DOMAIN t) => t # <<>>
    BY <1>1
  <2> QED
    BY <2>1, <2>2 DEF Range
<1>4. t # <<>> => t[1] \in Range(t)
  <2>1. t # <<>> => 1 \in DOMAIN t
    BY <1>1
  <2> QED
    BY <2>1 DEF Range
<1> QED
  BY <1>1, <1>2, <1>3, <1>4 DEF Some, t

\* The driver that is asked to stop for an interface.
LEMMA FirstDriver ==
  ASSUME Tables, NEW h \in Handles, NEW p \in Protocols, Some(opens[<<h, p>>], "driver")
  PROVE  LET o == Those(opens[<<h, p>>], "driver")[1]
         IN  o \in Range(opens[<<h, p>>]) /\ o.agent \in Drivers /\ Uses[o.agent] = p
<1> DEFINE s == opens[<<h, p>>]
           o == Those(s, "driver")[1]
<1>1. s \in Seq(Openings(h, p))
  BY DEF Tables, OpensTyped
<1> HIDE DEF s
<1>2. o \in Range(s) /\ o.how = "driver"
  BY <1>1, ThoseAre DEF s
<1>3. o \in Openings(h, p)
  BY <1>1, <1>2 DEF Range
<1> HIDE DEF o
<1>4. o.agent \in Drivers /\ Uses[o.agent] = p
  BY <1>2, <1>3, OpeningsAre
<1> QED
  BY <1>2, <1>4 DEF o, s

\* A part of the opens of an interface.
LEMMA FewerOpens ==
  ASSUME OpensTyped, NEW h \in Handles, NEW p \in Protocols, NEW I,
         I \subseteq DOMAIN opens[<<h, p>>],
         opens' = [opens EXCEPT ![<<h, p>>] = Subsequence(opens[<<h, p>>], I)]
  PROVE  /\ OpensTyped'
         /\ Range(opens'[<<h, p>>]) = {opens[<<h, p>>][i] : i \in I}
         /\ IsInjective(opens[<<h, p>>]) => IsInjective(opens'[<<h, p>>])
         /\ \A g \in Handles, q \in Protocols :
              g # h \/ q # p => opens'[<<g, q>>] = opens[<<g, q>>]
<1> DEFINE s == opens[<<h, p>>]
           t == Subsequence(s, I)
<1>1. s \in Seq(Openings(h, p))
  BY DEF OpensTyped
<1>2. /\ t \in Seq(Openings(h, p)) /\ Range(t) = {s[i] : i \in I}
      /\ IsInjective(s) => IsInjective(t)
  <2> HIDE DEF s
  <2>1. I \subseteq DOMAIN s
    BY DEF s
  <2> QED
    BY <1>1, <2>1, PartOf
<1>3. opens' = [opens EXCEPT ![<<h, p>>] = t]
  OBVIOUS
<1> HIDE DEF t
<1>4. /\ OpensTyped' /\ opens'[<<h, p>>] = t
      /\ \A g \in Handles, q \in Protocols : g # h \/ q # p => opens'[<<g, q>>] = opens[<<g, q>>]
  BY <1>2, <1>3, OpensSet
<1> QED
  BY <1>2, <1>4

\* CoreCloseProtocol takes away the opens of one agent for one controller.
LEMMA Closed ==
  ASSUME OpensTyped, NEW h \in Handles, NEW p \in Protocols, NEW agent, NEW controller,
         Close(h, p, agent, controller)
  PROVE  /\ OpensTyped'
         /\ \A o : o \in Range(opens'[<<h, p>>]) <=>
              o \in Range(opens[<<h, p>>]) /\ (o.agent # agent \/ o.controller # controller)
         /\ IsInjective(opens[<<h, p>>]) => IsInjective(opens'[<<h, p>>])
         /\ \A g \in Handles, q \in Protocols :
              g # h \/ q # p => opens'[<<g, q>>] = opens[<<g, q>>]
<1> DEFINE s == opens[<<h, p>>]
           kept == {i \in DOMAIN s : s[i].agent # agent \/ s[i].controller # controller}
<1>1. kept \subseteq DOMAIN opens[<<h, p>>]
  OBVIOUS
<1>2. opens' = [opens EXCEPT ![<<h, p>>] = Subsequence(opens[<<h, p>>], kept)]
  BY DEF Close
<1>3. \A o : o \in {s[i] : i \in kept} <=>
        o \in Range(s) /\ (o.agent # agent \/ o.controller # controller)
  BY DEF Range
<1> HIDE DEF kept
<1>4. /\ OpensTyped' /\ Range(opens'[<<h, p>>]) = {s[i] : i \in kept}
      /\ IsInjective(s) => IsInjective(opens'[<<h, p>>])
      /\ \A g \in Handles, q \in Protocols : g # h \/ q # p => opens'[<<g, q>>] = opens[<<g, q>>]
  BY <1>1, <1>2, FewerOpens
<1> QED
  BY <1>3, <1>4

\* An open is added to those of an interface.
LEMMA OneMore ==
  ASSUME OpensTyped, NEW h \in Handles, NEW p \in Protocols, NEW o \in Openings(h, p),
         opens' = [opens EXCEPT ![<<h, p>>] = Append(opens[<<h, p>>], o)]
  PROVE  /\ OpensTyped'
         /\ opens'[<<h, p>>] = Append(opens[<<h, p>>], o)
         /\ Range(opens'[<<h, p>>]) = Range(opens[<<h, p>>]) \cup {o}
         /\ IsInjective(opens[<<h, p>>]) /\ o \notin Range(opens[<<h, p>>]) =>
              IsInjective(opens'[<<h, p>>])
         /\ \A g \in Handles, q \in Protocols :
              g # h \/ q # p => opens'[<<g, q>>] = opens[<<g, q>>]
<1> DEFINE s == opens[<<h, p>>]
           t == Append(s, o)
<1>1. s \in Seq(Openings(h, p))
  BY DEF OpensTyped
<1>2. opens' = [opens EXCEPT ![<<h, p>>] = t]
  OBVIOUS
<1>3. /\ t \in Seq(Openings(h, p)) /\ Len(t) = Len(s) + 1 /\ Len(s) \in Nat
      /\ t[Len(s) + 1] = o /\ \A i \in 1 .. Len(s) : t[i] = s[i]
  BY <1>1
<1>4. /\ OpensTyped' /\ opens'[<<h, p>>] = t
      /\ \A g \in Handles, q \in Protocols : g # h \/ q # p => opens'[<<g, q>>] = opens[<<g, q>>]
  <2> HIDE DEF t
  <2> QED
    BY <1>2, <1>3, OpensSet
<1> HIDE DEF s, t
<1>5. DOMAIN t = 1 .. Len(s) + 1 /\ DOMAIN s = 1 .. Len(s)
  BY <1>1, <1>3
<1>6. Range(t) = Range(s) \cup {o}
  <2>1. 1 .. Len(s) + 1 = (1 .. Len(s)) \cup {Len(s) + 1}
    BY <1>3
  <2> QED
    BY <1>3, <1>5, <2>1 DEF Range
<1>7. ASSUME IsInjective(s), o \notin Range(s)
      PROVE  IsInjective(t)
  <2> SUFFICES ASSUME NEW i \in DOMAIN t, NEW j \in DOMAIN t, t[i] = t[j], i # j PROVE FALSE
    BY DEF IsInjective
  <2>1. i \in 1 .. Len(s) \/ j \in 1 .. Len(s)
    BY <1>3, <1>5
  <2>2. CASE i \in 1 .. Len(s) /\ j \in 1 .. Len(s)
    BY <1>3, <1>5, <1>7, <2>2 DEF IsInjective
  <2>3. CASE i \in 1 .. Len(s) /\ j = Len(s) + 1
    BY <1>3, <1>5, <1>7, <2>3 DEF Range
  <2>4. CASE j \in 1 .. Len(s) /\ i = Len(s) + 1
    BY <1>3, <1>5, <1>7, <2>4 DEF Range
  <2> QED
    BY <1>3, <1>5, <2>1, <2>2, <2>3, <2>4
<1> QED
  BY <1>4, <1>6, <1>7 DEF s, t

\* The opens of an interface after a call of CoreOpenProtocol.
LEMMA OpensOnce ==
  ASSUME OpensTyped, NEW h \in Handles, NEW p \in Protocols, NEW o \in Openings(h, p),
         opens' = [opens EXCEPT ![<<h, p>>] = Opened(h, p, o)]
  PROVE  /\ OpensTyped'
         /\ Range(opens'[<<h, p>>]) \in {Range(opens[<<h, p>>]), Range(opens[<<h, p>>]) \cup {o}}
         /\ \/ opens'[<<h, p>>] = opens[<<h, p>>]
            \/ /\ opens'[<<h, p>>] = Append(opens[<<h, p>>], o)
               /\ OpenStatus(h, p, o) = "success" /\ o \notin Range(opens[<<h, p>>])
         /\ OpenStatus(h, p, o) # "error" => o \in Range(opens'[<<h, p>>])
         /\ IsInjective(opens[<<h, p>>]) => IsInjective(opens'[<<h, p>>])
         /\ \A g \in Handles, q \in Protocols :
              g # h \/ q # p => opens'[<<g, q>>] = opens[<<g, q>>]
<1> DEFINE ok == OpenStatus(h, p, o) = "success" /\ o \notin Range(opens[<<h, p>>])
<1>1. CASE ok
  <2>1. Opened(h, p, o) = Append(opens[<<h, p>>], o)
    BY <1>1 DEF Opened
  <2>2. opens' = [opens EXCEPT ![<<h, p>>] = Append(opens[<<h, p>>], o)]
    BY <2>1
  <2>3. /\ OpensTyped' /\ opens'[<<h, p>>] = Append(opens[<<h, p>>], o)
        /\ Range(opens'[<<h, p>>]) = Range(opens[<<h, p>>]) \cup {o}
        /\ IsInjective(opens[<<h, p>>]) => IsInjective(opens'[<<h, p>>])
        /\ \A g \in Handles, q \in Protocols : g # h \/ q # p => opens'[<<g, q>>] = opens[<<g, q>>]
    <3>1. OpensTyped' /\ opens'[<<h, p>>] = Append(opens[<<h, p>>], o)
      BY <2>2, OneMore
    <3>2. Range(opens'[<<h, p>>]) = Range(opens[<<h, p>>]) \cup {o}
      BY <2>2, OneMore
    <3>3. o \notin Range(opens[<<h, p>>])
      BY <1>1
    <3>4. IsInjective(opens[<<h, p>>]) => IsInjective(opens'[<<h, p>>])
      BY <2>2, <3>3, OneMore
    <3>5. \A g \in Handles, q \in Protocols : g # h \/ q # p => opens'[<<g, q>>] = opens[<<g, q>>]
      BY <2>2, OneMore
    <3> QED
      BY <3>1, <3>2, <3>4, <3>5
  <2> QED
    BY <1>1, <2>3
<1>2. CASE ~ ok
  <2>1. Opened(h, p, o) = opens[<<h, p>>]
    BY <1>2 DEF Opened
  <2>2. opens' = opens
    BY <2>1 DEF OpensTyped
  <2>3. OpenStatus(h, p, o) # "error" => o \in Range(opens[<<h, p>>])
    BY <1>2 DEF OpenStatus
  <2> QED
    BY <2>2, <2>3, SameOpens
<1> QED
  BY <1>1, <1>2

-----------------------------------------------------------------------------
(*************************** The steps are known ***************************)

LEMMA Results == "success" \in Statuses /\ "error" \in Statuses /\ "" \in Statuses
BY DEF Statuses

LEMMA NotFoundKnown ==
  ASSUME Known, NotFound PROVE Known'
<1>1. stack # <<>> /\ ~ Moved(Top) /\ Return("error")
  BY DEF NotFound, Removing, Moved
<1>2. UNCHANGED <<scenario, notify, bindings>> /\ UNCHANGED database
  BY DEF NotFound
<1> QED
  BY <1>1, <1>2, NoOpens, Results, QuietReturns

LEMMA FindDriverKnown ==
  ASSUME Known, FindDriver PROVE Known'
<1> DEFINE f == [Top EXCEPT !.at = "asked"]
           agent == Those(opens[<<Top.h, Top.p>>], "driver")[1].agent
           g == Disconnect(Top.h, agent, Null)
<1>1. /\ stack # <<>> /\ Top.op \in {"uninstall", "reinstall"} /\ Top.at \in {"find", "asked"}
      /\ Some(opens[<<Top.h, Top.p>>], "driver") /\ Invoke(f, g)
  BY DEF FindDriver, Walks, Removing
<1>2. UNCHANGED <<scenario, notify, bindings>> /\ UNCHANGED database
  BY DEF FindDriver
<1>3. Top \in Frames /\ Top.h \in Handles /\ Top.p \in Protocols /\ Tables
  BY <1>1, TheTop DEF Formed
<1>4. f \in Frames
  BY <1>1, <1>3 DEF Frames, FrameType, Formed, Labels
<1>5. agent \in Drivers
  BY <1>1, <1>3, FirstDriver
<1>6. g \in Frames
  <2> HIDE DEF agent
  <2> QED
    BY <1>3, <1>5, NewFrames
<1> HIDE DEF f, g
<1>7. ~ Moved(Top)
  BY <1>1 DEF Moved
<1> QED
  BY <1>1, <1>2, <1>4, <1>6, <1>7, NoOpens, QuietCalls

LEMMA RefuseKnown ==
  ASSUME Known, Refuse PROVE Known'
<1> DEFINE f == [Top EXCEPT !.at = "refused"]
           g == WholeTree(Top.h)
<1>1. /\ stack # <<>> /\ Top.op \in {"uninstall", "reinstall"} /\ Top.at \in {"find", "asked"}
      /\ Invoke(f, g)
  BY DEF Refuse, Walks, Removing
<1>2. UNCHANGED <<scenario, protocols, notify, bindings>>
  BY DEF Refuse
<1>3. Top \in Frames /\ Top.h \in Handles /\ Top.p \in Protocols /\ OpensTyped
  BY <1>1, TheTop DEF Formed
<1>4. f \in Frames
  BY <1>1, <1>3 DEF Frames, FrameType, Formed, Labels
<1>5. g \in Frames
  BY <1>3, NewFrames
<1> HIDE DEF f, g
<1>6. OpensTyped'
  <2>1. CASE UNCHANGED opens
    BY <1>3, <2>1, SameOpens
  <2>2. CASE opens' = [opens EXCEPT ![<<Top.h, Top.p>>] = Left]
    <3> DEFINE I == {i \in DOMAIN opens[<<Top.h, Top.p>>] : Strong(opens[<<Top.h, Top.p>>][i])}
    <3>1. I \subseteq DOMAIN opens[<<Top.h, Top.p>>]
      OBVIOUS
    <3>2. opens' = [opens EXCEPT ![<<Top.h, Top.p>>] = Subsequence(opens[<<Top.h, Top.p>>], I)]
      BY <2>2 DEF Left
    <3> HIDE DEF I
    <3> QED
      BY <1>3, <3>1, <3>2, FewerOpens
  <2> QED
    BY <2>1, <2>2 DEF Refuse
<1>7. ~ Moved(Top)
  BY <1>1 DEF Moved
<1> QED
  BY <1>1, <1>2, <1>4, <1>5, <1>6, <1>7, QuietCalls

LEMMA RefusedKnown ==
  ASSUME Known, Refused PROVE Known'
<1>1. stack # <<>> /\ ~ Moved(Top) /\ Return("error")
  BY DEF Refused, Removing, Moved
<1>2. UNCHANGED <<scenario, notify, bindings>> /\ UNCHANGED database
  BY DEF Refused
<1> QED
  BY <1>1, <1>2, NoOpens, Results, QuietReturns

LEMMA OpenDeniedKnown ==
  ASSUME Known, OpenDenied PROVE Known'
<1>1. stack # <<>> /\ ~ Moved(Top) /\ Return("error")
  BY DEF OpenDenied, At, Moved
<1>2. UNCHANGED <<scenario, notify, bindings>> /\ UNCHANGED database
  BY DEF OpenDenied
<1> QED
  BY <1>1, <1>2, NoOpens, Results, QuietReturns

LEMMA OpenFindDriverKnown ==
  ASSUME Known, OpenFindDriver PROVE Known'
<1> DEFINE f == [Top EXCEPT !.at = "asked"]
           agent == Those(opens[<<Top.h, Top.p>>], "driver")[1].agent
           g == Disconnect(Top.h, agent, Null)
<1>1. /\ stack # <<>> /\ Top.op = "open" /\ Top.at \in {"open", "asked"}
      /\ Some(opens[<<Top.h, Top.p>>], "driver") /\ Invoke(f, g)
  BY DEF OpenFindDriver, MayOpen, At
<1>2. UNCHANGED <<scenario, notify, bindings>> /\ UNCHANGED database
  BY DEF OpenFindDriver
<1>3. Top \in Frames /\ Top.h \in Handles /\ Top.p \in Protocols /\ Tables
  BY <1>1, TheTop DEF Formed
<1>4. f \in Frames
  BY <1>1, <1>3 DEF Frames, FrameType, Formed, Labels
<1>5. agent \in Drivers
  BY <1>1, <1>3, FirstDriver
<1>6. g \in Frames
  <2> HIDE DEF agent
  <2> QED
    BY <1>3, <1>5, NewFrames
<1> HIDE DEF f, g
<1>7. ~ Moved(Top)
  BY <1>1 DEF Moved
<1> QED
  BY <1>1, <1>2, <1>4, <1>6, <1>7, NoOpens, QuietCalls

LEMMA OpenSucceedsKnown ==
  ASSUME Known, OpenSucceeds
  PROVE  /\ Known'
         /\ LET o == Open("app", Null, "exclusive")
            IN  /\ o \in Openings(Top.h, Top.p) /\ OpensTyped
                /\ Top.h \in Handles /\ Top.p \in Protocols
                /\ opens' = [opens EXCEPT ![<<Top.h, Top.p>>] =
                               Append(opens[<<Top.h, Top.p>>], o)]
<1> DEFINE o == Open("app", Null, "exclusive")
<1>1. stack # <<>> /\ Top.op = "open" /\ Top.at \in {"open", "asked"} /\ Return("success")
  BY DEF OpenSucceeds, MayOpen, At
<1>2. UNCHANGED <<scenario, protocols, notify, bindings>>
  BY DEF OpenSucceeds
<1>3. /\ Top.h \in Handles /\ Top.p \in Protocols /\ OpensTyped
      /\ Top.agent = "app" /\ Top.how = "exclusive"
  BY <1>1, TheTop DEF Formed
<1>4. o \in Openings(Top.h, Top.p)
  BY DEF Openings
<1>5. opens' = [opens EXCEPT ![<<Top.h, Top.p>>] = Append(opens[<<Top.h, Top.p>>], o)]
  BY <1>3 DEF OpenSucceeds
<1> HIDE DEF o
<1>6. OpensTyped'
  BY <1>3, <1>4, <1>5, OneMore
<1>7. ~ Moved(Top)
  BY <1>1 DEF Moved
<1>8. Known'
  BY <1>1, <1>2, <1>6, <1>7, Results, QuietReturns
<1> QED
  BY <1>3, <1>4, <1>5, <1>8 DEF o

LEMMA CollectAgentsKnown ==
  ASSUME Known, CollectAgents PROVE Known'
<1> DEFINE f == [Top EXCEPT !.at = "next", !.drivers = ManagersOf(Top.h)]
<1>1. stack # <<>> /\ Top.op = "disconnect" /\ Top.at = "agents"
  BY DEF CollectAgents, At
<1>2. UNCHANGED <<scenario, notify, bindings>> /\ UNCHANGED database
  BY DEF CollectAgents
<1>3. Top \in Frames /\ Top.h \in Handles /\ Tables
  BY <1>1, TheTop
<1>4. ~ Moved(Top)
  BY <1>1 DEF Moved
<1>5. CASE Return("success")
  BY <1>1, <1>2, <1>4, <1>5, NoOpens, Results, QuietReturns
<1>6. CASE GoOn(f)
  <2>1. f \in Frames
    <3> DEFINE drivers == ManagersOf(Top.h)
    <3>1. drivers \in Seq(Drivers)
      BY <1>3, ManagersTyped
    <3> HIDE DEF drivers
    <3>2. [Top EXCEPT !.at = "next", !.drivers = drivers] \in Frames
      BY <1>1, <1>3, <3>1 DEF Frames, FrameType, Formed, Labels
    <3> QED
      BY <3>2 DEF drivers
  <2> HIDE DEF f
  <2> QED
    BY <1>1, <1>2, <1>4, <1>6, <2>1, NoOpens, QuietGoes
<1> QED
  BY <1>5, <1>6 DEF CollectAgents

\* The next agent is asked.
LEMMA SkipFrame ==
  ASSUME Known, stack # <<>>, Top.op = "disconnect", Top.drivers # <<>>, NEW any \in BOOLEAN
  PROVE  [Top EXCEPT !.at = "next", !.drivers = Tail(@), !.kids = <<>>, !.status = "",
                     !.any = any] \in Frames
<1>1. Top \in Frames
  BY TheTop
<1>2. Tail(Top.drivers) \in Seq(Drivers)
  <2>1. Top.drivers \in Seq(Drivers)
    BY <1>1 DEF Frames, FrameType
  <2>2. \A s \in Seq(Drivers) : s # <<>> => Tail(s) \in Seq(Drivers)
    OBVIOUS
  <2> QED
    BY <2>1, <2>2, Zenon
<1>3. <<>> \in Seq(Kids)
  OBVIOUS
<1> QED
  BY <1>1, <1>2, <1>3 DEF Frames, FrameType, Formed, Labels

LEMMA SkipKnown ==
  ASSUME Known, stack # <<>>, Top.op = "disconnect", Top.drivers # <<>>, NEW any \in BOOLEAN,
         Skip(any), UNCHANGED <<scenario, database, notify, bindings>>
  PROVE  Known'
<1> DEFINE f == [Top EXCEPT !.at = "next", !.drivers = Tail(@), !.kids = <<>>, !.status = "",
                            !.any = any]
<1>1. f \in Frames
  BY SkipFrame
<1>2. GoOn(f)
  BY DEF Skip
<1> HIDE DEF f
<1>3. ~ Moved(Top)
  BY TheTop DEF Moved, Formed
<1>4. UNCHANGED <<scenario, notify, bindings>> /\ UNCHANGED database
  OBVIOUS
<1> QED
  BY <1>1, <1>2, <1>3, <1>4, NoOpens, QuietGoes

LEMMA AllAskedKnown ==
  ASSUME Known, AllAsked PROVE Known'
<1>1. stack # <<>> /\ ~ Moved(Top)
  BY DEF AllAsked, At, Moved
<1>2. UNCHANGED <<scenario, notify, bindings>> /\ UNCHANGED database
  BY DEF AllAsked
<1>3. \E status \in Statuses : Return(status)
  BY Results DEF AllAsked
<1> QED
  BY <1>1, <1>2, <1>3, NoOpens, QuietReturns

LEMMA NoDriverKnown ==
  ASSUME Known, NoDriver PROVE Known'
<1>1. stack # <<>> /\ ~ Moved(Top) /\ Return("error")
  BY DEF NoDriver, At, Moved
<1>2. UNCHANGED <<scenario, notify, bindings>> /\ UNCHANGED database
  BY DEF NoDriver
<1> QED
  BY <1>1, <1>2, NoOpens, Results, QuietReturns

LEMMA CollectChildrenKnown ==
  ASSUME Known, CollectChildren PROVE Known'
<1> DEFINE children == Distinct(ChildrenOf(Top.h, {Agent}))
           at == IF children = <<>> THEN "release" ELSE "stop"
           f == [Top EXCEPT !.at = at, !.kids = children]
<1>1. stack # <<>> /\ Top.op = "disconnect" /\ Top.at = "next" /\ Top.drivers # <<>>
  BY DEF CollectChildren, At
<1>2. UNCHANGED <<scenario, database, notify, bindings>>
  BY DEF CollectChildren
<1>3. Top \in Frames /\ Top.h \in Handles /\ Tables
  BY <1>1, TheTop
<1>4. CASE Skip(Top.any)
  <2>1. Top.any \in BOOLEAN
    BY <1>3 DEF Frames, FrameType
  <2> QED
    BY <1>1, <1>2, <1>4, <2>1, SkipKnown
<1>5. CASE GoOn(f)
  <2>1. f \in Frames
    <3>1. children \in Seq(Kids)
      BY <1>3, ChildrenAre, DistinctOnes
    <3>2. at \in Labels /\ at \in {"release", "stop"}
      BY DEF Labels
    <3> HIDE DEF children, at
    <3> QED
      BY <1>1, <1>3, <3>1, <3>2 DEF Frames, FrameType, Formed
  <2> HIDE DEF f
  <2>2. ~ Moved(Top)
    BY <1>1 DEF Moved
  <2>3. UNCHANGED <<scenario, notify, bindings>> /\ UNCHANGED database
    BY <1>2
  <2> QED
    BY <1>1, <1>5, <2>1, <2>2, <2>3, NoOpens, QuietGoes
<1> QED
  BY <1>4, <1>5 DEF CollectChildren

LEMMA AgentOf ==
  ASSUME Known, stack # <<>>, Top.op = "disconnect", Top.at \notin {"agents", "next"}
  PROVE  Top.drivers # <<>> /\ Agent \in Drivers
<1>1. Top.drivers # <<>> /\ Top.drivers \in Seq(Drivers)
  BY TheTop DEF Formed, FrameType
<1>2. \A s \in Seq(Drivers) : s # <<>> => Head(s) \in Drivers
  OBVIOUS
<1> QED
  BY <1>1, <1>2, Zenon DEF Agent

LEMMA StopChildrenKnown ==
  ASSUME Known, StopChildren PROVE Known'
<1> DEFINE kids == IF Top.child = Null THEN Top.kids ELSE <<Top.child>>
           f == [Top EXCEPT !.at = "stopped"]
           g == Stop(Agent, Top.h, kids)
<1>1. stack # <<>> /\ Top.op = "disconnect" /\ Top.at = "stop" /\ Invoke(f, g)
  BY DEF StopChildren, At
<1>2. UNCHANGED <<scenario, notify, bindings>> /\ UNCHANGED database
  BY DEF StopChildren
<1>3. Top \in Frames /\ Top.h \in Handles
  BY <1>1, TheTop
<1>4. f \in Frames
  BY <1>1, <1>3 DEF Frames, FrameType, Formed, Labels
<1>5. kids \in Seq(Kids)
  <2>1. Top.child \in Kids \cup {Null} /\ Top.kids \in Seq(Kids)
    BY <1>3 DEF Frames, FrameType
  <2>2. \A k \in Kids : <<k>> \in Seq(Kids)
    OBVIOUS
  <2> QED
    BY <2>1, <2>2
<1>6. g \in Frames
  <2>1. Agent \in Drivers
    BY <1>1, AgentOf
  <2> HIDE DEF kids
  <2> QED
    BY <1>3, <1>5, <2>1, NewFrames
<1> HIDE DEF f, g
<1>7. ~ Moved(Top)
  BY <1>1 DEF Moved
<1> QED
  BY <1>1, <1>2, <1>4, <1>6, <1>7, NoOpens, QuietCalls

LEMMA StopDriverKnown ==
  ASSUME Known, StopDriver PROVE Known'
<1> DEFINE f == [Top EXCEPT !.at = "released"]
           g == Stop(Agent, Top.h, <<>>)
<1>1. stack # <<>> /\ Top.op = "disconnect" /\ Top.at \in {"release", "stopped"} /\ Invoke(f, g)
  BY DEF StopDriver, At
<1>2. UNCHANGED <<scenario, notify, bindings>> /\ UNCHANGED database
  BY DEF StopDriver
<1>3. Top \in Frames /\ Top.h \in Handles
  BY <1>1, TheTop
<1>4. f \in Frames
  BY <1>1, <1>3 DEF Frames, FrameType, Formed, Labels
<1>5. Agent \in Drivers /\ <<>> \in Seq(Kids)
  BY <1>1, AgentOf
<1>6. g \in Frames
  BY <1>3, <1>5, NewFrames
<1> HIDE DEF f, g
<1>7. ~ Moved(Top)
  BY <1>1 DEF Moved
<1> QED
  BY <1>1, <1>2, <1>4, <1>6, <1>7, NoOpens, QuietCalls

LEMMA DriverAskedKnown ==
  ASSUME Known, DriverAsked PROVE Known'
<1>1. /\ stack # <<>> /\ Top.op = "disconnect" /\ Top.at \in {"released", "stopped"}
      /\ Skip(CountsStop)
  BY DEF DriverAsked, At
<1>2. UNCHANGED <<scenario, database, notify, bindings>>
  BY DEF DriverAsked
<1>3. Top.any \in BOOLEAN
  BY <1>1, TheTop DEF FrameType
<1>4. CountsStop \in BOOLEAN
  BY <1>3 DEF CountsStop
<1>5. Top.drivers # <<>>
  BY <1>1, AgentOf
<1> HIDE DEF CountsStop
<1> QED
  BY <1>1, <1>2, <1>4, <1>5, SkipKnown

LEMMA BoundTyped == BoundDrivers \in Seq(Drivers)
<1>1. Order \in Seq(Drivers)
  BY Constants DEF Order
<1> DEFINE I == {i \in DOMAIN Order : Order[i] \in bindings}
<1>2. I \subseteq DOMAIN Order
  OBVIOUS
<1>3. BoundDrivers = Subsequence(Order, I)
  BY DEF BoundDrivers
<1> HIDE DEF I
<1> QED
  BY <1>1, <1>2, <1>3, PartOf

LEMMA CollectDriversKnown ==
  ASSUME Known, CollectDrivers PROVE Known'
<1> DEFINE drivers == BoundDrivers
           f == [Top EXCEPT !.at = "sorted", !.drivers = drivers]
<1>1. stack # <<>> /\ Top.op = "connect" /\ Top.at = "collect" /\ GoOn(f)
  BY DEF CollectDrivers, At
<1>2. UNCHANGED <<scenario, notify, bindings>> /\ UNCHANGED database
  BY DEF CollectDrivers
<1>3. Top \in Frames
  BY <1>1, TheTop
<1>4. f \in Frames
  <2>1. drivers \in Seq(Drivers)
    BY BoundTyped
  <2> HIDE DEF drivers
  <2> QED
    BY <1>1, <1>3, <2>1 DEF Frames, FrameType, Formed, Labels
<1> HIDE DEF f
<1>5. ~ Moved(Top)
  BY <1>1 DEF Moved
<1> QED
  BY <1>1, <1>2, <1>4, <1>5, NoOpens, QuietGoes

LEMMA CheckDriversKnown ==
  ASSUME Known, CheckDrivers PROVE Known'
<1> DEFINE at == IF bindings \ Range(Top.drivers) # {} THEN "collect" ELSE "try"
           f == [Top EXCEPT !.at = at, !.index = 1]
<1>1. stack # <<>> /\ Top.op = "connect" /\ Top.at = "sorted" /\ GoOn(f)
  BY DEF CheckDrivers, At
<1>2. UNCHANGED <<scenario, notify, bindings>> /\ UNCHANGED database
  BY DEF CheckDrivers
<1>3. Top \in Frames
  BY <1>1, TheTop
<1>4. f \in Frames
  <2>1. at \in Labels /\ at \in {"collect", "try"}
    BY DEF Labels
  <2> HIDE DEF at
  <2>2. f \in FrameType /\ f.op = "connect" /\ f.at = at /\ f.index = 1
    BY <1>1, <1>3, <2>1 DEF Frames, FrameType
  <2> HIDE DEF f
  <2> QED
    BY <2>1, <2>2 DEF Frames, Formed
<1> HIDE DEF f
<1>5. ~ Moved(Top)
  BY <1>1 DEF Moved
<1> QED
  BY <1>1, <1>2, <1>4, <1>5, NoOpens, QuietGoes

LEMMA RemovedAt ==
  ASSUME NEW T, NEW s \in Seq(T), NEW i \in Nat, i > 0, i <= Len(s)
  PROVE  RemoveAt(s, i) \in Seq(T) /\ s[i] \in T
<1>1. SubSeq(s, 1, i - 1) \in Seq(T) /\ SubSeq(s, i + 1, Len(s)) \in Seq(T)
  OBVIOUS
<1> QED
  BY <1>1 DEF RemoveAt

LEMMA TryDriverKnown ==
  ASSUME Known, TryDriver PROVE Known'
<1> DEFINE d == Top.drivers[Top.index]
           drivers == RemoveAt(Top.drivers, Top.index)
           f == [Top EXCEPT !.drivers = drivers, !.index = 1]
           g == [Top EXCEPT !.index = @ + 1, !.status = ""]
<1>1. /\ stack # <<>> /\ Top.op = "connect" /\ Top.at = "try" /\ Top.index <= Len(Top.drivers)
      /\ Invoke(f, Start(d, Top.h)) \/ GoOn(g)
  BY DEF TryDriver, At, FromTheFirst
<1>2. UNCHANGED <<scenario, notify, bindings>> /\ UNCHANGED database
  BY DEF TryDriver
<1>3. /\ Top \in Frames /\ Top.h \in Handles /\ Top.drivers \in Seq(Drivers)
      /\ Top.index \in Nat /\ Top.index > 0
  BY <1>1, TheTop DEF FrameType, Formed
<1>4. drivers \in Seq(Drivers) /\ d \in Drivers
  BY <1>1, <1>3, RemovedAt
<1> HIDE DEF d, drivers
<1>5. ~ Moved(Top)
  BY <1>1 DEF Moved
<1>6. f \in Frames /\ g \in Frames
  <2>1. f \in FrameType /\ f.op = "connect" /\ f.at = "try" /\ f.index = 1
    BY <1>1, <1>3, <1>4 DEF Frames, FrameType
  <2> DEFINE n == Top.index + 1
  <2>2. n \in Nat /\ n > 0
    BY <1>3
  <2>3. g = [Top EXCEPT !.index = n, !.status = ""]
    OBVIOUS
  <2> HIDE DEF f, n
  <2>4. [Top EXCEPT !.index = n, !.status = ""] \in Frames
    BY <1>1, <1>3, <2>2 DEF Frames, FrameType, Formed
  <2> HIDE DEF g
  <2> QED
    BY <2>1, <2>3, <2>4 DEF Frames, Formed
<1>7. Start(d, Top.h) \in Frames
  BY <1>3, <1>4, NewFrames
<1> HIDE DEF f, g
<1>8. CASE Invoke(f, Start(d, Top.h))
  BY <1>1, <1>2, <1>5, <1>6, <1>7, <1>8, NoOpens, QuietCalls
<1>9. CASE GoOn(g)
  BY <1>1, <1>2, <1>5, <1>6, <1>9, NoOpens, QuietGoes
<1> QED
  BY <1>1, <1>8, <1>9

LEMMA TriedKnown ==
  ASSUME Known, Tried PROVE Known'
<1> DEFINE kids == ChildrenOf(Top.h, Drivers)
           f == [Top EXCEPT !.at = "descend", !.status = "", !.index = 0, !.kids = kids]
<1>1. /\ stack # <<>> /\ Top.op = "connect" /\ Top.at = "try"
      /\ GoOn(f) \/ Return("success")
  BY DEF Tried, At
<1>2. UNCHANGED <<scenario, notify, bindings>> /\ UNCHANGED database
  BY DEF Tried
<1>3. Top \in Frames /\ Top.h \in Handles /\ Tables
  BY <1>1, TheTop
<1>4. f \in Frames
  <2>1. kids \in Seq(Kids)
    BY <1>3, ChildrenAre
  <2> HIDE DEF kids
  <2> QED
    BY <1>1, <1>3, <2>1 DEF Frames, FrameType, Formed, Labels
<1> HIDE DEF f
<1>5. ~ Moved(Top)
  BY <1>1 DEF Moved
<1>6. CASE GoOn(f)
  BY <1>1, <1>2, <1>4, <1>5, <1>6, NoOpens, QuietGoes
<1>7. CASE Return("success")
  BY <1>1, <1>2, <1>5, <1>7, NoOpens, Results, QuietReturns
<1> QED
  BY <1>1, <1>6, <1>7

LEMMA DescendKnown ==
  ASSUME Known, Descend PROVE Known'
<1> DEFINE kids == Tail(Top.kids)
           f == [Top EXCEPT !.kids = kids, !.status = ""]
           g == WholeTree(Head(Top.kids))
<1>1. /\ stack # <<>> /\ Top.op = "connect" /\ Top.at = "descend" /\ Top.kids # <<>>
      /\ Invoke(f, g) \/ GoOn(f)
  BY DEF Descend, At
<1>2. UNCHANGED <<scenario, notify, bindings>> /\ UNCHANGED database
  BY DEF Descend
<1>3. Top \in Frames /\ Top.kids \in Seq(Kids)
  BY <1>1, TheTop DEF FrameType
<1>4. kids \in Seq(Kids) /\ Head(Top.kids) \in Kids
  <2>1. \A s \in Seq(Kids) : s # <<>> => Tail(s) \in Seq(Kids) /\ Head(s) \in Kids
    OBVIOUS
  <2> QED
    BY <1>1, <1>3, <2>1, Zenon
<1>5. f \in Frames
  <2> HIDE DEF kids
  <2> QED
    BY <1>1, <1>3, <1>4 DEF Frames, FrameType, Formed
<1>6. g \in Frames
  BY <1>4, Constants, NewFrames
<1> HIDE DEF f, g
<1>7. ~ Moved(Top)
  BY <1>1 DEF Moved
<1>8. CASE Invoke(f, g)
  BY <1>1, <1>2, <1>5, <1>6, <1>7, <1>8, NoOpens, QuietCalls
<1>9. CASE GoOn(f)
  BY <1>1, <1>2, <1>5, <1>7, <1>9, NoOpens, QuietGoes
<1> QED
  BY <1>1, <1>8, <1>9

LEMMA DescendedKnown ==
  ASSUME Known, Descended PROVE Known'
<1>1. stack # <<>> /\ ~ Moved(Top) /\ Return("success")
  BY DEF Descended, At, Moved
<1>2. UNCHANGED <<scenario, notify, bindings>> /\ UNCHANGED database
  BY DEF Descended
<1> QED
  BY <1>1, <1>2, NoOpens, Results, QuietReturns

-----------------------------------------------------------------------------
(******************** The list the notification walks **********************)

\* The place of the element x of s; that of Null is before the first.
PlaceOf(s, x, n) == n \in 0 .. Len(s) /\ x = IF n = 0 THEN Null ELSE s[n]

\* Where the walk goes on after x, and what it has still to find.
Behind(s, x)  == IF x = Null THEN 1 ELSE 1 + CHOOSE j \in DOMAIN s : s[j] = x
ToFind(s, x) == Range(SubSeq(s, Behind(s, x), Len(s)))

LEMMA HasPlace ==
  ASSUME NEW s \in Seq(Handles), NEW x \in Range(s) \cup {Null}
  PROVE  \E n : PlaceOf(s, x, n)
<1>1. Len(s) \in Nat
  OBVIOUS
<1>2. CASE x = Null
  BY <1>1, <1>2 DEF PlaceOf
<1>3. CASE x # Null
  <2>1. PICK i \in DOMAIN s : s[i] = x
    BY <1>3 DEF Range
  <2> QED
    BY <2>1 DEF PlaceOf
<1> QED
  BY <1>2, <1>3

LEMMA ToFindAre ==
  ASSUME NEW s \in Seq(Handles), IsInjective(s), NEW x, NEW n, PlaceOf(s, x, n)
  PROVE  /\ Behind(s, x) = n + 1
         /\ ToFind(s, x) = {s[i] : i \in n + 1 .. Len(s)}
<1>1. Len(s) \in Nat /\ n \in Nat /\ n <= Len(s)
  BY DEF PlaceOf
<1>2. Behind(s, x) = n + 1
  <2>1. CASE n = 0
    BY <2>1 DEF PlaceOf, Behind
  <2>2. CASE n # 0
    <3>1. n \in DOMAIN s /\ x = s[n] /\ s[n] \in Handles
      BY <1>1, <2>2 DEF PlaceOf
    <3>2. x # Null
      BY <3>1, Constants
    <3>3. \A j \in DOMAIN s : s[j] = x => j = n
      BY <3>1 DEF IsInjective
    <3> DEFINE c == CHOOSE j \in DOMAIN s : s[j] = x
    <3>4. c = n
      BY <3>1, <3>3
    <3>5. Behind(s, x) = 1 + c
      BY <3>2, Zenon DEF Behind
    <3> HIDE DEF c
    <3> QED
      BY <1>1, <3>4, <3>5
  <2> QED
    BY <2>1, <2>2
<1> DEFINE t == SubSeq(s, n + 1, Len(s))
<1>3. /\ DOMAIN t = 1 .. Len(s) - n
      /\ \A i \in 1 .. Len(s) - n : t[i] = s[n + i]
  BY <1>1
<1>4. ToFind(s, x) = Range(t)
  BY <1>2 DEF ToFind
<1> HIDE DEF t
<1>5. ASSUME NEW i \in n + 1 .. Len(s) PROVE s[i] \in Range(t)
  <2>1. i - n \in 1 .. Len(s) - n /\ n + (i - n) = i
    BY <1>1
  <2> QED
    BY <1>3, <2>1 DEF Range
<1>6. ASSUME NEW j \in DOMAIN t PROVE t[j] \in {s[i] : i \in n + 1 .. Len(s)}
  <2>1. n + j \in n + 1 .. Len(s) /\ t[j] = s[n + j]
    BY <1>1, <1>3
  <2> QED
    BY <2>1
<1> QED
  BY <1>2, <1>4, <1>5, <1>6 DEF Range

\* A new element at the end is still to be found.
LEMMA FoundLast ==
  ASSUME NEW s \in Seq(Handles), IsInjective(s), NEW x \in Range(s) \cup {Null},
         NEW h \in Handles \ Range(s)
  PROVE  /\ Append(s, h) \in Seq(Handles) /\ IsInjective(Append(s, h))
         /\ Range(Append(s, h)) = Range(s) \cup {h}
         /\ ToFind(Append(s, h), x) = ToFind(s, x) \cup {h}
<1> DEFINE t == Append(s, h)
<1>1. /\ t \in Seq(Handles) /\ Len(t) = Len(s) + 1 /\ Len(s) \in Nat
      /\ t[Len(s) + 1] = h /\ \A i \in 1 .. Len(s) : t[i] = s[i]
      /\ DOMAIN s = 1 .. Len(s) /\ DOMAIN t = 1 .. Len(s) + 1
  OBVIOUS
<1> HIDE DEF t
<1>2. Range(t) = Range(s) \cup {h}
  <2>1. 1 .. Len(s) + 1 = (1 .. Len(s)) \cup {Len(s) + 1}
    BY <1>1
  <2> QED
    BY <1>1, <2>1 DEF Range
<1>3. IsInjective(t)
  <2> SUFFICES ASSUME NEW i \in DOMAIN t, NEW j \in DOMAIN t, t[i] = t[j], i # j PROVE FALSE
    BY DEF IsInjective
  <2>1. i \in 1 .. Len(s) \/ i = Len(s) + 1
    BY <1>1
  <2>2. j \in 1 .. Len(s) \/ j = Len(s) + 1
    BY <1>1
  <2>3. CASE i \in 1 .. Len(s) /\ j \in 1 .. Len(s)
    BY <1>1, <2>3 DEF IsInjective
  <2>4. CASE i \in 1 .. Len(s) /\ j = Len(s) + 1
    BY <1>1, <2>4 DEF Range
  <2>5. CASE j \in 1 .. Len(s) /\ i = Len(s) + 1
    BY <1>1, <2>5 DEF Range
  <2> QED
    BY <2>1, <2>2, <2>3, <2>4, <2>5
<1>4. PICK n : PlaceOf(s, x, n)
  BY HasPlace
<1>5. n \in Nat /\ n <= Len(s) /\ PlaceOf(t, x, n)
  BY <1>1, <1>4 DEF PlaceOf
<1>6. ToFind(s, x) = {s[i] : i \in n + 1 .. Len(s)}
  BY <1>4, ToFindAre
<1>7. ToFind(t, x) = {t[i] : i \in n + 1 .. Len(t)}
  BY <1>1, <1>3, <1>5, ToFindAre
<1>8. n + 1 .. Len(t) = (n + 1 .. Len(s)) \cup {Len(s) + 1}
  BY <1>1, <1>5
<1>9. \A i \in n + 1 .. Len(s) : t[i] = s[i]
  BY <1>1, <1>5
<1>10. {t[i] : i \in n + 1 .. Len(t)} = {s[i] : i \in n + 1 .. Len(s)} \cup {h}
  BY <1>1, <1>8, <1>9
<1> QED
  BY <1>1, <1>2, <1>3, <1>6, <1>7, <1>10 DEF t

\* The element before x.
Previous(s, x) ==
  LET i == CHOOSE j \in DOMAIN s : s[j] = x
  IN  IF i = 1 THEN Null ELSE s[i - 1]

\* The places of what is left, when an element is taken out, are in the same order.
LEMMA TakenOut ==
  ASSUME NEW s \in Seq(Handles), IsInjective(s), NEW m \in DOMAIN s
  PROVE  LET t == Without(s, s[m])
         IN  /\ t \in Seq(Handles) /\ IsInjective(t) /\ Range(t) = Range(s) \ {s[m]}
             /\ \A x, n : PlaceOf(s, x, n) /\ n # m =>
                  ToFind(t, x) = {s[i] : i \in {j \in DOMAIN s : j > n /\ j # m}}
<1> DEFINE t == Without(s, s[m])
           I == {i \in DOMAIN s : s[i] # s[m]}
<1>1. t \in Seq(Handles) /\ IsInjective(t) /\ Range(t) = Range(s) \ {s[m]}
  BY WithoutIt
<1>2. t = Subsequence(s, I)
  BY DEF Without
<1>3. I = {i \in DOMAIN s : i # m}
  BY DEF IsInjective
<1> HIDE DEF I, t
<1>4. I \subseteq DOMAIN s /\ DOMAIN s = 1 .. Len(s) /\ Len(s) \in Nat
  BY <1>3
<1>5. /\ DOMAIN t = 1 .. Cardinality(I)
      /\ \A k \in 1 .. Cardinality(I) : Nth(I, k) \in I /\ t[k] = s[Nth(I, k)]
      /\ \A k, l \in 1 .. Cardinality(I) : k < l => Nth(I, k) < Nth(I, l)
      /\ \A i \in I : \E k \in 1 .. Cardinality(I) : Nth(I, k) = i
  BY <1>2, <1>4, SubsequenceElements
<1>6. Cardinality(I) = Len(t)
  BY <1>2, <1>4, SubsequenceElements
<1> DEFINE N == Len(t)
           place(k) == Nth(I, k)
<1>7. /\ N \in Nat /\ DOMAIN t = 1 .. N
      /\ \A k \in 1 .. N : place(k) \in I /\ t[k] = s[place(k)]
      /\ \A k, l \in 1 .. N : k < l => place(k) < place(l)
      /\ \A i \in I : \E k \in 1 .. N : place(k) = i
  <2>1. N \in Nat
    BY <1>1
  <2> QED
    BY <1>5, <1>6, <2>1
<1>8. \A i \in I : i \in Int
  BY <1>4
<1> HIDE DEF place, N
<1>9. ASSUME NEW x, NEW n, PlaceOf(s, x, n), n # m
      PROVE  ToFind(t, x) = {s[i] : i \in {j \in DOMAIN s : j > n /\ j # m}}
  <2>1. n \in Nat /\ n <= Len(s)
    BY <1>4, <1>9 DEF PlaceOf
  <2>2. PICK k \in 0 .. N : PlaceOf(t, x, k) /\ \A l \in 1 .. N : l > k <=> place(l) > n
    <3>1. CASE n = 0
      <4>1. PlaceOf(t, x, 0)
        BY <1>7, <1>9, <3>1 DEF PlaceOf, N
      <4>2. \A l \in 1 .. N : place(l) > 0 /\ l > 0
        BY <1>4, <1>7
      <4> QED
        BY <1>7, <3>1, <4>1, <4>2
    <3>2. CASE n # 0
      <4>1. n \in I /\ x = s[n]
        BY <1>3, <1>4, <1>9, <2>1, <3>2 DEF PlaceOf
      <4>2. PICK k \in 1 .. N : place(k) = n
        BY <1>7, <4>1
      <4>3. PlaceOf(t, x, k)
        BY <1>7, <4>1, <4>2 DEF PlaceOf, N
      <4>4. ASSUME NEW l \in 1 .. N PROVE l > k <=> place(l) > n
        <5>1. place(l) \in Int /\ place(k) \in Int /\ l \in Int /\ k \in Int
          BY <1>7, <1>8
        <5>2. l < k => place(l) < place(k)
          BY <1>7
        <5>3. k < l => place(k) < place(l)
          BY <1>7
        <5>4. l = k => place(l) = place(k)
          OBVIOUS
        <5> QED
          BY <4>2, <5>1, <5>2, <5>3, <5>4
      <4> QED
        BY <4>2, <4>3, <4>4
    <3> QED
      BY <3>1, <3>2
  <2>3. ToFind(t, x) = {t[i] : i \in k + 1 .. N}
    BY <1>1, <2>2, ToFindAre DEF N
  <2>4. ASSUME NEW l \in k + 1 .. N
        PROVE  t[l] \in {s[i] : i \in {j \in DOMAIN s : j > n /\ j # m}}
    <3>1. l \in 1 .. N /\ l > k
      BY <1>7
    <3>2. place(l) \in I /\ place(l) > n /\ t[l] = s[place(l)]
      BY <1>7, <2>2, <3>1
    <3> QED
      BY <1>3, <3>2
  <2>5. ASSUME NEW i \in DOMAIN s, i > n, i # m
        PROVE  s[i] \in {t[l] : l \in k + 1 .. N}
    <3>1. PICK l \in 1 .. N : place(l) = i
      BY <1>3, <1>7, <2>5
    <3>2. l > k
      BY <2>2, <2>5, <3>1
    <3>3. l \in k + 1 .. N
      BY <1>7, <3>1, <3>2
    <3> QED
      BY <1>7, <3>1, <3>3
  <2> QED
    BY <2>3, <2>4, <2>5
<1> QED
  BY <1>1, <1>9 DEF t

\* When an element is taken out, and the walk that was at it goes back by one,
\* the others that were to be found still are.
LEMMA FoundWithout ==
  ASSUME NEW s \in Seq(Handles), IsInjective(s), NEW x \in Range(s) \cup {Null},
         NEW h \in Range(s), NEW y, y = IF x # h THEN x ELSE Previous(s, h)
  PROVE  /\ Without(s, h) \in Seq(Handles) /\ IsInjective(Without(s, h))
         /\ Range(Without(s, h)) = Range(s) \ {h}
         /\ y \in Range(Without(s, h)) \cup {Null}
         /\ ToFind(Without(s, h), y) = ToFind(s, x) \ {h}
<1>1. PICK m \in DOMAIN s : s[m] = h
  BY DEF Range
<1> DEFINE t == Without(s, h)
<1>2. /\ t \in Seq(Handles) /\ IsInjective(t) /\ Range(t) = Range(s) \ {h}
      /\ \A z, n : PlaceOf(s, z, n) /\ n # m =>
           ToFind(t, z) = {s[i] : i \in {j \in DOMAIN s : j > n /\ j # m}}
  BY <1>1, TakenOut
<1> HIDE DEF t
<1>3. DOMAIN s = 1 .. Len(s) /\ Len(s) \in Nat /\ m \in Nat /\ m > 0 /\ m <= Len(s)
  OBVIOUS
<1>4. \A j \in DOMAIN s : s[j] = h <=> j = m
  BY <1>1 DEF IsInjective
<1>5. h \in Handles /\ h # Null
  BY <1>1, Constants
<1>6. PICK n : PlaceOf(s, x, n)
  BY HasPlace
<1>7. n \in Nat /\ n <= Len(s) /\ ToFind(s, x) = {s[i] : i \in n + 1 .. Len(s)}
  <2>1. n \in Nat /\ n <= Len(s)
    BY <1>3, <1>6 DEF PlaceOf
  <2> QED
    BY <1>6, <2>1, ToFindAre
<1>8. CASE x # h
  <2>1. y = x /\ n # m
    BY <1>1, <1>3, <1>6, <1>8 DEF PlaceOf
  <2>2. ToFind(t, y) = {s[i] : i \in {j \in DOMAIN s : j > n /\ j # m}}
    BY <1>2, <1>6, <2>1
  <2>3. ToFind(t, y) = ToFind(s, x) \ {h}
    <3>1. \A i \in DOMAIN s : i > n <=> i \in n + 1 .. Len(s)
      BY <1>3, <1>7
    <3>2. \A i \in n + 1 .. Len(s) : i \in DOMAIN s
      BY <1>3, <1>7
    <3> QED
      BY <1>4, <1>7, <2>2, <3>1, <3>2
  <2> QED
    BY <1>2, <1>8, <2>1, <2>3 DEF t
<1>9. CASE x = h
  <2>1. n = m
    <3>1. n # 0
      BY <1>5, <1>6, <1>9 DEF PlaceOf
    <3>2. n \in DOMAIN s /\ s[n] = h
      BY <1>3, <1>6, <1>7, <1>9, <3>1 DEF PlaceOf
    <3> QED
      BY <1>4, <3>2
  <2> DEFINE c == CHOOSE j \in DOMAIN s : s[j] = h
  <2>2. c = m
    BY <1>4
  <2>3. y = IF m = 1 THEN Null ELSE s[m - 1]
    <3>1. Previous(s, h) = IF c = 1 THEN Null ELSE s[c - 1]
      BY Zenon DEF Previous
    <3> HIDE DEF c
    <3> QED
      BY <1>9, <2>2, <3>1
  <2>4. PlaceOf(s, y, m - 1) /\ m - 1 # m
    BY <1>3, <2>3 DEF PlaceOf
  <2>5. ToFind(t, y) = {s[i] : i \in {j \in DOMAIN s : j > m - 1 /\ j # m}}
    BY <1>2, <2>4
  <2>6. ToFind(t, y) = ToFind(s, x) \ {h}
    <3>1. \A i \in DOMAIN s : (i > m - 1 /\ i # m) <=> i \in m + 1 .. Len(s)
      BY <1>3
    <3>2. \A i \in m + 1 .. Len(s) : i \in DOMAIN s /\ s[i] # h
      BY <1>3, <1>4
    <3> QED
      BY <1>7, <2>1, <2>5, <3>1, <3>2
  <2>7. y \in Range(t) \cup {Null}
    <3>1. CASE m = 1
      BY <2>3, <3>1
    <3>2. CASE m # 1
      <4>1. m - 1 \in DOMAIN s /\ s[m - 1] # h /\ y = s[m - 1]
        BY <1>3, <1>4, <2>3, <3>2
      <4> QED
        BY <1>2, <4>1 DEF Range
    <3> QED
      BY <3>1, <3>2
  <2> QED
    BY <1>2, <2>6, <2>7 DEF t
<1> QED
  BY <1>8, <1>9

\* The element behind x is found.
LEMMA FoundNext ==
  ASSUME NEW s \in Seq(Handles), IsInjective(s), NEW x \in Range(s) \cup {Null},
         Behind(s, x) <= Len(s)
  PROVE  /\ s[Behind(s, x)] \in Range(s)
         /\ ToFind(s, s[Behind(s, x)]) = ToFind(s, x) \ {s[Behind(s, x)]}
<1>1. PICK n : PlaceOf(s, x, n)
  BY HasPlace
<1>2. /\ Behind(s, x) = n + 1 /\ ToFind(s, x) = {s[i] : i \in n + 1 .. Len(s)}
  BY <1>1, ToFindAre
<1>3. n \in Nat /\ n + 1 \in DOMAIN s /\ Len(s) \in Nat /\ DOMAIN s = 1 .. Len(s)
  BY <1>1, <1>2 DEF PlaceOf
<1>4. PlaceOf(s, s[n + 1], n + 1)
  BY <1>3 DEF PlaceOf
<1>5. ToFind(s, s[n + 1]) = {s[i] : i \in (n + 1) + 1 .. Len(s)}
  BY <1>4, ToFindAre
<1>6. n + 1 .. Len(s) = ((n + 1) + 1 .. Len(s)) \cup {n + 1}
  BY <1>3
<1>7. \A i \in (n + 1) + 1 .. Len(s) : s[i] # s[n + 1]
  <2>1. \A i \in (n + 1) + 1 .. Len(s) : i \in DOMAIN s /\ i # n + 1
    BY <1>3
  <2> QED
    BY <1>3, <2>1 DEF IsInjective
<1>8. {s[i] : i \in n + 1 .. Len(s)} \ {s[n + 1]} = {s[i] : i \in (n + 1) + 1 .. Len(s)}
  BY <1>6, <1>7
<1> QED
  BY <1>2, <1>3, <1>5, <1>8 DEF Range

-----------------------------------------------------------------------------
(************************ Interfaces come and go ***************************)

\* The protocols of one handle change.
LEMMA ProtocolsSet ==
  ASSUME Tables, NEW h \in Handles, NEW s \in Seq(Protocols),
         protocols' = [protocols EXCEPT ![h] = s]
  PROVE  /\ protocols' \in [Handles -> Seq(Protocols)]
         /\ protocols'[h] = s
         /\ \A g \in Handles : g # h => protocols'[g] = protocols[g]
BY DEF Tables

LEMMA NoOpensLeft ==
  ASSUME OpensTyped, NEW h \in Handles, NEW p \in Protocols,
         opens' = [opens EXCEPT ![<<h, p>>] = <<>>]
  PROVE  /\ OpensTyped'
         /\ opens'[<<h, p>>] = <<>>
         /\ \A g \in Handles, q \in Protocols :
              g # h \/ q # p => opens'[<<g, q>>] = opens[<<g, q>>]
<1>1. <<>> \in Seq(Openings(h, p))
  OBVIOUS
<1> QED
  BY <1>1, OpensSet

LEMMA InstallTables ==
  ASSUME Tables, NEW h \in Handles, NEW p \in Protocols, Install(h, p)
  PROVE  /\ Tables'
         /\ \A g \in Handles : \A q : Installed(g, q)' <=> Installed(g, q) \/ (g = h /\ q = p)
         /\ opens'[<<h, p>>] = <<>>
         /\ \A g \in Handles, q \in Protocols :
              g # h \/ q # p => opens'[<<g, q>>] = opens[<<g, q>>]
         /\ \A g \in Handles : IsInjective(protocols[g]) /\ ~ Installed(h, p) =>
              IsInjective(protocols'[g])
<1> DEFINE s == protocols[h]
           t == <<p>> \o s
<1>1. s \in Seq(Protocols)
  BY DEF Tables
<1>2. /\ t \in Seq(Protocols) /\ Len(t) = Len(s) + 1 /\ Len(s) \in Nat
      /\ t[1] = p /\ \A i \in 2 .. Len(s) + 1 : t[i] = s[i - 1]
      /\ DOMAIN s = 1 .. Len(s) /\ DOMAIN t = 1 .. Len(s) + 1
  BY <1>1
<1>3. protocols' = [protocols EXCEPT ![h] = t]
  BY DEF Install
<1> HIDE DEF s, t
<1>4. /\ protocols' \in [Handles -> Seq(Protocols)] /\ protocols'[h] = t
      /\ \A g \in Handles : g # h => protocols'[g] = protocols[g]
  BY <1>2, <1>3, ProtocolsSet
<1>5. /\ OpensTyped' /\ opens'[<<h, p>>] = <<>>
      /\ \A g \in Handles, q \in Protocols : g # h \/ q # p => opens'[<<g, q>>] = opens[<<g, q>>]
  <2>1. opens' = [opens EXCEPT ![<<h, p>>] = <<>>] /\ OpensTyped
    BY DEF Install, Tables
  <2> QED
    BY <2>1, NoOpensLeft
<1>6. Range(t) = Range(s) \cup {p}
  <2>1. ASSUME NEW i \in DOMAIN t PROVE t[i] \in Range(s) \cup {p}
    <3>1. CASE i = 1
      BY <1>2, <3>1
    <3>2. CASE i # 1
      <4>1. t[i] = s[i - 1] /\ i - 1 \in DOMAIN s
        BY <1>2, <3>2
      <4> QED
        BY <4>1 DEF Range
    <3> QED
      BY <3>1, <3>2
  <2>2. ASSUME NEW i \in DOMAIN s PROVE s[i] \in Range(t)
    <3>1. i + 1 \in DOMAIN t /\ t[i + 1] = s[i]
      BY <1>2
    <3> QED
      BY <3>1 DEF Range
  <2>3. p \in Range(t)
    <3>1. 1 \in DOMAIN t
      BY <1>2
    <3> QED
      BY <1>2, <3>1 DEF Range
  <2>4. Range(t) \subseteq Range(s) \cup {p}
    BY <2>1 DEF Range
  <2>5. Range(s) \subseteq Range(t)
    BY <2>2 DEF Range
  <2> QED
    BY <2>3, <2>4, <2>5
<1>7. ASSUME NEW g \in Handles, NEW q
      PROVE  Installed(g, q)' <=> Installed(g, q) \/ (g = h /\ q = p)
  BY <1>4, <1>6 DEF Installed, s
<1>8. ASSUME NEW g \in Handles, IsInjective(protocols[g]), ~ Installed(h, p)
      PROVE  IsInjective(protocols'[g])
  <2>1. CASE g = h
    <3>1. p \notin Range(s) /\ IsInjective(s)
      BY <1>8, <2>1 DEF Installed, s
    <3>2. IsInjective(t)
      <4> SUFFICES ASSUME NEW i \in DOMAIN t, NEW j \in DOMAIN t, t[i] = t[j], i # j PROVE FALSE
        BY DEF IsInjective
      <4>1. i \in 1 .. Len(s) + 1 /\ j \in 1 .. Len(s) + 1 /\ Len(s) \in Nat
        BY <1>2
      <4>2. CASE i # 1 /\ j # 1
        <5>1. s[i - 1] = s[j - 1] /\ i - 1 \in DOMAIN s /\ j - 1 \in DOMAIN s
          BY <1>2, <4>1, <4>2
        <5>2. i - 1 = j - 1
          BY <3>1, <5>1 DEF IsInjective
        <5> QED
          BY <4>1, <5>2
      <4>3. CASE i = 1
        <5>1. s[j - 1] = p /\ j - 1 \in DOMAIN s
          BY <1>2, <4>1, <4>3
        <5> QED
          BY <3>1, <5>1 DEF Range
      <4>4. CASE j = 1
        <5>1. s[i - 1] = p /\ i - 1 \in DOMAIN s
          BY <1>2, <4>1, <4>4
        <5> QED
          BY <3>1, <5>1 DEF Range
      <4> QED
        BY <4>2, <4>3, <4>4
    <3> QED
      BY <1>4, <2>1, <3>2
  <2>2. CASE g # h
    BY <1>4, <1>8, <2>2
  <2> QED
    BY <2>1, <2>2
<1>9. Tables'
  BY <1>4, <1>5 DEF Tables
<1> QED
  BY <1>5, <1>7, <1>8, <1>9

\* A new interface is put at the end of the list that the notification walks.
LEMMA InstallKnown ==
  ASSUME Known, NEW h \in Handles, NEW p \in Protocols, Install(h, p),
         p = Watched => ~ Installed(h, p),
         stack' \in Seq(Frames), MovedStays, bindings' \subseteq Drivers, UNCHANGED scenario
  PROVE  Known'
<1>1. Tables /\ Reader /\ Watched \in Protocols
  BY DEF Known, Typed, Watched, Protocols
<1>2. Tables' /\ \A g \in Handles : \A q : Installed(g, q)' <=> Installed(g, q) \/ (g = h /\ q = p)
  BY <1>1, InstallTables
<1>3. signaled' \in BOOLEAN
  BY DEF Install, Notified, Known, Typed
<1>4. Typed'
  BY <1>2, <1>3 DEF Known, Typed
<1>5. position' = position
  BY DEF Install
<1>6. CASE p = Watched
  <2>1. entry' = Append(entry, h) /\ unseen' = unseen \cup {h} /\ signaled' = TRUE
    BY <1>6 DEF Install, Notified
  <2>2. h \in Handles \ Range(entry)
    BY <1>1, <1>6 DEF Reader
  <2>3. /\ entry' \in Seq(Handles) /\ IsInjective(entry')
        /\ Range(entry') = Range(entry) \cup {h}
        /\ ToFind(entry', position) = ToFind(entry, position) \cup {h}
    <3>1. entry \in Seq(Handles) /\ IsInjective(entry) /\ position \in Range(entry) \cup {Null}
      BY <1>1 DEF Reader
    <3>2. /\ Append(entry, h) \in Seq(Handles) /\ IsInjective(Append(entry, h))
          /\ Range(Append(entry, h)) = Range(entry) \cup {h}
          /\ ToFind(Append(entry, h), position) = ToFind(entry, position) \cup {h}
      <4>1. h \in Handles /\ h \notin Range(entry)
        BY <2>2
      <4> DEFINE x == position
      <4>2. x \in Range(entry) \cup {Null}
        BY <3>1
      <4>3. ToFind(entry, x) = ToFind(entry, position) /\
            ToFind(Append(entry, h), position) = ToFind(Append(entry, h), x)
        OBVIOUS
      <4> HIDE DEF x
      <4> QED
        BY <3>1, <4>1, <4>2, <4>3, FoundLast
    <3> QED
      BY <2>1, <3>2, Zenon
  <2>4. unseen' = ToFind(entry', position')
    BY <1>1, <1>5, <2>1, <2>3 DEF Reader, After, ToFind, Behind
  <2>5. Range(entry') = {g \in Handles : Installed(g, Watched)'}
    BY <1>1, <1>2, <1>6, <2>3 DEF Reader
  <2>6. position' \in Range(entry') \cup {Null}
    BY <1>1, <1>5, <2>3 DEF Reader
  <2>7. Reader'
    BY <2>1, <2>3, <2>4, <2>5, <2>6 DEF Reader, After, ToFind, Behind
  <2> QED
    BY <1>4, <2>7 DEF Known
<1>7. CASE p # Watched
  <2>1. entry' = entry /\ unseen' = unseen /\ signaled' = signaled
    BY <1>7 DEF Install, Notified, Known, Typed
  <2>2. After' = After /\ \A g \in Handles : Installed(g, Watched)' <=> Installed(g, Watched)
    BY <1>2, <1>5, <1>7, <2>1 DEF After
  <2>3. {g \in Handles : Installed(g, Watched)'} = {g \in Handles : Installed(g, Watched)}
    BY <2>2
  <2>4. Reader'
    BY <1>1, <1>5, <2>1, <2>2, <2>3 DEF Reader, MovedStays
  <2> QED
    BY <1>4, <2>4 DEF Known
<1> QED
  BY <1>6, <1>7

LEMMA RemoveTables ==
  ASSUME Tables, NEW h \in Handles, NEW p \in Protocols, RemoveInterface(h, p)
  PROVE  /\ Tables'
         /\ \A g \in Handles : \A q : Installed(g, q)' <=> Installed(g, q) /\ (g # h \/ q # p)
         /\ opens'[<<h, p>>] = <<>>
         /\ \A g \in Handles, q \in Protocols :
              g # h \/ q # p => opens'[<<g, q>>] = opens[<<g, q>>]
         /\ \A g \in Handles : IsInjective(protocols[g]) => IsInjective(protocols'[g])
<1> DEFINE s == protocols[h]
           t == Without(s, p)
<1>1. s \in Seq(Protocols)
  BY DEF Tables
<1>2. t \in Seq(Protocols) /\ Range(t) = Range(s) \ {p} /\ (IsInjective(s) => IsInjective(t))
  BY <1>1, WithoutIt
<1>3. protocols' = [protocols EXCEPT ![h] = t]
  BY DEF RemoveInterface
<1> HIDE DEF s, t
<1>4. /\ protocols' \in [Handles -> Seq(Protocols)] /\ protocols'[h] = t
      /\ \A g \in Handles : g # h => protocols'[g] = protocols[g]
  BY <1>2, <1>3, ProtocolsSet
<1>5. /\ OpensTyped' /\ opens'[<<h, p>>] = <<>>
      /\ \A g \in Handles, q \in Protocols : g # h \/ q # p => opens'[<<g, q>>] = opens[<<g, q>>]
  <2>1. opens' = [opens EXCEPT ![<<h, p>>] = <<>>] /\ OpensTyped
    BY DEF RemoveInterface, Tables
  <2> QED
    BY <2>1, NoOpensLeft
<1>6. ASSUME NEW g \in Handles, NEW q
      PROVE  Installed(g, q)' <=> Installed(g, q) /\ (g # h \/ q # p)
  BY <1>2, <1>4 DEF Installed, s
<1>7. ASSUME NEW g \in Handles, IsInjective(protocols[g])
      PROVE  IsInjective(protocols'[g])
  BY <1>2, <1>4, <1>7 DEF s
<1>8. Tables'
  BY <1>4, <1>5 DEF Tables
<1> QED
  BY <1>5, <1>6, <1>7, <1>8

\* The notification's position backs up, and it still finds the others.
LEMMA BackedUp ==
  ASSUME Reader, NEW h \in Range(entry), position' = BacksUp(h)
  PROVE  /\ Without(entry, h) \in Seq(Handles) /\ IsInjective(Without(entry, h))
         /\ Range(Without(entry, h)) = Range(entry) \ {h}
         /\ position' \in Range(Without(entry, h)) \cup {Null}
         /\ ToFind(Without(entry, h), position') = unseen \ {h}
<1>1. /\ entry \in Seq(Handles) /\ IsInjective(entry) /\ position \in Range(entry) \cup {Null}
      /\ unseen = ToFind(entry, position)
  BY DEF Reader, After, ToFind, Behind
<1>2. position' = IF position # h THEN position ELSE Previous(entry, h)
  BY DEF BacksUp, Previous
<1>3. /\ Without(entry, h) \in Seq(Handles) /\ IsInjective(Without(entry, h))
      /\ Range(Without(entry, h)) = Range(entry) \ {h}
      /\ position' \in Range(Without(entry, h)) \cup {Null}
      /\ ToFind(Without(entry, h), position') = ToFind(entry, position) \ {h}
  <2> DEFINE y == position'
  <2>1. y = IF position # h THEN position ELSE Previous(entry, h)
    BY <1>2
  <2>2. position' = y
    OBVIOUS
  <2> HIDE DEF y
  <2>3. /\ Without(entry, h) \in Seq(Handles) /\ IsInjective(Without(entry, h))
        /\ Range(Without(entry, h)) = Range(entry) \ {h}
        /\ y \in Range(Without(entry, h)) \cup {Null}
        /\ ToFind(Without(entry, h), y) = ToFind(entry, position) \ {h}
    BY <1>1, <2>1, FoundWithout
  <2> QED
    BY <2>2, <2>3, Zenon
<1> QED
  BY <1>1, <1>3

LEMMA RemoveKnown ==
  ASSUME Known, NEW h \in Handles, NEW p \in Protocols, RemoveInterface(h, p), Installed(h, p),
         stack' \in Seq(Frames), MovedStays, bindings' \subseteq Drivers, UNCHANGED scenario
  PROVE  Known'
<1>1. Tables /\ Reader
  BY DEF Known, Typed
<1>2. Tables' /\ \A g \in Handles : \A q : Installed(g, q)' <=> Installed(g, q) /\ (g # h \/ q # p)
  BY <1>1, RemoveTables
<1>3. signaled' = signaled
  BY DEF RemoveInterface
<1>4. Typed'
  BY <1>2, <1>3 DEF Known, Typed
<1>5. CASE p = Watched
  <2>1. entry' = Without(entry, h) /\ unseen' = unseen \ {h} /\ position' = BacksUp(h)
    BY <1>5 DEF RemoveInterface
  <2>2. h \in Range(entry)
    BY <1>1, <1>5 DEF Reader
  <2>3. /\ entry' \in Seq(Handles) /\ IsInjective(entry')
        /\ Range(entry') = Range(entry) \ {h}
        /\ position' \in Range(entry') \cup {Null}
        /\ ToFind(entry', position') = unseen'
    BY <1>1, <2>1, <2>2, BackedUp
  <2>4. Range(entry') = {g \in Handles : Installed(g, Watched)'}
    BY <1>1, <1>2, <1>5, <2>3 DEF Reader
  <2>5. unseen' # {} => signaled' \/ \E i \in DOMAIN stack' : Moved(stack'[i])
    BY <1>1, <1>3, <2>1 DEF Reader, MovedStays
  <2>6. Reader'
    BY <2>3, <2>4, <2>5 DEF Reader, After, ToFind, Behind
  <2> QED
    BY <1>4, <2>6 DEF Known
<1>6. CASE p # Watched
  <2>1. entry' = entry /\ unseen' = unseen /\ position' = position
    BY <1>6 DEF RemoveInterface
  <2>2. After' = After /\ \A g \in Handles : Installed(g, Watched)' <=> Installed(g, Watched)
    BY <1>2, <1>6, <2>1 DEF After
  <2>3. {g \in Handles : Installed(g, Watched)'} = {g \in Handles : Installed(g, Watched)}
    BY <2>2
  <2>4. Reader'
    BY <1>1, <1>3, <2>1, <2>2, <2>3 DEF Reader, MovedStays
  <2> QED
    BY <1>4, <2>4 DEF Known
<1> QED
  BY <1>5, <1>6

LEMMA UninstallsKnown ==
  ASSUME Known, Unused, Uninstalls PROVE Known'
<1>1. /\ stack # <<>> /\ Top.op = "uninstall" /\ ~ Moved(Top) /\ Installed(Top.h, Top.p)
      /\ RemoveInterface(Top.h, Top.p) /\ Return("success")
      /\ UNCHANGED scenario /\ bindings' = bindings
  BY DEF Unused, Walks, Removing, Uninstalls, Moved
<1>2. /\ Top.h \in Handles /\ Top.p \in Protocols
      /\ stack \in Seq(Frames) /\ bindings \subseteq Drivers
  BY <1>1, TheTop DEF Formed
<1>3. stack' \in Seq(Frames) /\ MovedStays
  BY <1>1, <1>2, Results, ReturnMoves
<1> QED
  BY <1>1, <1>2, <1>3, RemoveKnown

LEMMA ReinstallsKnown ==
  ASSUME Known, Unused, Reinstalls PROVE Known'
<1> DEFINE h == Top.h
           p == Top.p
           f == [Top EXCEPT !.at = "moved"]
           g == WholeTree(h)
<1>1. /\ stack # <<>> /\ Top.op = "reinstall" /\ ~ Moved(Top) /\ Installed(h, p)
      /\ opens' = [opens EXCEPT ![<<h, p>>] = <<>>]
      /\ MoveToTail(h, p) /\ Invoke(f, g) /\ UNCHANGED <<scenario, protocols, bindings>>
  BY DEF Unused, Walks, Removing, Reinstalls, Moved
<1>2. /\ h \in Handles /\ p \in Protocols /\ stack \in Seq(Frames) /\ Top \in Frames
      /\ Tables /\ OpensTyped
  BY <1>1, TheTop DEF Formed
<1>3. f \in Frames /\ g \in Frames
  <2>1. f \in Frames
    BY <1>1, <1>2 DEF Frames, FrameType, Formed, Labels
  <2> QED
    BY <1>2, <2>1, NewFrames
<1>4. f.at = "moved" /\ f.p = p
  BY <1>2 DEF Frames, FrameType
<1> HIDE DEF f, g
<1>5. /\ stack' \in Seq(Frames) /\ Len(stack') = Len(stack) + 1 /\ stack'[Len(stack)] = f
      /\ \A i \in 1 .. Len(stack) - 1 : stack'[i] = stack[i]
  BY <1>1, <1>2, <1>3, Calling DEF Below
<1>6. OpensTyped'
  BY <1>1, <1>2, NoOpensLeft
<1>7. signaled' = signaled
  BY <1>1 DEF MoveToTail
<1>8. Typed'
  BY <1>1, <1>2, <1>5, <1>6, <1>7 DEF Known, Typed, Tables
<1>9. Reader
  BY DEF Known
<1>10. \A k \in Handles : \A q : Installed(k, q)' <=> Installed(k, q)
  BY <1>1 DEF Installed
<1>11. Len(stack) \in DOMAIN stack' /\ Len(stack) \in Nat
  BY <1>1, <1>2, <1>5
<1>12. CASE p = Watched
  <2> DEFINE rest == Without(entry, h)
  <2>1. entry' = Append(rest, h) /\ position' = BacksUp(h) /\ unseen' = unseen \cup {h}
    BY <1>1, <1>12 DEF MoveToTail
  <2>2. h \in Range(entry)
    BY <1>2, <1>1, <1>9, <1>12 DEF Reader
  <2>3. /\ rest \in Seq(Handles) /\ IsInjective(rest) /\ Range(rest) = Range(entry) \ {h}
        /\ position' \in Range(rest) \cup {Null} /\ ToFind(rest, position') = unseen \ {h}
    BY <1>9, <2>1, <2>2, BackedUp
  <2> HIDE DEF rest
  <2> DEFINE y == position'
  <2>4. y = position' /\ y \in Range(rest) \cup {Null} /\ ToFind(rest, y) = unseen \ {h}
    BY <2>3
  <2> HIDE DEF y
  <2>5. h \in Handles \ Range(rest)
    BY <1>2, <2>3
  <2> HIDE DEF h
  <2>6. /\ Append(rest, h) \in Seq(Handles) /\ IsInjective(Append(rest, h))
        /\ Range(Append(rest, h)) = Range(rest) \cup {h}
        /\ ToFind(Append(rest, h), y) = ToFind(rest, y) \cup {h}
    BY <2>3, <2>4, <2>5, FoundLast
  <2>7. ToFind(entry', position') = unseen'
    BY <2>1, <2>4, <2>6
  <2>8. Range(entry') = Range(entry)
    BY <2>1, <2>2, <2>3, <2>6
  <2>9. Range(entry') = {k \in Handles : Installed(k, Watched)'}
    BY <1>9, <1>10, <2>8 DEF Reader
  <2>10. position' \in Range(entry') \cup {Null}
    BY <2>3, <2>8
  <2>11. Moved(stack'[Len(stack)])
    BY <1>4, <1>5, <1>12 DEF Moved
  <2>12. Reader'
    BY <1>11, <2>1, <2>6, <2>7, <2>9, <2>10, <2>11 DEF Reader, After, ToFind, Behind
  <2> QED
    BY <1>8, <2>12 DEF Known
<1>13. CASE p # Watched
  <2>1. entry' = entry /\ unseen' = unseen /\ position' = position
    BY <1>1, <1>13 DEF MoveToTail
  <2>2. After' = After
    BY <2>1 DEF After
  <2>3. {k \in Handles : Installed(k, Watched)'} = {k \in Handles : Installed(k, Watched)}
    BY <1>10
  <2>4. MovedStays
    <3>1. Top = stack[Len(stack)]
      BY <1>1, <1>2, TopFrame
    <3>2. ASSUME NEW i \in DOMAIN stack, Moved(stack[i])
          PROVE  i \in DOMAIN stack' /\ Moved(stack'[i])
      <4>1. i # Len(stack)
        BY <1>1, <3>1, <3>2
      <4>2. i \in 1 .. Len(stack) - 1 /\ i \in DOMAIN stack'
        BY <1>2, <1>5, <1>11, <4>1
      <4> QED
        BY <1>5, <3>2, <4>2
    <3> QED
      BY <3>2 DEF MovedStays
  <2>5. Reader'
    BY <1>9, <1>7, <2>1, <2>2, <2>3, <2>4 DEF Reader, MovedStays
  <2> QED
    BY <1>8, <2>5 DEF Known
<1> QED
  BY <1>12, <1>13

LEMMA ReinstalledKnown ==
  ASSUME Known, Reinstalled PROVE Known'
<1>1. /\ stack # <<>> /\ Top.at = "moved" /\ Notified(Top.p) /\ Return("success")
      /\ UNCHANGED <<scenario, database>> /\ entry' = entry /\ position' = position
      /\ unseen' = unseen /\ bindings' = bindings
  BY DEF Reinstalled, At
<1>2. stack \in Seq(Frames) /\ OpensTyped' /\ UNCHANGED protocols
  <2>1. UNCHANGED database
    BY <1>1
  <2> QED
    BY <1>1, <2>1, TheTop, NoOpens
<1>3. stack' \in Seq(Frames)
  <2>1. \A f \in Frames : Told(f, "success") \in Frames
    BY Results, ToldFrame
  <2> QED
    BY <1>1, <1>2, <2>1, Returning
<1>4. signaled' = (signaled \/ Top.p = Watched)
  BY <1>1 DEF Notified
<1>5. Typed'
  BY <1>1, <1>2, <1>3, <1>4 DEF Known, Typed, Tables
<1>6. After' = After /\ \A h : Installed(h, Watched)' <=> Installed(h, Watched)
  BY <1>1, <1>2 DEF After, Installed
<1>7. unseen' # {} => signaled' \/ \E i \in DOMAIN stack' : Moved(stack'[i])
  <2>1. CASE Top.p = Watched
    BY <1>4, <2>1
  <2>2. CASE Top.p # Watched
    <3>1. MovedStays
      BY <1>1, <1>2, <2>2, Results, ReturnMoves DEF Moved
    <3> QED
      BY <1>1, <1>4, <2>2, <3>1 DEF Known, Reader, MovedStays, Typed
  <2> QED
    BY <2>1, <2>2
<1>8. Reader'
  BY <1>1, <1>6, <1>7 DEF Known, Reader
<1> QED
  BY <1>5, <1>8 DEF Known

-----------------------------------------------------------------------------
(******************************* The drivers *******************************)

\* An open of a driver, and of the bus driver for a child, are among those there may be.
LEMMA MayBeThere ==
  /\ \A d \in Drivers, h \in Handles :
       Uses[d] \in Protocols /\ Manager(d, h) \in Openings(h, Uses[d])
  /\ \A h \in Handles, k \in Kids : "io" \in Protocols /\ Child(k) \in Openings(h, "io")
  /\ \A h \in Handles, p \in Protocols : Open("app", Null, "exclusive") \in Openings(h, p)
  /\ \A h \in Handles, p \in Protocols : Open("core", Null, "get") \in Openings(h, p)
<1>1. \A d \in Drivers : Uses[d] \in Protocols
  BY Constants DEF Protocols
<1> QED
  BY <1>1 DEF Openings, Protocols

LEMMA StartFailsKnown ==
  ASSUME Known, StartFails PROVE Known'
<1>1. stack # <<>> /\ ~ Moved(Top) /\ Return("error")
  BY DEF StartFails, Moved
<1>2. UNCHANGED <<scenario, notify, bindings>> /\ UNCHANGED database
  BY DEF StartFails
<1> QED
  BY <1>1, <1>2, NoOpens, Results, QuietReturns

\* A driver opens what it uses.
LEMMA DriverOpens ==
  ASSUME Known, NEW d \in Drivers, OpenByDriver(d)
  PROVE  stack # <<>> /\ ~ Moved(Top) /\ Top \in Frames /\ Top.op = "start" /\ Top.agent = d
      /\ OpensTyped'
<1>1. /\ stack # <<>> /\ ~ Moved(Top) /\ Top.op = "start" /\ Top.agent = d
      /\ opens' = [opens EXCEPT ![<<Top.h, Uses[d]>>] = Opened(Top.h, Uses[d], Manager(d, Top.h))]
  BY DEF OpenByDriver, Starting, At, Moved
<1>2. Top \in Frames /\ Top.h \in Handles /\ OpensTyped
  BY <1>1, TheTop
<1>3. Uses[d] \in Protocols /\ Manager(d, Top.h) \in Openings(Top.h, Uses[d])
  BY <1>2, MayBeThere
<1>4. OpensTyped'
  BY <1>1, <1>2, <1>3, OpensOnce
<1> QED
  BY <1>1, <1>2, <1>4

LEMMA BusStartsKnown ==
  ASSUME Known, BusStarts PROVE Known'
<1> DEFINE f == [Top EXCEPT !.at = "enumerate"]
<1>1. OpenByDriver("bus") /\ GoOn(f) /\ UNCHANGED <<scenario, protocols, notify, bindings>>
  BY DEF BusStarts
<1>2. stack # <<>> /\ ~ Moved(Top) /\ Top \in Frames /\ Top.op = "start" /\ OpensTyped'
  BY <1>1, Constants, DriverOpens
<1>3. f \in Frames
  BY <1>2 DEF Frames, FrameType, Formed, Labels
<1> HIDE DEF f
<1> QED
  BY <1>1, <1>2, <1>3, QuietGoes

LEMMA DiskStartsKnown ==
  ASSUME Known, DiskStarts PROVE Known'
<1> DEFINE f == [Top EXCEPT !.at = "make"]
<1>1. OpenByDriver("disk") /\ GoOn(f) /\ UNCHANGED <<scenario, protocols, notify, bindings>>
  BY DEF DiskStarts
<1>2. stack # <<>> /\ ~ Moved(Top) /\ Top \in Frames /\ Top.op = "start" /\ OpensTyped'
  BY <1>1, Constants, DriverOpens
<1>3. f \in Frames
  BY <1>2 DEF Frames, FrameType, Formed, Labels
<1> HIDE DEF f
<1> QED
  BY <1>1, <1>2, <1>3, QuietGoes

LEMMA FsStartsKnown ==
  ASSUME Known, FsStarts PROVE Known'
<1>1. OpenByDriver("fs") /\ Return("success") /\ UNCHANGED <<scenario, protocols, notify, bindings>>
  BY DEF FsStarts
<1>2. stack # <<>> /\ ~ Moved(Top) /\ OpensTyped'
  BY <1>1, Constants, DriverOpens
<1> QED
  BY <1>1, <1>2, Results, QuietReturns

LEMMA BusMakesKidKnown ==
  ASSUME Known, NEW k \in Kids, BusMakesKid(k) PROVE Known'
<1> DEFINE f == [Top EXCEPT !.at = "child", !.child = k]
<1>1. /\ stack # <<>> /\ ~ Moved(Top) /\ Top.op = "start" /\ Top.agent = "bus" /\ ~ Valid(k)
      /\ Install(k, "block") /\ GoOn(f) /\ UNCHANGED scenario /\ bindings' = bindings
  BY Constants DEF BusMakesKid, Starting, At, Moved
<1>2. Top \in Frames /\ stack \in Seq(Frames) /\ bindings \subseteq Drivers /\ Tables
  BY <1>1, TheTop
<1>3. f \in Frames
  BY <1>1, <1>2 DEF Frames, FrameType, Formed, Labels
<1> HIDE DEF f
<1>4. /\ stack' \in Seq(Frames) /\ Len(stack') = Len(stack)
      /\ \A i \in 1 .. Len(stack) - 1 : stack'[i] = stack[i]
  BY <1>1, <1>2, <1>3, Goes DEF Below
<1>5. MovedStays
  <2>1. Len(stack) \in Nat /\ Top = stack[Len(stack)]
    BY <1>1, <1>2, TopFrame
  <2>2. ASSUME NEW i \in DOMAIN stack, Moved(stack[i])
        PROVE  i \in DOMAIN stack' /\ Moved(stack'[i])
    <3>1. i # Len(stack)
      BY <1>1, <2>1, <2>2
    <3>2. i \in 1 .. Len(stack) - 1 /\ i \in DOMAIN stack'
      BY <1>2, <1>4, <2>1, <3>1
    <3> QED
      BY <1>4, <2>2, <3>2
  <2> QED
    BY <2>2 DEF MovedStays
<1>6. ~ Installed(k, "block") /\ k \in Handles /\ "block" \in Protocols
  BY <1>1, Constants DEF Installed, Valid, Range, Protocols
<1> QED
  BY <1>1, <1>2, <1>4, <1>5, <1>6, InstallKnown

LEMMA BusOpensForKidKnown ==
  ASSUME Known, BusOpensForKid PROVE Known'
<1> DEFINE f == [Top EXCEPT !.at = "enumerate", !.child = Null]
<1>1. /\ stack # <<>> /\ ~ Moved(Top) /\ Top.op = "start" /\ Top.at = "child" /\ Top.agent = "bus"
      /\ opens' =
         [opens EXCEPT ![<<Top.h, "io">>] = Append(opens[<<Top.h, "io">>], Child(Top.child))]
      /\ GoOn(f) /\ UNCHANGED <<scenario, protocols, notify, bindings>>
  BY DEF BusOpensForKid, Starting, At, Moved
<1>2. Top \in Frames /\ Top.h \in Handles /\ OpensTyped /\ Top.child \in Kids
  BY <1>1, TheTop DEF Formed
<1>3. f \in Frames
  BY <1>1, <1>2 DEF Frames, FrameType, Formed, Labels
<1> HIDE DEF f
<1>4. "io" \in Protocols /\ Child(Top.child) \in Openings(Top.h, "io")
  BY <1>2, MayBeThere
<1>5. OpensTyped'
  BY <1>1, <1>2, <1>4, OneMore
<1> QED
  BY <1>1, <1>3, <1>5, QuietGoes

LEMMA BusStartedKnown ==
  ASSUME Known, BusStarted PROVE Known'
<1>1. stack # <<>> /\ ~ Moved(Top) /\ Return("success")
  BY DEF BusStarted, Starting, At, Moved
<1>2. UNCHANGED <<scenario, notify, bindings>> /\ UNCHANGED database
  BY DEF BusStarted
<1> QED
  BY <1>1, <1>2, NoOpens, Results, QuietReturns

LEMMA DiskMakesVolumeKnown ==
  ASSUME Known, DiskMakesVolume PROVE Known'
<1>1. /\ stack # <<>> /\ ~ Moved(Top) /\ Install(Top.h, "volume") /\ Return("success")
      /\ UNCHANGED scenario /\ bindings' = bindings
  BY Constants DEF DiskMakesVolume, Starting, At, Moved
<1>2. stack \in Seq(Frames) /\ bindings \subseteq Drivers /\ Top.h \in Handles
  BY <1>1, TheTop
<1>3. stack' \in Seq(Frames) /\ MovedStays
  BY <1>1, <1>2, Results, ReturnMoves
<1>4. "volume" \in Protocols /\ "volume" # Watched
  BY DEF Protocols, Watched
<1> QED
  BY <1>1, <1>2, <1>3, <1>4, InstallKnown

LEMMA DiskGivesUpKnown ==
  ASSUME Known, DiskGivesUp PROVE Known'
<1>1. /\ stack # <<>> /\ ~ Moved(Top) /\ Close(Top.h, "block", "disk", Top.h) /\ Return("error")
      /\ UNCHANGED <<scenario, protocols, notify, bindings>>
  BY Constants DEF DiskGivesUp, Starting, At, Moved
<1>2. OpensTyped'
  <2>1. OpensTyped /\ Top.h \in Handles /\ "block" \in Protocols
    BY <1>1, TheTop DEF Protocols
  <2> QED
    BY <1>1, <2>1, Closed
<1> QED
  BY <1>1, <1>2, Results, QuietReturns

LEMMA StopRefusesKnown ==
  ASSUME Known, StopRefuses PROVE Known'
<1>1. stack # <<>> /\ ~ Moved(Top) /\ Return("error")
  BY DEF StopRefuses, At, Moved
<1>2. UNCHANGED <<scenario, notify, bindings>> /\ UNCHANGED database
  BY DEF StopRefuses
<1> QED
  BY <1>1, <1>2, NoOpens, Results, QuietReturns

\* The first child that a bus driver is to stop.
LEMMA FirstKid ==
  ASSUME NEW f \in FrameType, f.kids # <<>>
  PROVE  Head(f.kids) \in Kids /\ Tail(f.kids) \in Seq(Kids)
<1>1. f.kids \in Seq(Kids)
  BY DEF FrameType
<1> QED
  BY <1>1

LEMMA BusStopsKidKnown ==
  ASSUME Known, BusStopsKid PROVE Known'
<1> DEFINE f == [Top EXCEPT !.at = "asked"]
           k == Head(Top.kids)
           g == Uninstall(k, "block")
<1>1. /\ stack # <<>> /\ ~ Moved(Top) /\ Top.op = "stop" /\ Top.agent = "bus" /\ Top.kids # <<>>
      /\ Close(Top.h, "io", "bus", k) /\ Invoke(f, g)
      /\ UNCHANGED <<scenario, protocols, notify, bindings>>
  BY Constants DEF BusStopsKid, Stopping, At, Moved
<1>2. Top \in Frames /\ Top \in FrameType /\ Top.h \in Handles /\ OpensTyped
  BY <1>1, TheTop
<1>3. f \in Frames
  BY <1>1, <1>2 DEF Frames, FrameType, Formed, Labels
<1>4. k \in Handles /\ "block" \in Protocols /\ "io" \in Protocols
  BY <1>1, <1>2, FirstKid, Constants DEF Protocols
<1> HIDE DEF k
<1>5. g \in Frames
  BY <1>4, NewFrames
<1> HIDE DEF f, g
<1>6. OpensTyped'
  BY <1>1, <1>2, <1>4, Closed
<1> QED
  BY <1>1, <1>3, <1>5, <1>6, QuietCalls

LEMMA BusStoppedKidKnown ==
  ASSUME Known, BusStoppedKid PROVE Known'
<1> DEFINE failed == Top.any \/ Top.status = "error"
           f == [Top EXCEPT !.at = "stop", !.kids = Tail(Top.kids), !.any = failed, !.status = ""]
           k == Head(Top.kids)
<1>1. /\ stack # <<>> /\ ~ Moved(Top) /\ Top.op = "stop" /\ Top.agent = "bus" /\ Top.at = "asked"
      /\ opens' = IF Top.status = "success" THEN opens
                  ELSE [opens EXCEPT ![<<Top.h, "io">>] = Append(opens[<<Top.h, "io">>], Child(k))]
      /\ IF Tail(Top.kids) = <<>>
         THEN Return(IF failed THEN "error" ELSE "success")
         ELSE GoOn(f)
      /\ UNCHANGED <<scenario, protocols, notify, bindings>>
  BY DEF BusStoppedKid, Stopping, At, Moved
<1>2. Top \in Frames /\ Top \in FrameType /\ Top.h \in Handles /\ OpensTyped /\ Top.kids # <<>>
  BY <1>1, TheTop DEF Formed
<1>3. k \in Kids /\ Tail(Top.kids) \in Seq(Kids)
  BY <1>2, FirstKid
<1>4. f \in Frames
  <2>1. ASSUME NEW kids \in Seq(Kids), NEW any \in BOOLEAN
        PROVE  [Top EXCEPT !.at = "stop", !.kids = kids, !.any = any, !.status = ""] \in Frames
    <3> DEFINE g == [Top EXCEPT !.at = "stop", !.kids = kids, !.any = any, !.status = ""]
    <3>1. g \in FrameType
      BY <1>2 DEF FrameType, Labels
    <3>2. Formed(g)
      BY <1>1, <1>2 DEF FrameType, Formed
    <3> QED
      BY <3>1, <3>2 DEF Frames
  <2>2. failed \in BOOLEAN
    BY <1>2 DEF FrameType
  <2> QED
    BY <1>3, <2>1, <2>2, Zenon
<1> HIDE DEF k, f
<1>5. OpensTyped'
  <2>1. CASE Top.status = "success"
    BY <1>1, <1>2, <2>1, SameOpens
  <2>2. CASE Top.status # "success"
    <3>1. "io" \in Protocols /\ Child(k) \in Openings(Top.h, "io")
      BY <1>2, <1>3, MayBeThere
    <3>2. opens' = [opens EXCEPT ![<<Top.h, "io">>] = Append(opens[<<Top.h, "io">>], Child(k))]
      BY <1>1, <2>2
    <3> QED
      BY <1>2, <3>1, <3>2, OneMore
  <2> QED
    BY <2>1, <2>2
<1>6. CASE Tail(Top.kids) = <<>>
  <2>1. (IF failed THEN "error" ELSE "success") \in Statuses
    BY Results
  <2> HIDE DEF failed
  <2> QED
    BY <1>1, <1>5, <1>6, <2>1, QuietReturns
<1>7. CASE Tail(Top.kids) # <<>>
  BY <1>1, <1>4, <1>5, <1>7, QuietGoes
<1> QED
  BY <1>6, <1>7

LEMMA BusStopsKnown ==
  ASSUME Known, BusStops PROVE Known'
<1>1. /\ stack # <<>> /\ ~ Moved(Top) /\ Close(Top.h, "io", "bus", Top.h) /\ Return("success")
      /\ UNCHANGED <<scenario, protocols, notify, bindings>>
  BY DEF BusStops, Stopping, At, Moved
<1>2. OpensTyped'
  <2>1. OpensTyped /\ Top.h \in Handles /\ "io" \in Protocols
    BY <1>1, TheTop DEF Protocols
  <2> QED
    BY <1>1, <2>1, Closed
<1> QED
  BY <1>1, <1>2, Results, QuietReturns

LEMMA DiskStopsKnown ==
  ASSUME Known, DiskStops PROVE Known'
<1> DEFINE f == [Top EXCEPT !.at = "asked"]
           g == Uninstall(Top.h, "volume")
<1>1. /\ stack # <<>> /\ ~ Moved(Top) /\ Top.op = "stop" /\ Top.agent = "disk" /\ Invoke(f, g)
  BY Constants DEF DiskStops, Stopping, At, Moved
<1>2. UNCHANGED <<scenario, notify, bindings>> /\ UNCHANGED database
  BY DEF DiskStops
<1>3. Top \in Frames /\ Top.h \in Handles
  BY <1>1, TheTop
<1>4. f \in Frames
  BY <1>1, <1>3 DEF Frames, FrameType, Formed, Labels
<1>5. g \in Frames
  <2>1. "volume" \in Protocols
    BY DEF Protocols
  <2> QED
    BY <1>3, <2>1, NewFrames
<1> HIDE DEF f, g
<1> QED
  BY <1>1, <1>2, <1>4, <1>5, NoOpens, QuietCalls

LEMMA DiskStoppedKnown ==
  ASSUME Known, DiskStopped PROVE Known'
<1>1. /\ stack # <<>> /\ ~ Moved(Top) /\ Return(Top.status)
      /\ IF Top.status = "success" THEN Close(Top.h, "block", "disk", Top.h) ELSE opens' = opens
      /\ UNCHANGED <<scenario, protocols, notify, bindings>>
  BY DEF DiskStopped, Stopping, At, Moved
<1>2. Top \in FrameType /\ Top.h \in Handles /\ OpensTyped /\ "block" \in Protocols
  BY <1>1, TheTop DEF Protocols
<1>3. Top.status \in Statuses
  BY <1>2 DEF FrameType, Statuses
<1>4. OpensTyped'
  <2>1. CASE Top.status = "success"
    BY <1>1, <1>2, <2>1, Closed
  <2>2. CASE Top.status # "success"
    BY <1>1, <1>2, <2>2, SameOpens
  <2> QED
    BY <2>1, <2>2
<1> QED
  BY <1>1, <1>3, <1>4, QuietReturns

LEMMA FsStopsKnown ==
  ASSUME Known, FsStops PROVE Known'
<1>1. /\ stack # <<>> /\ ~ Moved(Top) /\ Close(Top.h, "volume", "fs", Top.h) /\ Return("success")
      /\ UNCHANGED <<scenario, protocols, notify, bindings>>
  BY DEF FsStops, Stopping, At, Moved
<1>2. OpensTyped'
  <2>1. OpensTyped /\ Top.h \in Handles /\ "volume" \in Protocols
    BY <1>1, TheTop DEF Protocols
  <2> QED
    BY <1>1, <2>1, Closed
<1> QED
  BY <1>1, <1>2, Results, QuietReturns

-----------------------------------------------------------------------------
(******************************** The calls ********************************)

LEMMA TheRest ==
  ASSUME Known
  PROVE  Tables /\ OpensTyped /\ bindings \subseteq Drivers /\ stack \in Seq(Frames) /\ Reader
BY DEF Known, Typed, Tables

LEMMA CallInstallKnown ==
  ASSUME Known, CallInstall PROVE Known'
<1>1. Install(Root, "io") /\ stack' = stack /\ bindings' = bindings /\ UNCHANGED scenario
  BY DEF CallInstall
<1>2. Root \in Handles /\ "io" \in Protocols /\ "io" # Watched
  BY Constants DEF Protocols, Watched
<1>3. MovedStays
  BY <1>1 DEF MovedStays
<1> QED
  BY <1>1, <1>2, <1>3, TheRest, InstallKnown

\* An open or a close by somebody between two steps of the calls under way.
LEMMA QuietBetween ==
  ASSUME Known, OpensTyped', UNCHANGED <<scenario, protocols, notify, bindings, stack>>
  PROVE  Known'
<1>1. MovedStays
  BY DEF MovedStays
<1> QED
  BY <1>1, TheRest, QuietStep

LEMMA CallGetKnown ==
  ASSUME Known, NEW h \in Handles, NEW p \in Protocols, CallGet(h, p) PROVE Known'
<1>1. /\ opens' = [opens EXCEPT ![<<h, p>>] = Opened(h, p, Open("core", Null, "get"))]
      /\ UNCHANGED <<scenario, protocols, notify, bindings, stack>>
  BY DEF CallGet
<1>2. Open("core", Null, "get") \in Openings(h, p)
  BY MayBeThere
<1>3. OpensTyped'
  BY <1>1, <1>2, TheRest, OpensOnce
<1> QED
  BY <1>1, <1>3, QuietBetween

LEMMA CallCloseKnown ==
  ASSUME Known, NEW h \in Handles, NEW p \in Protocols, CallClose(h, p) PROVE Known'
<1>1. Close(h, p, "app", Null) /\ UNCHANGED <<scenario, protocols, notify, bindings, stack>>
  BY DEF CallClose
<1>2. OpensTyped'
  BY <1>1, TheRest, Closed
<1> QED
  BY <1>1, <1>2, QuietBetween

LEMMA CallLoadKnown ==
  ASSUME Known, NEW d \in Drivers, CallLoad(d) PROVE Known'
<1>1. /\ bindings' = bindings \cup {d} /\ UNCHANGED <<scenario, notify, stack>>
      /\ UNCHANGED database
  BY DEF CallLoad
<1>2. MovedStays
  BY <1>1 DEF MovedStays
<1> QED
  BY <1>1, <1>2, NoOpens, TheRest, QuietStep

\* The function is told of the next interface, and waits for the next signal
\* only when there is none.
LEMMA CallLocateKnown ==
  ASSUME Known, CallLocate PROVE Known'
<1>1. /\ IF After <= Len(entry)
         THEN /\ position' = entry[After] /\ unseen' = unseen \ {entry[After]}
              /\ signaled' = signaled
         ELSE signaled' = FALSE /\ position' = position /\ unseen' = unseen
      /\ entry' = entry /\ stack' = stack /\ bindings' = bindings
      /\ UNCHANGED scenario /\ UNCHANGED database
  BY DEF CallLocate
<1>2. protocols' = protocols /\ OpensTyped'
  BY <1>1, NoOpens
<1>3. Typed'
  BY <1>1, <1>2 DEF Known, Typed, Tables
<1>4. /\ entry \in Seq(Handles) /\ IsInjective(entry) /\ position \in Range(entry) \cup {Null}
      /\ unseen = ToFind(entry, position) /\ After = Behind(entry, position)
      /\ unseen # {} => signaled \/ \E i \in DOMAIN stack : Moved(stack[i])
  BY TheRest DEF Reader, After, ToFind, Behind
<1>5. {k \in Handles : Installed(k, Watched)'} = {k \in Handles : Installed(k, Watched)}
  BY <1>2 DEF Installed
<1>6. Range(entry') = {k \in Handles : Installed(k, Watched)'}
  BY <1>1, <1>5, TheRest DEF Reader
<1>7. CASE After <= Len(entry)
  <2>1. position' = entry[After] /\ unseen' = unseen \ {entry[After]} /\ signaled' = signaled
    BY <1>1, <1>7
  <2>2. /\ entry[After] \in Range(entry)
        /\ ToFind(entry, entry[After]) = unseen \ {entry[After]}
    BY <1>4, <1>7, FoundNext
  <2>3. unseen' = ToFind(entry', position')
    BY <1>1, <2>1, <2>2
  <2>4. position' \in Range(entry') \cup {Null}
    BY <1>1, <2>1, <2>2
  <2>5. unseen' # {} => signaled' \/ \E i \in DOMAIN stack' : Moved(stack'[i])
    BY <1>1, <1>4, <2>1
  <2>6. entry' \in Seq(Handles) /\ IsInjective(entry')
    BY <1>1, <1>4
  <2>7. Reader'
    BY <1>6, <2>3, <2>4, <2>5, <2>6 DEF Reader, After, ToFind, Behind
  <2> QED
    BY <1>3, <2>7 DEF Known
<1>8. CASE ~ (After <= Len(entry))
  <2>1. position' = position /\ unseen' = unseen
    BY <1>1, <1>8
  <2>2. unseen = {}
    <3> DEFINE x == position
    <3>1. x \in Range(entry) \cup {Null} /\ ToFind(entry, position) = ToFind(entry, x)
          /\ Behind(entry, position) = Behind(entry, x)
      BY <1>4
    <3> HIDE DEF x
    <3>2. PICK n : PlaceOf(entry, x, n)
      BY <1>4, <3>1, HasPlace
    <3>3. Behind(entry, x) = n + 1 /\ ToFind(entry, x) = {entry[i] : i \in n + 1 .. Len(entry)}
      BY <1>4, <3>2, ToFindAre
    <3>4. n \in Nat /\ Len(entry) \in Nat /\ ~ (n + 1 <= Len(entry))
      BY <1>4, <1>8, <3>1, <3>2, <3>3 DEF PlaceOf
    <3>5. n + 1 .. Len(entry) = {}
      BY <3>4
    <3> QED
      BY <1>4, <3>1, <3>3, <3>5
  <2>3. After' = After
    BY <1>1, <2>1 DEF After
  <2>4. Reader'
    BY <1>1, <1>4, <1>6, <2>1, <2>2, <2>3, TheRest DEF Reader
  <2> QED
    BY <1>3, <2>4 DEF Known
<1> QED
  BY <1>7, <1>8

LEMMA CallsKnown ==
  ASSUME Known, CallSomething PROVE Known'
<1>1. ASSUME NEW h \in Handles, NEW recursive \in BOOLEAN, CallConnect(h, recursive)
      PROVE  Known'
  <2>1. Connect(h, recursive) \in Frames
    BY NewFrames
  <2> QED
    BY <1>1, <2>1, QuietBegins DEF CallConnect
<1>2. ASSUME NEW h \in Handles, NEW agent \in Drivers \cup {""}, NEW child \in Kids \cup {Null},
             CallDisconnect(h, agent, child)
      PROVE  Known'
  <2>1. Disconnect(h, agent, child) \in Frames
    BY NewFrames
  <2> QED
    BY <1>2, <2>1, QuietBegins DEF CallDisconnect
<1>3. CASE CallUninstall
  <2>1. Uninstall(Root, "io") \in Frames
    BY NewFrames, Constants DEF Protocols
  <2> QED
    BY <1>3, <2>1, QuietBegins DEF CallUninstall
<1>4. ASSUME NEW h \in Handles, NEW p \in Protocols, CallReinstall(h, p)
      PROVE  Known'
  <2>1. Reinstall(h, p) \in Frames
    BY NewFrames
  <2> QED
    BY <1>4, <2>1, QuietBegins DEF CallReinstall
<1>5. ASSUME NEW h \in Handles, NEW p \in Protocols, CallExclusive(h, p)
      PROVE  Known'
  <2>1. Exclusive(h, p) \in Frames
    BY NewFrames
  <2> QED
    BY <1>5, <2>1, QuietBegins DEF CallExclusive
<1> QED
  BY <1>1, <1>2, <1>3, <1>4, <1>5, CallInstallKnown, CallLocateKnown, CallGetKnown,
     CallCloseKnown, CallLoadKnown DEF CallSomething

LEMMA StepsKnown ==
  ASSUME Known, Step PROVE Known'
<1>1. CASE NotFound \/ FindDriver \/ Refuse \/ Refused \/ Reinstalled
           \/ (Unused /\ (Uninstalls \/ Reinstalls))
  BY <1>1, NotFoundKnown, FindDriverKnown, RefuseKnown, RefusedKnown, ReinstalledKnown,
     UninstallsKnown, ReinstallsKnown
<1>2. CASE OpenDenied \/ OpenFindDriver \/ OpenSucceeds
  BY <1>2, OpenDeniedKnown, OpenFindDriverKnown, OpenSucceedsKnown
<1>3. CASE CollectAgents \/ AllAsked \/ NoDriver \/ CollectChildren
           \/ StopChildren \/ StopDriver \/ DriverAsked
  BY <1>3, CollectAgentsKnown, AllAskedKnown, NoDriverKnown, CollectChildrenKnown,
     StopChildrenKnown, StopDriverKnown, DriverAskedKnown
<1>4. CASE CollectDrivers \/ CheckDrivers \/ TryDriver \/ Tried \/ Descend \/ Descended
  BY <1>4, CollectDriversKnown, CheckDriversKnown, TryDriverKnown, TriedKnown, DescendKnown,
     DescendedKnown
<1>5. CASE \/ StartFails \/ BusStarts \/ (\E k \in Kids : BusMakesKid(k)) \/ BusOpensForKid
           \/ BusStarted \/ DiskStarts \/ DiskMakesVolume \/ DiskGivesUp \/ FsStarts
  BY <1>5, StartFailsKnown, BusStartsKnown, BusMakesKidKnown, BusOpensForKidKnown,
     BusStartedKnown, DiskStartsKnown, DiskMakesVolumeKnown, DiskGivesUpKnown, FsStartsKnown
<1>6. CASE \/ StopRefuses \/ BusStopsKid \/ BusStoppedKid \/ BusStops \/ DiskStops
           \/ DiskStopped \/ FsStops
  BY <1>6, StopRefusesKnown, BusStopsKidKnown, BusStoppedKidKnown, BusStopsKnown,
     DiskStopsKnown, DiskStoppedKnown, FsStopsKnown
<1> QED
  BY <1>1, <1>2, <1>3, <1>4, <1>5, <1>6 DEF Step

LEMMA InitKnown ==
  ASSUME Init PROVE Known
<1>1. /\ scenario \in Scenarios
      /\ protocols = [h \in Handles |-> IF h = Root THEN <<"io">> ELSE <<>>]
      /\ opens = [i \in Handles \X Protocols |-> <<>>]
      /\ entry = <<>> /\ position = Null /\ signaled = FALSE /\ unseen = {}
      /\ bindings = scenario.loaded /\ stack = <<>>
  BY DEF Init
<1>2. <<>> \in Seq(Protocols) /\ <<"io">> \in Seq(Protocols) /\ <<>> \in Seq(OpenType)
  BY DEF Protocols
<1>3. protocols \in [Handles -> Seq(Protocols)]
  BY <1>1, <1>2
<1>4. OpensTyped
  <2>1. opens \in [Handles \X Protocols -> Seq(OpenType)]
    BY <1>1, <1>2
  <2>2. ASSUME NEW h \in Handles, NEW p \in Protocols
        PROVE  opens[<<h, p>>] \in Seq(Openings(h, p))
    <3>1. opens[<<h, p>>] = <<>>
      BY <1>1
    <3> QED
      BY <3>1
  <2> QED
    BY <2>1, <2>2 DEF OpensTyped
<1>5. bindings \subseteq Drivers
  BY <1>1, ConstantsAssumption DEF ScenarioType
<1>6. stack \in Seq(Frames)
  BY <1>1
<1>7. Typed
  BY <1>1, <1>3, <1>4, <1>5, <1>6 DEF Typed, Tables
<1>8. Range(entry) = {} /\ IsInjective(entry) /\ entry \in Seq(Handles) /\ Len(entry) = 0
  BY <1>1 DEF Range, IsInjective
<1>9. \A h \in Handles : ~ Installed(h, Watched)
  <2> TAKE h \in Handles
  <2>1. CASE h = Root
    <3>1. protocols[h] = <<"io">>
      BY <1>1, <2>1
    <3> QED
      BY <3>1 DEF Installed, Range, Watched
  <2>2. CASE h # Root
    <3>1. protocols[h] = <<>>
      BY <1>1, <2>2
    <3> QED
      BY <3>1 DEF Installed, Range
  <2> QED
    BY <2>1, <2>2
<1>10. Range(SubSeq(entry, After, Len(entry))) = {}
  <2>1. After = 1
    BY <1>1 DEF After
  <2>2. SubSeq(entry, 1, 0) = <<>>
    BY <1>8
  <2> QED
    BY <1>8, <2>1, <2>2 DEF Range
<1>11. Reader
  BY <1>1, <1>8, <1>9, <1>10 DEF Reader
<1> QED
  BY <1>7, <1>11 DEF Known

LEMMA KnownStays ==
  Known /\ [Next]_vars => Known'
<1> SUFFICES ASSUME Known, [Next]_vars PROVE Known'
  OBVIOUS
<1>1. CASE CallSomething
  BY <1>1, CallsKnown
<1>2. CASE Step
  BY <1>2, StepsKnown
<1>3. CASE UNCHANGED vars
  <2>1. UNCHANGED <<scenario, notify, bindings, stack>> /\ UNCHANGED database
    BY <1>3 DEF vars
  <2> QED
    BY <2>1, NoOpens, QuietBetween
<1> QED
  BY <1>1, <1>2, <1>3 DEF Next

\* The tables, the list of Watched with the position of its notification, and
\* the calls under way are what the code of Hand can make of them.
THEOREM KnownAlways == Spec => []Known
<1>1. Init => Known
  BY InitKnown
<1> QED
  BY <1>1, KnownStays, PTL DEF Spec

\* The function registered for Watched is told of every interface that is
\* installed or reinstalled (the position of CoreRegisterProtocolNotify, which
\* backs up when CoreRemoveInterfaceFromProtocol takes the interface it is at).
THEOREM MissesNothing == Spec => []ReaderMissesNothing
<1>1. Known => ReaderMissesNothing
  BY DEF Known, Reader, ReaderMissesNothing, Moved
<1> QED
  BY <1>1, KnownAlways, PTL

-----------------------------------------------------------------------------
(************************** What a step does to the stack *******************)

\* The frames there are after a step, whatever the new ones are.
LEMMA GoesTo ==
  ASSUME stack \in Seq(Frames), stack # <<>>, NEW f, GoOn(f)
  PROVE  /\ Len(stack) \in Nat /\ Len(stack) > 0
         /\ Len(stack') = Len(stack) /\ stack'[Len(stack)] = f
         /\ DOMAIN stack' = 1 .. Len(stack)
         /\ \A i \in 1 .. Len(stack) - 1 : stack'[i] = stack[i]
<1> DEFINE T == Frames \cup {f}
<1>1. stack \in Seq(T) /\ f \in T /\ Len(stack) \in Nat /\ Len(stack) > 0
  OBVIOUS
<1> HIDE DEF T
<1>2. stack' \in Seq(T) /\ Len(stack') = Len(stack) /\ stack'[Len(stack)] = f /\ Below
  BY <1>1, Goes
<1> QED
  BY <1>1, <1>2 DEF Below

LEMMA CallsTo ==
  ASSUME stack \in Seq(Frames), stack # <<>>, NEW f, NEW g, Invoke(f, g)
  PROVE  /\ Len(stack) \in Nat /\ Len(stack) > 0
         /\ Len(stack') = Len(stack) + 1
         /\ stack'[Len(stack)] = f /\ stack'[Len(stack) + 1] = g
         /\ DOMAIN stack' = 1 .. Len(stack) + 1
         /\ \A i \in 1 .. Len(stack) - 1 : stack'[i] = stack[i]
<1> DEFINE T == Frames \cup {f, g}
<1>1. stack \in Seq(T) /\ f \in T /\ g \in T /\ Len(stack) \in Nat /\ Len(stack) > 0
  OBVIOUS
<1> HIDE DEF T
<1>2. /\ stack' \in Seq(T) /\ Len(stack') = Len(stack) + 1 /\ stack'[Len(stack)] = f
      /\ stack'[Len(stack) + 1] = g /\ Below
  BY <1>1, Calling
<1> QED
  BY <1>1, <1>2 DEF Below

LEMMA ReturnsTo ==
  ASSUME stack \in Seq(Frames), stack # <<>>, NEW status \in Statuses, Return(status)
  PROVE  /\ Len(stack) \in Nat /\ Len(stack) > 0
         /\ Len(stack') = Len(stack) - 1
         /\ DOMAIN stack' = 1 .. Len(stack) - 1
         /\ \A i \in 1 .. Len(stack) - 2 : stack'[i] = stack[i]
         /\ Len(stack) > 1 =>
              stack'[Len(stack) - 1] = IF Top.callback THEN stack[Len(stack) - 1]
                                       ELSE Told(stack[Len(stack) - 1], status)
<1>1. \A f \in Frames : Told(f, status) \in Frames
  BY ToldFrame
<1>2. /\ stack' \in Seq(Frames) /\ Len(stack') = Len(stack) - 1
      /\ \A i \in 1 .. Len(stack) - 2 : stack'[i] = stack[i]
      /\ Len(stack) > 1 =>
           stack'[Len(stack) - 1] = IF Top.callback THEN stack[Len(stack) - 1]
                                    ELSE Told(stack[Len(stack) - 1], status)
  BY <1>1, Returning
<1> QED
  BY <1>2

LEMMA BeginsTo ==
  ASSUME stack \in Seq(Frames), NEW op, NEW f, Begin(op, f)
  PROVE  /\ Len(stack) \in Nat /\ Len(stack') = Len(stack) + 1
         /\ DOMAIN stack' = 1 .. Len(stack) + 1
         /\ stack'[Len(stack) + 1] = Marked(f, stack # <<>>)
         /\ \A i \in 1 .. Len(stack) : stack'[i] = stack[i]
<1> DEFINE g == Marked(f, stack # <<>>)
           T == Frames \cup {g}
<1>1. stack \in Seq(T) /\ g \in T
  OBVIOUS
<1>2. g = [f EXCEPT !.callback = stack # <<>>]
  BY DEF Marked
<1> HIDE DEF T, g
<1>3. /\ stack' \in Seq(T) /\ Len(stack') = Len(stack) + 1 /\ Len(stack) \in Nat
      /\ stack'[Len(stack) + 1] = g
      /\ \A i \in 1 .. Len(stack) : stack'[i] = stack[i]
  BY <1>1, <1>2, Beginning
<1> QED
  BY <1>3 DEF g

\* What does not change when a frame is told how a call ended.
LEMMA ToldIs ==
  ASSUME NEW f \in FrameType, NEW status
  PROVE  LET g == Told(f, status)
         IN  /\ g.op = f.op /\ g.at = f.at /\ g.h = f.h /\ g.p = f.p /\ g.agent = f.agent
             /\ g.child = f.child /\ g.drivers = f.drivers /\ g.kids = f.kids /\ g.any = f.any
             /\ g.callback = f.callback /\ g.status = status /\ g.how = f.how
BY DEF Told, FrameType

LEMMA MarkedIs ==
  ASSUME NEW f \in FrameType, NEW callback
  PROVE  LET g == Marked(f, callback)
         IN  /\ g.op = f.op /\ g.at = f.at /\ g.h = f.h /\ g.p = f.p /\ g.agent = f.agent
             /\ g.child = f.child /\ g.drivers = f.drivers /\ g.kids = f.kids /\ g.any = f.any
             /\ g.callback = callback /\ g.status = f.status /\ g.how = f.how
BY DEF Marked, FrameType

\* What a frame is at first.
IsNew(g, op, at, h) ==
  /\ g.op = op /\ g.at = at /\ g.h = h
  /\ g.kids = <<>> /\ g.any = FALSE /\ g.status = "" /\ g.callback = FALSE

LEMMA NewIs ==
  ASSUME NEW h \in Handles
  PROVE  /\ \A p : IsNew(Uninstall(h, p), "uninstall", "find", h) /\ Uninstall(h, p).p = p
         /\ \A p : IsNew(Reinstall(h, p), "reinstall", "find", h)
         /\ \A p : IsNew(Exclusive(h, p), "open", "open", h)
         /\ \A agent, child : \E at \in {"agents", "next"} :
              IsNew(Disconnect(h, agent, child), "disconnect", at, h)
         /\ \A recursive : IsNew(Connect(h, recursive), "connect", "collect", h)
         /\ IsNew(WholeTree(h), "connect", "collect", h)
         /\ \A d : IsNew(Start(d, h), "start", "start", h) /\ Start(d, h).agent = d
         /\ \A d, kids : IsNew([Stop(d, h, kids) EXCEPT !.kids = <<>>], "stop", "stop", h)
         /\ \A d, kids : Stop(d, h, kids).agent = d /\ Stop(d, h, kids).kids = kids
<1>1. \A p : IsNew(Uninstall(h, p), "uninstall", "find", h) /\ Uninstall(h, p).p = p
  BY DEF Uninstall, Call, IsNew
<1>2. \A p : IsNew(Reinstall(h, p), "reinstall", "find", h)
  BY DEF Reinstall, Call, IsNew
<1>3. \A p : IsNew(Exclusive(h, p), "open", "open", h)
  BY DEF Exclusive, Call, IsNew
<1>4. \A agent, child : \E at \in {"agents", "next"} :
        IsNew(Disconnect(h, agent, child), "disconnect", at, h)
  BY DEF Disconnect, Call, IsNew
<1>5. \A recursive : IsNew(Connect(h, recursive), "connect", "collect", h)
  BY DEF Connect, Call, IsNew
<1>6. IsNew(WholeTree(h), "connect", "collect", h)
  BY <1>5 DEF WholeTree
<1>7. \A d : IsNew(Start(d, h), "start", "start", h) /\ Start(d, h).agent = d
  BY DEF Start, Call, IsNew
<1>8. \A d, kids : /\ IsNew([Stop(d, h, kids) EXCEPT !.kids = <<>>], "stop", "stop", h)
                   /\ Stop(d, h, kids).agent = d /\ Stop(d, h, kids).kids = kids
  BY DEF Stop, Call, IsNew
<1> QED
  BY <1>1, <1>2, <1>3, <1>4, <1>5, <1>6, <1>7, <1>8

LEMMA NewOps ==
  ASSUME NEW h \in Handles
  PROVE  /\ \A p : Uninstall(h, p).op = "uninstall" /\ Reinstall(h, p).op = "reinstall"
         /\ \A p : Exclusive(h, p).op = "open" /\ Exclusive(h, p).at = "open"
         /\ \A agent, child : Disconnect(h, agent, child).op = "disconnect"
         /\ \A recursive : Connect(h, recursive).op = "connect"
         /\ WholeTree(h).op = "connect"
         /\ \A d : Start(d, h).op = "start"
         /\ \A d, kids : Stop(d, h, kids).op = "stop"
BY DEF Uninstall, Reinstall, Exclusive, Disconnect, WholeTree, Connect, Start, Stop, Call

-----------------------------------------------------------------------------
(******************************* One manager *******************************)

\* An open that keeps other drivers away, and a list that has at most one.
Holds(o)  == o.how \in {"driver", "exclusive"}
Single(s) == \A i, j \in DOMAIN s : Holds(s[i]) /\ Holds(s[j]) => i = j

Singles == \A h \in Handles, p \in Protocols : Single(opens[<<h, p>>])

\* Only the program opens exclusively.  While it has a driver stopped nobody
\* else gets exclusive access.
Alone ==
  \A i \in DOMAIN stack : stack[i].op = "open" =>
    /\ i = 1
    /\ stack[i].at = "asked" =>
         \A o \in Range(opens[<<stack[i].h, stack[i].p>>]) : o.how # "exclusive"

Openers == Singles /\ Alone

\* A step that leaves the lists single and lets nobody open exclusively.
Mild ==
  /\ Singles'
  /\ \A h \in Handles, p \in Protocols : \A o \in Range(opens'[<<h, p>>]) :
       o.how = "exclusive" => o \in Range(opens[<<h, p>>])

LEMMA SinglePart ==
  ASSUME NEW T, NEW s \in Seq(T), Single(s), NEW S, S \subseteq DOMAIN s
  PROVE  Single(Subsequence(s, S))
<1> DEFINE t == Subsequence(s, S)
<1>1. /\ DOMAIN t = 1 .. Cardinality(S)
      /\ \A k \in 1 .. Cardinality(S) : Nth(S, k) \in S /\ t[k] = s[Nth(S, k)]
      /\ \A k, l \in 1 .. Cardinality(S) : k < l => Nth(S, k) < Nth(S, l)
  BY SubsequenceElements
<1> HIDE DEF t
<1> SUFFICES ASSUME NEW k \in DOMAIN t, NEW l \in DOMAIN t, Holds(t[k]), Holds(t[l]) PROVE k = l
  BY DEF t, Single
<1>2. Nth(S, k) \in DOMAIN s /\ Nth(S, l) \in DOMAIN s
  BY <1>1
<1>3. Nth(S, k) = Nth(S, l) /\ Nth(S, k) \in Int /\ k \in Int /\ l \in Int
  BY <1>1, <1>2 DEF Single
<1> QED
  BY <1>1, <1>3

LEMMA SingleMore ==
  ASSUME NEW T, NEW s \in Seq(T), Single(s), NEW o \in T,
         ~ Holds(o) \/ \A x \in Range(s) : ~ Holds(x)
  PROVE  Single(Append(s, o))
<1> DEFINE t == Append(s, o)
<1>1. /\ DOMAIN t = 1 .. Len(s) + 1 /\ DOMAIN s = 1 .. Len(s) /\ Len(s) \in Nat
      /\ t[Len(s) + 1] = o /\ \A i \in 1 .. Len(s) : t[i] = s[i]
  OBVIOUS
<1> HIDE DEF t
<1> SUFFICES ASSUME NEW k \in DOMAIN t, NEW l \in DOMAIN t, Holds(t[k]), Holds(t[l]) PROVE k = l
  BY DEF t, Single
<1> HIDE DEF Holds
<1>2. \A i \in DOMAIN t : i \in 1 .. Len(s) \/ i = Len(s) + 1
  BY <1>1
<1>3. CASE k \in 1 .. Len(s) /\ l \in 1 .. Len(s)
  BY <1>1, <1>3 DEF Single
<1>4. CASE k \in 1 .. Len(s) /\ l = Len(s) + 1
  BY <1>1, <1>4 DEF Range
<1>5. CASE l \in 1 .. Len(s) /\ k = Len(s) + 1
  BY <1>1, <1>5 DEF Range
<1> QED
  BY <1>2, <1>3, <1>4, <1>5

\* A single list has one driver, or one exclusive open, or neither.
LEMMA SingleIs ==
  ASSUME NEW T, NEW s \in Seq(T), Single(s)
  PROVE  Len(Those(s, "driver")) + Len(Those(s, "exclusive")) <= 1
<1> DEFINE I(how) == {i \in DOMAIN s : s[i].how = how}
           n(how) == Cardinality(I(how))
<1>1. ASSUME NEW how
      PROVE  /\ Len(Those(s, how)) = n(how)
             /\ \A k \in 1 .. n(how) : Nth(I(how), k) \in I(how)
             /\ \A k, l \in 1 .. n(how) : k < l => Nth(I(how), k) < Nth(I(how), l)
             /\ n(how) \in Nat
  <2> DEFINE S == I(how)
  <2>1. S \subseteq DOMAIN s /\ DOMAIN s = 1 .. Len(s) /\ Len(s) \in Nat
    OBVIOUS
  <2>2. Those(s, how) = Subsequence(s, S)
    BY DEF Those
  <2> HIDE DEF S
  <2>3. /\ Len(Subsequence(s, S)) = Cardinality(S)
        /\ \A k \in 1 .. Cardinality(S) : Nth(S, k) \in S
        /\ \A k, l \in 1 .. Cardinality(S) : k < l => Nth(S, k) < Nth(S, l)
    BY <2>1, SubsequenceElements
  <2>4. Cardinality(S) \in Nat
    BY <2>1, NthElement
  <2> QED
    BY <2>2, <2>3, <2>4 DEF S
<1>2. \A i \in I("driver") \cup I("exclusive"), j \in I("driver") \cup I("exclusive") : i = j
  BY DEF Single, Holds
<1>3. \A i \in I("driver") : i \notin I("exclusive")
  OBVIOUS
<1>4. I("driver") \subseteq Nat /\ I("exclusive") \subseteq Nat
  OBVIOUS
<1> HIDE DEF I, n
<1>5. ASSUME NEW how \in {"driver", "exclusive"}
      PROVE  n(how) <= 1
  <2> SUFFICES ASSUME n(how) > 1 PROVE FALSE
    BY <1>1
  <2>1. n(how) \in Nat /\ 1 \in 1 .. n(how) /\ 2 \in 1 .. n(how)
    BY <1>1
  <2>2. Nth(I(how), 1) \in I(how) /\ Nth(I(how), 2) \in I(how)
    BY <1>1, <2>1
  <2>3. Nth(I(how), 1) = Nth(I(how), 2)
    BY <1>2, <2>2
  <2>4. Nth(I(how), 1) < Nth(I(how), 2)
    BY <1>1, <2>1
  <2> QED
    BY <1>4, <2>2, <2>3, <2>4
<1>6. ~ (n("driver") > 0 /\ n("exclusive") > 0)
  <2> SUFFICES ASSUME n("driver") > 0, n("exclusive") > 0 PROVE FALSE
    OBVIOUS
  <2>1. 1 \in 1 .. n("driver") /\ 1 \in 1 .. n("exclusive")
    BY <1>1
  <2>2. Nth(I("driver"), 1) \in I("driver") /\ Nth(I("exclusive"), 1) \in I("exclusive")
    BY <1>1, <2>1
  <2> QED
    BY <1>2, <1>3, <2>2
<1>7. n("driver") \in Nat /\ n("exclusive") \in Nat /\ n("driver") <= 1 /\ n("exclusive") <= 1
  BY <1>1, <1>5
<1> QED
  BY <1>1, <1>6, <1>7

\* The list of one interface changes.
LEMMA MildSet ==
  ASSUME Singles, NEW h \in Handles, NEW p \in Protocols, Single(opens'[<<h, p>>]),
         \A o \in Range(opens'[<<h, p>>]) : o.how = "exclusive" => o \in Range(opens[<<h, p>>]),
         \A g \in Handles, q \in Protocols :
           g # h \/ q # p => opens'[<<g, q>>] = opens[<<g, q>>]
  PROVE  Mild
<1>1. ASSUME NEW g \in Handles, NEW q \in Protocols
      PROVE  /\ Single(opens'[<<g, q>>])
             /\ \A o \in Range(opens'[<<g, q>>]) :
                  o.how = "exclusive" => o \in Range(opens[<<g, q>>])
  <2>1. CASE g = h /\ q = p
    BY <2>1
  <2>2. CASE ~ (g = h /\ q = p)
    BY <2>2 DEF Singles
  <2> QED
    BY <2>1, <2>2
<1> QED
  BY <1>1 DEF Mild, Singles

LEMMA MildSame ==
  ASSUME Singles, opens' = opens
  PROVE  Mild
BY DEF Mild, Singles, Single

LEMMA MildFewer ==
  ASSUME OpensTyped, Singles, NEW h \in Handles, NEW p \in Protocols,
         NEW I, I \subseteq DOMAIN opens[<<h, p>>],
         opens' = [opens EXCEPT ![<<h, p>>] = Subsequence(opens[<<h, p>>], I)]
  PROVE  Mild
<1>1. /\ Range(opens'[<<h, p>>]) = {opens[<<h, p>>][i] : i \in I}
      /\ \A g \in Handles, q \in Protocols : g # h \/ q # p => opens'[<<g, q>>] = opens[<<g, q>>]
  BY FewerOpens
<1>2. \A o \in Range(opens'[<<h, p>>]) : o \in Range(opens[<<h, p>>])
  BY <1>1 DEF Range
<1>3. Single(opens'[<<h, p>>])
  <2> DEFINE s == opens[<<h, p>>]
  <2>1. s \in Seq(Openings(h, p)) /\ Single(s)
    BY DEF OpensTyped, Singles
  <2>2. opens'[<<h, p>>] = Subsequence(s, I) /\ I \subseteq DOMAIN s
    BY DEF OpensTyped
  <2> HIDE DEF s
  <2> QED
    BY <2>1, <2>2, SinglePart
<1> QED
  BY <1>1, <1>2, <1>3, MildSet

LEMMA MildClosed ==
  ASSUME OpensTyped, Singles, NEW h \in Handles, NEW p \in Protocols, NEW agent, NEW controller,
         Close(h, p, agent, controller)
  PROVE  Mild
<1> DEFINE s == opens[<<h, p>>]
           kept == {i \in DOMAIN s : s[i].agent # agent \/ s[i].controller # controller}
<1>1. kept \subseteq DOMAIN opens[<<h, p>>]
  OBVIOUS
<1>2. opens' = [opens EXCEPT ![<<h, p>>] = Subsequence(opens[<<h, p>>], kept)]
  BY DEF Close
<1> HIDE DEF kept
<1> QED
  BY <1>1, <1>2, MildFewer

LEMMA MildNone ==
  ASSUME OpensTyped, Singles, NEW h \in Handles, NEW p \in Protocols,
         opens' = [opens EXCEPT ![<<h, p>>] = <<>>]
  PROVE  Mild
<1>1. /\ opens'[<<h, p>>] = <<>>
      /\ \A g \in Handles, q \in Protocols : g # h \/ q # p => opens'[<<g, q>>] = opens[<<g, q>>]
  BY NoOpensLeft
<1>2. Single(opens'[<<h, p>>]) /\ Range(opens'[<<h, p>>]) = {}
  BY <1>1 DEF Single, Range
<1> QED
  BY <1>1, <1>2, MildSet

LEMMA MildMore ==
  ASSUME OpensTyped, Singles, NEW h \in Handles, NEW p \in Protocols, NEW o \in Openings(h, p),
         o.how # "exclusive",
         ~ Holds(o) \/ \A x \in Range(opens[<<h, p>>]) : ~ Holds(x),
         opens' = [opens EXCEPT ![<<h, p>>] = Append(opens[<<h, p>>], o)]
  PROVE  Mild
<1>1. /\ opens'[<<h, p>>] = Append(opens[<<h, p>>], o)
      /\ Range(opens'[<<h, p>>]) = Range(opens[<<h, p>>]) \cup {o}
      /\ \A g \in Handles, q \in Protocols : g # h \/ q # p => opens'[<<g, q>>] = opens[<<g, q>>]
  BY OneMore
<1>2. Single(opens'[<<h, p>>])
  <2> DEFINE s == opens[<<h, p>>]
  <2>1. s \in Seq(Openings(h, p)) /\ Single(s)
    BY DEF OpensTyped, Singles
  <2>2. opens'[<<h, p>>] = Append(s, o) /\ (~ Holds(o) \/ \A x \in Range(s) : ~ Holds(x))
    BY <1>1
  <2> HIDE DEF s, Holds
  <2> QED
    BY <2>1, <2>2, SingleMore
<1>3. \A x \in Range(opens'[<<h, p>>]) : x.how = "exclusive" => x \in Range(opens[<<h, p>>])
  BY <1>1
<1> QED
  BY <1>1, <1>2, <1>3, MildSet

\* CoreOpenProtocol denies a driver what somebody manages or has exclusively.
LEMMA MildOnce ==
  ASSUME OpensTyped, Singles, NEW h \in Handles, NEW p \in Protocols, NEW o \in Openings(h, p),
         o.how \in {"driver", "get"}, opens' = [opens EXCEPT ![<<h, p>>] = Opened(h, p, o)]
  PROVE  Mild
<1>1. CASE OpenStatus(h, p, o) = "success" /\ o \notin Range(opens[<<h, p>>])
  <2>1. opens' = [opens EXCEPT ![<<h, p>>] = Append(opens[<<h, p>>], o)]
    BY <1>1 DEF Opened
  <2>2. ~ Holds(o) \/ \A x \in Range(opens[<<h, p>>]) : ~ Holds(x)
    <3> DEFINE s == opens[<<h, p>>]
    <3>1. s \in Seq(Openings(h, p))
      BY DEF OpensTyped
    <3>2. o.how = "driver" => ~ Some(s, "driver") /\ ~ Some(s, "exclusive")
      BY <1>1 DEF OpenStatus
    <3> HIDE DEF s
    <3>3. o.how = "driver" => \A x \in Range(s) : x.how # "driver" /\ x.how # "exclusive"
      BY <3>1, <3>2, ThoseAre
    <3> QED
      BY <3>3 DEF Holds, s
  <2> QED
    BY <2>1, <2>2, MildMore
<1>2. CASE ~ (OpenStatus(h, p, o) = "success" /\ o \notin Range(opens[<<h, p>>]))
  <2>1. Opened(h, p, o) = opens[<<h, p>>]
    BY <1>2 DEF Opened
  <2>2. opens' = opens
    BY <2>1 DEF OpensTyped
  <2> QED
    BY <2>2, MildSame
<1> QED
  BY <1>1, <1>2

\* The frames of the exclusive open are those there were.
LEMMA AloneKept ==
  ASSUME Known, Openers, Mild,
         \A i \in DOMAIN stack' : stack'[i].op = "open" =>
           /\ i \in DOMAIN stack /\ stack[i].op = "open" /\ stack'[i].at = stack[i].at
           /\ stack'[i].h = stack[i].h /\ stack'[i].p = stack[i].p
  PROVE  Openers'
<1>1. ASSUME NEW i \in DOMAIN stack', stack'[i].op = "open"
      PROVE  /\ i = 1
             /\ stack'[i].at = "asked" =>
                  \A o \in Range(opens'[<<stack'[i].h, stack'[i].p>>]) : o.how # "exclusive"
  <2> DEFINE h == stack[i].h
             p == stack[i].p
  <2>1. /\ i \in DOMAIN stack /\ stack[i].op = "open" /\ stack'[i].at = stack[i].at
        /\ stack'[i].h = h /\ stack'[i].p = p
    BY <1>1
  <2>2. i = 1 /\ (stack[i].at = "asked" => \A o \in Range(opens[<<h, p>>]) : o.how # "exclusive")
    BY <2>1 DEF Openers, Alone
  <2>3. h \in Handles /\ p \in Protocols
    <3>1. stack \in Seq(Frames)
      BY TheRest
    <3>2. stack[i] \in Frames
      BY <2>1, <3>1
    <3> QED
      BY <2>1, <3>2 DEF Frames, FrameType, Formed
  <2> HIDE DEF h, p
  <2>4. \A o \in Range(opens'[<<h, p>>]) : o.how = "exclusive" => o \in Range(opens[<<h, p>>])
    BY <2>3 DEF Mild
  <2> QED
    BY <2>1, <2>2, <2>4
<1> QED
  BY <1>1 DEF Openers, Alone, Mild

LEMMA AloneGoes ==
  ASSUME Known, Openers, Mild, stack # <<>>, NEW f, GoOn(f), f.op # "open"
  PROVE  Openers'
<1>1. stack \in Seq(Frames)
  BY TheRest
<1>2. /\ Len(stack) \in Nat /\ stack'[Len(stack)] = f /\ DOMAIN stack' = 1 .. Len(stack)
      /\ \A i \in 1 .. Len(stack) - 1 : stack'[i] = stack[i]
  BY <1>1, GoesTo
<1>3. ASSUME NEW i \in DOMAIN stack', stack'[i].op = "open"
      PROVE  i \in DOMAIN stack /\ stack'[i] = stack[i]
  <2>1. i # Len(stack)
    BY <1>2, <1>3
  <2>2. i \in 1 .. Len(stack) - 1 /\ i \in DOMAIN stack
    BY <1>1, <1>2, <2>1
  <2> QED
    BY <1>2, <2>2
<1> QED
  BY <1>3, AloneKept

LEMMA AloneCalls ==
  ASSUME Known, Openers, Mild, stack # <<>>, NEW f, NEW g, Invoke(f, g), f.op # "open",
         g.op # "open"
  PROVE  Openers'
<1>1. stack \in Seq(Frames)
  BY TheRest
<1>2. /\ Len(stack) \in Nat /\ stack'[Len(stack)] = f /\ stack'[Len(stack) + 1] = g
      /\ DOMAIN stack' = 1 .. Len(stack) + 1
      /\ \A i \in 1 .. Len(stack) - 1 : stack'[i] = stack[i]
  BY <1>1, CallsTo
<1>3. ASSUME NEW i \in DOMAIN stack', stack'[i].op = "open"
      PROVE  i \in DOMAIN stack /\ stack'[i] = stack[i]
  <2>1. i # Len(stack) /\ i # Len(stack) + 1
    BY <1>2, <1>3
  <2>2. i \in 1 .. Len(stack) - 1 /\ i \in DOMAIN stack
    BY <1>1, <1>2, <2>1
  <2> QED
    BY <1>2, <2>2
<1> QED
  BY <1>3, AloneKept

LEMMA AloneReturns ==
  ASSUME Known, Openers, Mild, stack # <<>>, NEW status \in Statuses, Return(status)
  PROVE  Openers'
<1>1. stack \in Seq(Frames)
  BY TheRest
<1>2. /\ Len(stack) \in Nat /\ DOMAIN stack' = 1 .. Len(stack) - 1
      /\ \A i \in 1 .. Len(stack) - 2 : stack'[i] = stack[i]
      /\ Len(stack) > 1 =>
           stack'[Len(stack) - 1] = IF Top.callback THEN stack[Len(stack) - 1]
                                    ELSE Told(stack[Len(stack) - 1], status)
  BY <1>1, ReturnsTo
<1>3. ASSUME NEW i \in DOMAIN stack', stack'[i].op = "open"
      PROVE  /\ i \in DOMAIN stack /\ stack[i].op = "open" /\ stack'[i].at = stack[i].at
             /\ stack'[i].h = stack[i].h /\ stack'[i].p = stack[i].p
  <2>1. i \in DOMAIN stack /\ stack[i] \in FrameType
    BY <1>1, <1>2 DEF Frames
  <2>2. stack'[i] = stack[i] \/ stack'[i] = Told(stack[i], status)
    <3>1. CASE i = Len(stack) - 1
      BY <1>2, <3>1
    <3>2. CASE i # Len(stack) - 1
      BY <1>2, <3>2
    <3> QED
      BY <3>1, <3>2
  <2> QED
    BY <1>3, <2>1, <2>2, ToldIs
<1> QED
  BY <1>3, AloneKept

LEMMA AloneBegins ==
  ASSUME Known, Openers, NEW op, NEW f \in Frames, Begin(op, f),
         f.op # "open" \/ (stack = <<>> /\ f.at # "asked")
  PROVE  Openers'
<1>1. stack \in Seq(Frames)
  BY TheRest
<1>2. /\ Len(stack) \in Nat /\ DOMAIN stack' = 1 .. Len(stack) + 1
      /\ stack'[Len(stack) + 1] = Marked(f, stack # <<>>)
      /\ \A i \in 1 .. Len(stack) : stack'[i] = stack[i]
  BY <1>1, BeginsTo
<1>3. opens' = opens
  BY DEF Begin, database
<1>4. Mild
  BY <1>3, MildSame DEF Openers
<1>5. Marked(f, stack # <<>>).op = f.op /\ Marked(f, stack # <<>>).at = f.at
  BY MarkedIs DEF Frames
<1>6. CASE f.op # "open"
  <2>1. ASSUME NEW i \in DOMAIN stack', stack'[i].op = "open"
        PROVE  i \in DOMAIN stack /\ stack'[i] = stack[i]
    <3>1. i # Len(stack) + 1
      BY <1>2, <1>5, <1>6, <2>1
    <3>2. i \in 1 .. Len(stack) /\ i \in DOMAIN stack
      BY <1>1, <1>2, <3>1
    <3> QED
      BY <1>2, <3>2
  <2> QED
    BY <1>4, <2>1, AloneKept
<1>7. CASE stack = <<>> /\ f.at # "asked"
  <2>1. ASSUME NEW i \in DOMAIN stack'
        PROVE  i = 1 /\ stack'[i].at # "asked"
    BY <1>2, <1>5, <1>7
  <2> QED
    BY <1>4, <2>1 DEF Openers, Alone, Mild
<1> QED
  BY <1>6, <1>7

LEMMA AloneBetween ==
  ASSUME Known, Openers, Mild, stack' = stack
  PROVE  Openers'
BY AloneKept

\* What the driver binding protocols and the walks do to the calls under way.
Plain ==
  \/ \E f : f.op # "open" /\ GoOn(f)
  \/ \E f, g : f.op # "open" /\ g.op # "open" /\ Invoke(f, g)
  \/ \E status \in Statuses : Return(status)

LEMMA AlonePlain ==
  ASSUME Known, Openers, Mild, stack # <<>>, Plain
  PROVE  Openers'
BY AloneGoes, AloneCalls, AloneReturns DEF Plain

\* A frame that goes on is one of the same operation.
LEMMA SameOp ==
  ASSUME NEW f \in FrameType
  PROVE  /\ \A at : [f EXCEPT !.at = at].op = f.op
         /\ \A at, drivers : [f EXCEPT !.at = at, !.drivers = drivers].op = f.op
         /\ \A at, drivers, kids, status, any :
              [f EXCEPT !.at = at, !.drivers = drivers, !.kids = kids, !.status = status,
                        !.any = any].op = f.op
         /\ \A at, kids : [f EXCEPT !.at = at, !.kids = kids].op = f.op
         /\ \A at, kids, any, status :
              [f EXCEPT !.at = at, !.kids = kids, !.any = any, !.status = status].op = f.op
         /\ \A at, index : [f EXCEPT !.at = at, !.index = index].op = f.op
         /\ \A drivers, index : [f EXCEPT !.drivers = drivers, !.index = index].op = f.op
         /\ \A index, status : [f EXCEPT !.index = index, !.status = status].op = f.op
         /\ \A at, status, index, kids :
              [f EXCEPT !.at = at, !.status = status, !.index = index, !.kids = kids].op = f.op
         /\ \A kids, status : [f EXCEPT !.kids = kids, !.status = status].op = f.op
         /\ \A at, child : [f EXCEPT !.at = at, !.child = child].op = f.op
BY DEF FrameType

LEMMA RemovalsOpen ==
  ASSUME Known, Openers, Removing,
         NotFound \/ FindDriver \/ Refuse \/ Refused \/ Reinstalled
           \/ (Unused /\ (Uninstalls \/ Reinstalls))
  PROVE  Openers'
<1>1. stack # <<>> /\ Top.op \in {"uninstall", "reinstall"}
  BY DEF Removing
<1>2. Top \in FrameType /\ Top.h \in Handles /\ Top.p \in Protocols /\ OpensTyped
  BY <1>1, TheTop DEF Formed
<1>3. Disconnect(Top.h, Those(opens[<<Top.h, Top.p>>], "driver")[1].agent, Null).op # "open"
      /\ WholeTree(Top.h).op # "open"
  BY <1>2, NewOps
<1>4. \A at : [Top EXCEPT !.at = at].op # "open"
  BY <1>1, <1>2, SameOp
<1>5. Singles
  BY DEF Openers
<1>6. CASE NotFound \/ FindDriver \/ Refused \/ Reinstalled
  <2>1. opens' = opens
    BY <1>6 DEF NotFound, FindDriver, Refused, Reinstalled, database
  <2>2. Plain
    BY <1>3, <1>4, <1>6, Results DEF Plain, NotFound, FindDriver, Refused, Reinstalled
  <2> QED
    BY <1>1, <1>5, <2>1, <2>2, MildSame, AlonePlain
<1>7. CASE Refuse
  <2>1. Plain
    BY <1>3, <1>4, <1>7 DEF Plain, Refuse
  <2>2. Mild
    <3>1. CASE opens' = opens
      BY <1>5, <3>1, MildSame
    <3>2. CASE opens' = [opens EXCEPT ![<<Top.h, Top.p>>] = Left]
      <4> DEFINE I == {i \in DOMAIN opens[<<Top.h, Top.p>>] : Strong(opens[<<Top.h, Top.p>>][i])}
      <4>1. I \subseteq DOMAIN opens[<<Top.h, Top.p>>]
        OBVIOUS
      <4>2. Left = Subsequence(opens[<<Top.h, Top.p>>], I)
        BY DEF Left
      <4> HIDE DEF I
      <4> QED
        BY <1>2, <1>5, <3>2, <4>1, <4>2, MildFewer
    <3> QED
      BY <1>7, <3>1, <3>2 DEF Refuse
  <2> QED
    BY <1>1, <2>1, <2>2, AlonePlain
<1>8. CASE Uninstalls \/ Reinstalls
  <2>1. Plain
    BY <1>3, <1>4, <1>8, Results DEF Plain, Uninstalls, Reinstalls
  <2>2. opens' = [opens EXCEPT ![<<Top.h, Top.p>>] = <<>>]
    BY <1>8 DEF Uninstalls, Reinstalls, RemoveInterface
  <2> QED
    BY <1>1, <1>2, <1>5, <2>1, <2>2, MildNone, AlonePlain
<1> QED
  BY <1>6, <1>7, <1>8

\* Who may open exclusively is the only one.
LEMMA OpensAlone ==
  ASSUME Known, Openers, MayOpen
  PROVE  \A o \in Range(opens[<<Top.h, Top.p>>]) : o.how # "exclusive"
<1>1. stack # <<>> /\ Top.op = "open"
  BY DEF MayOpen, At
<1>2. Top.h \in Handles /\ Top.p \in Protocols /\ OpensTyped /\ stack \in Seq(Frames)
  BY <1>1, TheTop DEF Formed
<1>3. CASE At("open", "open") /\ ~ Some(opens[<<Top.h, Top.p>>], "exclusive")
  <2> DEFINE s == opens[<<Top.h, Top.p>>]
  <2>1. s \in Seq(Openings(Top.h, Top.p)) /\ ~ Some(s, "exclusive")
    BY <1>2, <1>3 DEF OpensTyped
  <2> HIDE DEF s
  <2>2. \A o \in Range(s) : o.how # "exclusive"
    BY <2>1, ThoseAre
  <2> QED
    BY <2>2 DEF s
<1>4. CASE At("open", "asked")
  <2>1. Top = stack[Len(stack)] /\ Len(stack) \in DOMAIN stack
    BY <1>1, <1>2, TopFrame
  <2> QED
    BY <1>1, <1>4, <2>1 DEF Openers, Alone, At
<1> QED
  BY <1>3, <1>4 DEF MayOpen

LEMMA OpensOpen ==
  ASSUME Known, Openers, OpenDenied \/ OpenFindDriver \/ OpenSucceeds
  PROVE  Openers'
<1>1. stack # <<>> /\ Top.op = "open"
  BY DEF OpenDenied, OpenFindDriver, OpenSucceeds, MayOpen, At
<1>2. /\ Top \in FrameType /\ Top.h \in Handles /\ Top.p \in Protocols /\ OpensTyped
      /\ stack \in Seq(Frames) /\ Top.how = "exclusive" /\ Top.agent = "app"
  BY <1>1, TheTop DEF Formed
<1>3. Len(stack) = 1 /\ Top = stack[1] /\ 1 \in DOMAIN stack
  <2>1. Len(stack) \in Nat /\ Len(stack) > 0 /\ Top = stack[Len(stack)]
    BY <1>1, <1>2, TopFrame
  <2>2. Len(stack) \in DOMAIN stack
    BY <1>2, <2>1
  <2>3. Len(stack) = 1
    BY <1>1, <2>1, <2>2 DEF Openers, Alone
  <2> QED
    BY <2>1, <2>2, <2>3
<1>4. Singles
  BY DEF Openers
<1>5. CASE OpenDenied
  <2>1. opens' = opens /\ Return("error")
    BY <1>5 DEF OpenDenied, database
  <2> QED
    BY <1>1, <1>4, <2>1, Results, MildSame, AloneReturns
<1>6. MayOpen => \A o \in Range(opens[<<Top.h, Top.p>>]) : o.how # "exclusive"
  BY OpensAlone
<1>7. CASE OpenFindDriver
  <2> DEFINE f == [Top EXCEPT !.at = "asked"]
             g == Disconnect(Top.h, Those(opens[<<Top.h, Top.p>>], "driver")[1].agent, Null)
  <2>1. opens' = opens /\ Invoke(f, g) /\ MayOpen
    BY <1>7 DEF OpenFindDriver, database
  <2>2. f.op = "open" /\ f.h = Top.h /\ f.p = Top.p
    BY <1>1, <1>2 DEF FrameType
  <2>3. g.op # "open"
    BY <1>2, NewOps
  <2> HIDE DEF f, g
  <2>4. stack'[1] = f /\ stack'[2] = g /\ DOMAIN stack' = 1 .. 2
    <3>1. /\ stack'[Len(stack)] = f /\ stack'[Len(stack) + 1] = g
          /\ DOMAIN stack' = 1 .. Len(stack) + 1
      BY <1>1, <1>2, <2>1, CallsTo
    <3> QED
      BY <1>3, <3>1
  <2>5. Mild
    BY <1>4, <2>1, MildSame
  <2>6. ASSUME NEW i \in DOMAIN stack', stack'[i].op = "open"
        PROVE  i = 1 /\ stack'[i] = f
    <3>1. i = 1 \/ i = 2
      BY <2>4
    <3> QED
      BY <2>3, <2>4, <2>6, <3>1
  <2>7. \A o \in Range(opens'[<<f.h, f.p>>]) : o.how # "exclusive"
    BY <1>6, <2>1, <2>2
  <2> QED
    BY <2>5, <2>6, <2>7 DEF Openers, Alone, Mild
<1>8. CASE OpenSucceeds
  <2> DEFINE o == Open(Top.agent, Null, Top.how)
  <2>1. /\ opens' = [opens EXCEPT ![<<Top.h, Top.p>>] = Append(opens[<<Top.h, Top.p>>], o)]
        /\ Return("success") /\ MayOpen /\ ~ Some(opens[<<Top.h, Top.p>>], "driver")
    BY <1>8 DEF OpenSucceeds, NobodyManages
  <2>2. o \in Openings(Top.h, Top.p)
    BY <1>2, MayBeThere
  <2> HIDE DEF o
  <2> DEFINE s == opens[<<Top.h, Top.p>>]
  <2>3. s \in Seq(Openings(Top.h, Top.p)) /\ Single(s)
    BY <1>2, <1>4 DEF OpensTyped, Singles
  <2>4. \A x \in Range(s) : ~ Holds(x)
    <3>1. ~ Some(s, "driver") /\ \A x \in Range(s) : x.how # "exclusive"
      BY <1>6, <2>1
    <3> HIDE DEF s
    <3>2. \A x \in Range(s) : x.how # "driver"
      BY <2>3, <3>1, ThoseAre
    <3> QED
      BY <3>1, <3>2 DEF Holds
  <2>5. /\ opens'[<<Top.h, Top.p>>] = Append(s, o)
        /\ \A g \in Handles, q \in Protocols :
             g # Top.h \/ q # Top.p => opens'[<<g, q>>] = opens[<<g, q>>]
    BY <1>2, <2>1, <2>2, OneMore
  <2>6. Single(opens'[<<Top.h, Top.p>>])
    <3> HIDE DEF s, Holds
    <3> QED
      BY <2>2, <2>3, <2>4, <2>5, SingleMore
  <2>7. Singles'
    <3>1. ASSUME NEW g \in Handles, NEW q \in Protocols
          PROVE  Single(opens'[<<g, q>>])
      <4>1. CASE g = Top.h /\ q = Top.p
        BY <2>6, <4>1
      <4>2. CASE ~ (g = Top.h /\ q = Top.p)
        BY <1>4, <2>5, <4>2 DEF Singles
      <4> QED
        BY <4>1, <4>2
    <3> QED
      BY <3>1 DEF Singles
  <2>8. DOMAIN stack' = 1 .. 0
    <3>1. DOMAIN stack' = 1 .. Len(stack) - 1
      BY <1>1, <1>2, <2>1, Results, ReturnsTo
    <3> QED
      BY <1>3, <3>1
  <2>9. Alone'
    BY <2>8 DEF Alone
  <2> QED
    BY <2>7, <2>9 DEF Openers
<1> QED
  BY <1>5, <1>7, <1>8

LEMMA DisconnectsOpen ==
  ASSUME Known, Openers,
         CollectAgents \/ AllAsked \/ NoDriver \/ CollectChildren \/ StopChildren \/ StopDriver
           \/ DriverAsked
  PROVE  Openers'
<1>1. stack # <<>> /\ Top.op = "disconnect" /\ opens' = opens
  BY DEF CollectAgents, AllAsked, NoDriver, CollectChildren, StopChildren, StopDriver,
         DriverAsked, At, database
<1> SUFFICES Plain
  BY <1>1, MildSame, AlonePlain DEF Openers
<1>2. Top \in FrameType /\ Top.h \in Handles
  BY <1>1, TheTop
<1>3. \A d, kids : Stop(d, Top.h, kids).op # "open"
  BY <1>2, NewOps
<1>4. \A at : [Top EXCEPT !.at = at].op # "open"
  BY <1>1, <1>2, SameOp
<1>5. \A any : Skip(any) => Plain
  <2> SUFFICES ASSUME NEW any, Skip(any) PROVE Plain
    OBVIOUS
  <2> DEFINE f == [Top EXCEPT !.at = "next", !.drivers = Tail(@), !.kids = <<>>, !.status = "",
                              !.any = any]
  <2>1. f.op # "open"
    BY <1>1, <1>2 DEF FrameType
  <2> QED
    BY <2>1 DEF Skip, Plain
<1>6. CASE CollectAgents
  <2> DEFINE f == [Top EXCEPT !.at = "next", !.drivers = ManagersOf(Top.h)]
  <2>1. f.op # "open"
    BY <1>1, <1>2, SameOp
  <2>2. Return("success") \/ GoOn(f)
    BY <1>6 DEF CollectAgents
  <2> QED
    BY <2>1, <2>2, Results DEF Plain
<1>7. CASE CollectChildren
  <2> DEFINE children == Distinct(ChildrenOf(Top.h, {Agent}))
             at == IF children = <<>> THEN "release" ELSE "stop"
             f == [Top EXCEPT !.at = at, !.kids = children]
  <2>1. f.op # "open"
    <3> HIDE DEF children, at
    <3> QED
      BY <1>1, <1>2, SameOp
  <2>2. GoOn(f) \/ Skip(Top.any)
    BY <1>7 DEF CollectChildren
  <2> QED
    BY <1>5, <2>1, <2>2 DEF Plain
<1>8. CASE AllAsked \/ NoDriver
  BY <1>8, Results DEF AllAsked, NoDriver, Plain
<1>9. CASE StopChildren \/ StopDriver
  BY <1>3, <1>4, <1>9 DEF StopChildren, StopDriver, Plain
<1>10. CASE DriverAsked
  BY <1>5, <1>10 DEF DriverAsked
<1> QED
  BY <1>6, <1>7, <1>8, <1>9, <1>10

LEMMA ConnectsOpen ==
  ASSUME Known, Openers,
         CollectDrivers \/ CheckDrivers \/ TryDriver \/ Tried \/ Descend \/ Descended
  PROVE  Openers'
<1>1. stack # <<>> /\ Top.op = "connect" /\ opens' = opens
  BY DEF CollectDrivers, CheckDrivers, TryDriver, Tried, Descend, Descended, At, database
<1> SUFFICES Plain
  BY <1>1, MildSame, AlonePlain DEF Openers
<1>2. Top \in FrameType /\ Top.h \in Handles
  BY <1>1, TheTop
<1>3. CASE CollectDrivers
  <2>1. [Top EXCEPT !.at = "sorted", !.drivers = BoundDrivers].op # "open"
    BY <1>1, <1>2, SameOp
  <2> QED
    BY <1>3, <2>1 DEF CollectDrivers, Plain
<1>4. CASE CheckDrivers
  <2> DEFINE at == IF bindings \ Range(Top.drivers) # {} THEN "collect" ELSE "try"
  <2>1. GoOn([Top EXCEPT !.at = at, !.index = 1])
    BY <1>4 DEF CheckDrivers
  <2> HIDE DEF at
  <2>2. [Top EXCEPT !.at = at, !.index = 1].op # "open"
    BY <1>1, <1>2, SameOp
  <2> QED
    BY <2>1, <2>2 DEF Plain
<1>5. CASE TryDriver
  <2> DEFINE d == Top.drivers[Top.index]
             f == [Top EXCEPT !.drivers = RemoveAt(Top.drivers, Top.index), !.index = FromTheFirst]
             e == [Top EXCEPT !.index = Top.index + 1, !.status = ""]
  <2>1. Invoke(f, Start(d, Top.h)) \/ GoOn(e)
    BY <1>5 DEF TryDriver
  <2>2. f.op # "open" /\ e.op # "open"
    BY <1>1, <1>2, SameOp
  <2>3. Start(d, Top.h).op # "open"
    BY <1>2, NewOps
  <2> QED
    BY <2>1, <2>2, <2>3 DEF Plain
<1>6. CASE Tried
  <2> DEFINE kids == ChildrenOf(Top.h, Drivers)
             f == [Top EXCEPT !.at = "descend", !.status = "", !.index = 0, !.kids = kids]
  <2>1. Return("success") \/ GoOn(f)
    BY <1>6 DEF Tried
  <2> HIDE DEF kids
  <2>2. f.op # "open"
    BY <1>1, <1>2, SameOp
  <2> QED
    BY <2>1, <2>2, Results DEF Plain
<1>7. CASE Descend
  <2> DEFINE kids == Tail(Top.kids)
             k == Head(Top.kids)
             f == [Top EXCEPT !.kids = kids, !.status = ""]
  <2>1. Invoke(f, WholeTree(k)) \/ GoOn(f)
    BY <1>7 DEF Descend
  <2>2. k \in Handles
    BY <1>2, <1>7, FirstKid, Constants DEF Descend
  <2> HIDE DEF kids, k
  <2>3. f.op # "open" /\ WholeTree(k).op # "open"
    BY <1>1, <1>2, <2>2, SameOp, NewOps
  <2> QED
    BY <2>1, <2>3 DEF Plain
<1>8. CASE Descended
  BY <1>8, Results DEF Descended, Plain
<1> QED
  BY <1>3, <1>4, <1>5, <1>6, <1>7, <1>8

LEMMA StartsOpen ==
  ASSUME Known, Openers,
         \/ StartFails \/ BusStarts \/ (\E k \in Kids : BusMakesKid(k)) \/ BusOpensForKid
         \/ BusStarted \/ DiskStarts \/ DiskMakesVolume \/ DiskGivesUp \/ FsStarts
  PROVE  Openers'
<1>1. stack # <<>> /\ Top.op = "start"
  BY DEF StartFails, BusStarts, BusMakesKid, BusOpensForKid, BusStarted, DiskStarts,
         DiskMakesVolume, DiskGivesUp, FsStarts, OpenByDriver, Starting, At
<1>2. Top \in FrameType /\ Top.h \in Handles /\ Tables /\ OpensTyped /\ Singles /\ Formed(Top)
  BY <1>1, TheTop DEF Openers
<1>3. \A at : [Top EXCEPT !.at = at].op # "open"
  BY <1>1, <1>2, SameOp
<1>4. \A at, child : [Top EXCEPT !.at = at, !.child = child].op # "open"
  BY <1>1, <1>2, SameOp
<1>5. Plain
  BY <1>3, <1>4, Results
     DEF StartFails, BusStarts, BusMakesKid, BusOpensForKid, BusStarted, DiskStarts,
         DiskMakesVolume, DiskGivesUp, FsStarts, Plain
<1>6. ASSUME NEW d \in Drivers, OpenByDriver(d)
      PROVE  Mild
  <2>1. opens' = [opens EXCEPT ![<<Top.h, Uses[d]>>] = Opened(Top.h, Uses[d], Manager(d, Top.h))]
    BY <1>6 DEF OpenByDriver
  <2>2. Uses[d] \in Protocols /\ Manager(d, Top.h) \in Openings(Top.h, Uses[d])
        /\ Manager(d, Top.h).how = "driver"
    BY <1>2, MayBeThere DEF Manager, Open
  <2> QED
    BY <1>2, <2>1, <2>2, MildOnce
<1>7. Mild
  <2>1. CASE StartFails \/ BusStarted
    <3>1. opens' = opens
      BY <2>1 DEF StartFails, BusStarted, database
    <3> QED
      BY <1>2, <3>1, MildSame
  <2>2. CASE BusStarts \/ DiskStarts \/ FsStarts
    <3>1. \E d \in Drivers : OpenByDriver(d)
      BY <2>2, Constants DEF BusStarts, DiskStarts, FsStarts
    <3> QED
      BY <1>6, <3>1
  <2>3. CASE DiskMakesVolume \/ \E k \in Kids : BusMakesKid(k)
    <3>1. \E k \in Handles, p \in Protocols : opens' = [opens EXCEPT ![<<k, p>>] = <<>>]
      <4>1. "block" \in Protocols /\ "volume" \in Protocols
        BY DEF Protocols
      <4>2. DiskMakesVolume => opens' = [opens EXCEPT ![<<Top.h, "volume">>] = <<>>]
        BY Constants DEF DiskMakesVolume, Install
      <4>3. \A k \in Kids : BusMakesKid(k) => opens' = [opens EXCEPT ![<<k, "block">>] = <<>>]
        BY Constants DEF BusMakesKid, Install
      <4>4. Kids \subseteq Handles
        BY Constants
      <4> QED
        BY <1>2, <2>3, <4>1, <4>2, <4>3, <4>4
    <3> QED
      BY <1>2, <3>1, MildNone
  <2>4. CASE BusOpensForKid
    <3>1. opens' =
           [opens EXCEPT ![<<Top.h, "io">>] = Append(opens[<<Top.h, "io">>], Child(Top.child))]
      BY <2>4 DEF BusOpensForKid
    <3>2. Top.child \in Kids
      BY <1>2, <2>4 DEF Formed, BusOpensForKid, Starting, At
    <3>3. "io" \in Protocols /\ Child(Top.child) \in Openings(Top.h, "io")
      BY <1>2, <3>2, MayBeThere
    <3>4. Child(Top.child).how = "child" /\ ~ Holds(Child(Top.child))
      BY DEF Child, Open, Holds
    <3> QED
      BY <1>2, <3>1, <3>3, <3>4, MildMore
  <2>5. CASE DiskGivesUp
    <3>1. Close(Top.h, "block", "disk", Top.h) /\ "block" \in Protocols
      BY <2>5, Constants DEF DiskGivesUp, Protocols
    <3> QED
      BY <1>2, <3>1, MildClosed
  <2> QED
    BY <2>1, <2>2, <2>3, <2>4, <2>5
<1> QED
  BY <1>1, <1>5, <1>7, AlonePlain

LEMMA StopsOpen ==
  ASSUME Known, Openers,
         \/ StopRefuses \/ BusStopsKid \/ BusStoppedKid \/ BusStops \/ DiskStops
         \/ DiskStopped \/ FsStops
  PROVE  Openers'
<1>1. stack # <<>> /\ Top.op = "stop"
  BY DEF StopRefuses, BusStopsKid, BusStoppedKid, BusStops, DiskStops, DiskStopped, FsStops,
         Stopping, At
<1>2. Top \in FrameType /\ Top.h \in Handles /\ OpensTyped /\ Singles /\ Formed(Top)
  BY <1>1, TheTop DEF Openers
<1>3. \A at : [Top EXCEPT !.at = at].op # "open"
  BY <1>1, <1>2, SameOp
<1>4. "io" \in Protocols /\ "block" \in Protocols /\ "volume" \in Protocols
  BY DEF Protocols
<1>5. Plain
  <2>1. CASE StopRefuses \/ BusStops \/ FsStops
    BY <2>1, Results DEF StopRefuses, BusStops, FsStops, Plain
  <2>2. CASE DiskStopped
    <3>1. Top.status \in Statuses
      BY <1>2 DEF FrameType, Statuses
    <3> QED
      BY <2>2, <3>1 DEF DiskStopped, Plain
  <2>3. CASE DiskStops
    <3>1. Uninstall(Top.h, Makes["disk"]).op # "open"
      BY <1>2, NewOps
    <3> QED
      BY <1>3, <2>3, <3>1 DEF DiskStops, Plain
  <2>4. CASE BusStopsKid
    <3> DEFINE k == Head(Top.kids)
    <3>1. k \in Handles
      BY <1>2, <2>4, FirstKid, Constants DEF BusStopsKid
    <3>2. Invoke([Top EXCEPT !.at = "asked"], Uninstall(k, Makes["bus"]))
      BY <2>4 DEF BusStopsKid
    <3> HIDE DEF k
    <3>3. Uninstall(k, Makes["bus"]).op # "open"
      BY <3>1, NewOps
    <3> QED
      BY <1>3, <3>2, <3>3 DEF Plain
  <2>5. CASE BusStoppedKid
    <3> DEFINE failed == Top.any \/ Top.status = "error"
               kids == Tail(Top.kids)
               f == [Top EXCEPT !.at = "stop", !.kids = kids, !.any = failed, !.status = ""]
    <3>1. Return(IF failed THEN "error" ELSE "success") \/ GoOn(f)
      BY <2>5 DEF BusStoppedKid
    <3> HIDE DEF failed, kids
    <3>2. f.op # "open"
      BY <1>1, <1>2, SameOp
    <3>3. (IF failed THEN "error" ELSE "success") \in Statuses
      BY Results
    <3> QED
      BY <3>1, <3>2, <3>3 DEF Plain
  <2> QED
    BY <2>1, <2>2, <2>3, <2>4, <2>5
<1>6. Mild
  <2>1. CASE opens' = opens
    BY <1>2, <2>1, MildSame
  <2>2. CASE BusStopsKid \/ BusStops \/ FsStops \/ (DiskStopped /\ opens' # opens)
    <3>1. \E p \in Protocols : \E agent, controller : Close(Top.h, p, agent, controller)
      BY <1>4, <2>2 DEF BusStopsKid, BusStops, FsStops, DiskStopped
    <3> QED
      BY <1>2, <3>1, MildClosed
  <2>3. CASE BusStoppedKid /\ opens' # opens
    <3> DEFINE k == Head(Top.kids)
    <3>1. opens' = [opens EXCEPT ![<<Top.h, "io">>] = Append(opens[<<Top.h, "io">>], Child(k))]
      BY <2>3 DEF BusStoppedKid
    <3>2. k \in Kids
      BY <1>1, <1>2, <2>3, FirstKid DEF BusStoppedKid, Stopping, At, Formed
    <3> HIDE DEF k
    <3>3. Child(k) \in Openings(Top.h, "io")
      BY <1>2, <3>2, MayBeThere
    <3>4. Child(k).how = "child" /\ ~ Holds(Child(k))
      BY DEF Child, Open, Holds
    <3> QED
      BY <1>2, <1>4, <3>1, <3>3, <3>4, MildMore
  <2>4. CASE StopRefuses \/ DiskStops
    <3>1. opens' = opens
      BY <2>4 DEF StopRefuses, DiskStops, database
    <3> QED
      BY <2>1, <3>1
  <2> QED
    BY <2>1, <2>2, <2>3, <2>4
<1> QED
  BY <1>1, <1>5, <1>6, AlonePlain

LEMMA CallsOpen ==
  ASSUME Known, Openers, CallSomething, "exclusive" \notin scenario.callbacks
  PROVE  Openers'
<1>1. Singles /\ OpensTyped
  BY TheRest DEF Openers
<1>2. ASSUME NEW h \in Handles, NEW recursive \in BOOLEAN, CallConnect(h, recursive)
      PROVE  Openers'
  <2>1. Connect(h, recursive) \in Frames /\ Connect(h, recursive).op # "open"
    BY NewFrames, NewOps
  <2> QED
    BY <1>2, <2>1, AloneBegins DEF CallConnect
<1>3. ASSUME NEW h \in Handles, NEW agent \in Drivers \cup {""}, NEW child \in Kids \cup {Null},
             CallDisconnect(h, agent, child)
      PROVE  Openers'
  <2>1. Disconnect(h, agent, child) \in Frames /\ Disconnect(h, agent, child).op # "open"
    BY NewFrames, NewOps
  <2> QED
    BY <1>3, <2>1, AloneBegins DEF CallDisconnect
<1>4. CASE CallUninstall
  <2>1. Uninstall(Root, "io") \in Frames /\ Uninstall(Root, "io").op # "open"
    BY NewFrames, NewOps, Constants DEF Protocols
  <2> QED
    BY <1>4, <2>1, AloneBegins DEF CallUninstall
<1>5. ASSUME NEW h \in Handles, NEW p \in Protocols, CallReinstall(h, p)
      PROVE  Openers'
  <2>1. Reinstall(h, p) \in Frames /\ Reinstall(h, p).op # "open"
    BY NewFrames, NewOps
  <2> QED
    BY <1>5, <2>1, AloneBegins DEF CallReinstall
<1>6. ASSUME NEW h \in Handles, NEW p \in Protocols, CallExclusive(h, p)
      PROVE  Openers'
  <2>1. Exclusive(h, p) \in Frames /\ Exclusive(h, p).at # "asked"
    BY NewFrames, NewOps
  <2>2. stack = <<>> /\ Begin("exclusive", Exclusive(h, p))
    BY <1>6 DEF CallExclusive, Begin, MayCall
  <2> QED
    BY <2>1, <2>2, AloneBegins
<1>7. CASE CallInstall
  <2>1. opens' = [opens EXCEPT ![<<Root, "io">>] = <<>>] /\ stack' = stack
    BY <1>7 DEF CallInstall, Install
  <2>2. Root \in Handles /\ "io" \in Protocols
    BY Constants DEF Protocols
  <2> QED
    BY <1>1, <2>1, <2>2, MildNone, AloneBetween
<1>8. ASSUME NEW h \in Handles, NEW p \in Protocols, CallGet(h, p)
      PROVE  Openers'
  <2>1. opens' = [opens EXCEPT ![<<h, p>>] = Opened(h, p, Open("core", Null, "get"))]
        /\ stack' = stack
    BY <1>8 DEF CallGet
  <2>2. Open("core", Null, "get") \in Openings(h, p) /\ Open("core", Null, "get").how = "get"
    BY MayBeThere DEF Open
  <2>3. Mild
    BY <1>1, <2>1, <2>2, MildOnce
  <2> QED
    BY <2>1, <2>3, AloneBetween
<1>9. ASSUME NEW h \in Handles, NEW p \in Protocols, CallClose(h, p)
      PROVE  Openers'
  <2>1. Close(h, p, "app", Null) /\ stack' = stack
    BY <1>9 DEF CallClose
  <2> QED
    BY <1>1, <2>1, MildClosed, AloneBetween
<1>10. CASE CallLocate \/ \E d \in Drivers : CallLoad(d)
  <2>1. opens' = opens /\ stack' = stack
    BY <1>10 DEF CallLocate, CallLoad, database
  <2> QED
    BY <1>1, <2>1, MildSame, AloneBetween
<1> QED
  BY <1>2, <1>3, <1>4, <1>5, <1>6, <1>7, <1>8, <1>9, <1>10 DEF CallSomething

\* The notification function opens nothing exclusively.
NoneExclusive == \A s \in Scenarios : "exclusive" \notin s.callbacks

LEMMA OpenersStay ==
  ASSUME NoneExclusive, Known, Openers, [Next]_vars
  PROVE  Openers'
<1>1. "exclusive" \notin scenario.callbacks
  BY DEF NoneExclusive, Known, Typed
<1>2. CASE CallSomething
  BY <1>1, <1>2, CallsOpen
<1>3. CASE Step
  <2>1. CASE NotFound \/ FindDriver \/ Refuse \/ Refused \/ Reinstalled
             \/ (Unused /\ (Uninstalls \/ Reinstalls))
    <3>1. Removing
      BY <2>1 DEF NotFound, FindDriver, Refuse, Refused, Reinstalled, Unused, Walks, Removing, At
    <3> QED
      BY <2>1, <3>1, RemovalsOpen
  <2> QED
    BY <1>3, <2>1, OpensOpen, DisconnectsOpen, ConnectsOpen, StartsOpen, StopsOpen DEF Step
<1>4. CASE UNCHANGED vars
  <2>1. opens' = opens /\ stack' = stack
    BY <1>4 DEF vars, database
  <2> QED
    BY <2>1, MildSame, AloneBetween DEF Openers
<1> QED
  BY <1>2, <1>3, <1>4 DEF Next

LEMMA InitOpeners ==
  ASSUME Init PROVE Openers
<1>1. \A h \in Handles, p \in Protocols : opens[<<h, p>>] = <<>>
  BY DEF Init
<1>2. stack = <<>>
  BY DEF Init
<1> QED
  BY <1>1, <1>2 DEF Openers, Singles, Single, Alone

\* No interface is managed by two drivers, or opened exclusively by two agents
\* or by one while another manages it (CoreOpenProtocol), provided that no
\* notification function opens anything exclusively.
THEOREM Managers == NoneExclusive => (Spec => []OneManager)
<1> SUFFICES ASSUME NoneExclusive PROVE Spec => []OneManager
  OBVIOUS
<1>1. Init => Openers
  BY InitOpeners
<1>2. Known /\ Openers /\ [Next]_vars => Openers'
  BY OpenersStay
<1>3. Known /\ Openers => OneManager
  <2> SUFFICES ASSUME Known, Openers, NEW h \in Handles, NEW p \in Protocols
               PROVE  Len(Those(opens[<<h, p>>], "driver"))
                        + Len(Those(opens[<<h, p>>], "exclusive")) <= 1
    BY DEF OneManager
  <2> DEFINE s == opens[<<h, p>>]
  <2>1. s \in Seq(Openings(h, p)) /\ Single(s)
    BY TheRest DEF OpensTyped, Openers, Singles
  <2> HIDE DEF s
  <2>2. Len(Those(s, "driver")) + Len(Those(s, "exclusive")) <= 1
    BY <2>1, SingleIs
  <2> QED
    BY <2>2 DEF s
<1> QED
  BY <1>1, <1>2, <1>3, KnownAlways, PTL DEF Spec

-----------------------------------------------------------------------------
(*************************** Parents and children **************************)

\* The bus driver's or the disk driver's, and the bus driver's children.
Managed(d, h) == Manager(d, h) \in Range(opens[<<h, Uses[d]>>])
Children == {k \in Kids : Child(k) \in Range(opens[<<Root, "io">>])}

\* Lists have no repetitions; there are opens of what is installed only.
Lists ==
  /\ \A h \in Handles : IsInjective(protocols[h]) /\ (Installed(h, "io") => h = Root)
  /\ \A h \in Handles, p \in Protocols :
       IsInjective(opens[<<h, p>>]) /\ (~ Installed(h, p) => opens[<<h, p>>] = <<>>)

\* Volumes and children are there while their driver manages the controller.
Parents ==
  /\ \A h \in Handles : Installed(h, "volume") => Managed("disk", h)
  /\ \A k \in Children : Managed("bus", Root) /\ Valid(k)

\* How far a call has come, and what it has collected.
Modest(f) ==
  /\ f.h # Root => f.kids = <<>>
  /\ f.op \in {"disconnect", "stop"} => IsInjective(f.kids)
  /\ f.op = "start" =>
       /\ f.at \in {"start", "enumerate", "child", "make"}
       /\ f.at \in {"enumerate", "child"} => f.agent = "bus"
       /\ f.at = "make" => f.agent = "disk"
  /\ f.op = "stop" =>
       /\ \/ f.at = "stop" /\ f.status = ""
          \/ f.at = "asked" /\ f.agent # "fs"
       /\ f.agent = "bus" => f.h = Root
       /\ f.kids = <<>> => ~ f.any
  /\ f.op = "disconnect" =>
       /\ \/ f.at \in {"agents", "next", "release", "stop"} /\ f.status = ""
          \/ f.at \in {"stopped", "released"}
       /\ f.at \in {"stop", "stopped"} =>
            Head(f.drivers) = "bus" /\ f.kids # <<>> /\ f.child \in Range(f.kids) \cup {Null}

StopsBus(f) == f.op = "stop" /\ f.agent = "bus"

\* The first call is the program's, the last one is not waiting.
Bottom(f) == f.op # "stop" /\ (f.op = "uninstall" => f.h = Root /\ f.p = "io")
Ready(f) ==
  /\ f.op = "stop" /\ f.at = "asked" => f.status # ""
  /\ f.op = "disconnect" /\ f.at = "stopped" => f.status # ""

\* f has made the call g, or g has interrupted f.
Upon(f, g) ==
  /\ f.op # "start" /\ g.op \notin {"reinstall", "open"}
  /\ g.op = "uninstall" =>
       /\ f.op = "stop"
       /\ \/ f.agent = "bus" /\ g.p = "block" /\ g.h = Head(f.kids)
          \/ f.agent = "disk" /\ g.p = "volume" /\ g.h = f.h
  /\ g.op = "stop" =>
       /\ f.op = "disconnect" /\ f.h = g.h /\ Head(f.drivers) = g.agent
       /\ \/ f.at = "released" /\ g.kids = <<>>
          \/ f.at = "stopped" /\ g.kids # <<>>
  /\ f.op = "stop" =>
       f.at = "asked" /\ f.status = "" /\ g.op = "uninstall" /\ ~ g.callback
  /\ f.op = "disconnect" =>
       /\ (f.at = "stopped" /\ f.status = "") \/ f.at = "released"
       /\ g.op = "stop" /\ ~ g.callback

\* While the bus driver stops a child all the calls are about that.
Laid(s) ==
  /\ \A i \in DOMAIN s : Modest(s[i])
  /\ \A i \in 1 .. Len(s) - 1 : Upon(s[i], s[i + 1])
  /\ s # <<>> => Bottom(s[1]) /\ Ready(s[Len(s)])
  /\ \A i, j \in DOMAIN s : i < j /\ StopsBus(s[i]) => s[j].h = Head(s[i].kids)

\* The children that are still to be stopped, and whether the driver is then.
Rest(f) == IF f.at = "stop" THEN f.kids ELSE Tail(f.kids)
Full(f) == f.at = "released" \/ f.child = Null \/ Len(f.kids) = 1

\* The bus driver has the children it is still to stop, and if it is to stop
\* on the controller, no others.
Under(f, g) ==
  StopsBus(g) =>
    /\ Managed("bus", Root)
    /\ Range(Rest(g)) \subseteq Children
    /\ ~ g.any /\ Full(f) => Children \subseteq Range(Rest(g))
    /\ g.at = "asked" => Head(g.kids) \notin Children
    /\ g.at = "asked" /\ g.status # "success" => Installed(Head(g.kids), "block")

Unders ==
  \A i \in 1 .. Len(stack) - 1 : \A f, g : f = stack[i] /\ g = stack[i + 1] => Under(f, g)

\* What the last call may rely on.
Above(f) ==
  /\ f.op = "start" /\ f.at = "start" /\ f.agent = "disk" => ~ Installed(f.h, "volume")
  /\ f.op = "start" /\ f.at \in {"enumerate", "child"} => Managed("bus", f.h)
  /\ f.op = "start" /\ f.at = "child" => Valid(f.child) /\ f.child \notin Children
  /\ f.op = "start" /\ f.at = "make" => Managed("disk", f.h) /\ ~ Installed(f.h, "volume")
  /\ f.op = "disconnect" /\ f.at \in {"release", "stop", "stopped"} /\ Head(f.drivers) = "bus" =>
       /\ Managed("bus", f.h)
       /\ f.at = "release" => Children = {}
       /\ f.at = "stop" => Children = Range(f.kids)
       /\ f.at = "stopped" /\ f.status = "success" /\ Full(f) => Children = {}
  /\ f.op = "stop" /\ f.agent = "disk" /\ f.at = "asked" /\ f.status = "success" =>
       ~ Installed(f.h, "volume")

TopHeld == stack # <<>> => \A f : f = Top => Above(f)

Ordered == Lists /\ Parents /\ Laid(stack) /\ Unders /\ TopHeld

-----------------------------------------------------------------------------
(*************** What a step does to the layout of the calls ***************)

\* The new frame stands where the last one stood.
Replaces(f) ==
  /\ \A e : Upon(e, Top) => Upon(e, f)
  /\ Bottom(Top) => Bottom(f)
  /\ f.h = Top.h

LEMMA SamePlace ==
  ASSUME NEW f, f.op = Top.op, f.h = Top.h, f.p = Top.p, f.agent = Top.agent,
         f.callback = Top.callback, f.op = "stop" => (f.kids = <<>> <=> Top.kids = <<>>)
  PROVE  Replaces(f)
BY DEF Replaces, Upon, Bottom

\* The device the bus driver is stopping.
LEMMA AboveBus ==
  ASSUME stack \in Seq(Frames), Laid(stack), NEW i \in DOMAIN stack, NEW j \in DOMAIN stack,
         i < j, StopsBus(stack[i])
  PROVE  /\ stack[i].kids # <<>> /\ Head(stack[i].kids) \in Kids
         /\ stack[j].h = Head(stack[i].kids) /\ stack[j].h # Root
         /\ ~ StopsBus(stack[j])
<1>1. stack[i] \in Frames /\ i \in 1 .. Len(stack) - 1
  OBVIOUS
<1>2. stack[i].at = "asked"
  BY <1>1 DEF Laid, Upon, StopsBus
<1>3. stack[i].kids # <<>> /\ stack[i] \in FrameType
  BY <1>1, <1>2 DEF Frames, Formed, StopsBus
<1>4. Head(stack[i].kids) \in Kids
  BY <1>3, FirstKid
<1>5. stack[j].h = Head(stack[i].kids)
  BY DEF Laid
<1>6. stack[j].h # Root
  BY <1>4, <1>5, Constants
<1>7. StopsBus(stack[j]) => stack[j].h = Root
  BY DEF Laid, Modest, StopsBus
<1> QED
  BY <1>3, <1>4, <1>5, <1>6, <1>7

LEMMA LaidGoes ==
  ASSUME stack \in Seq(Frames), Laid(stack), stack # <<>>, NEW f, GoOn(f), Replaces(f),
         Modest(f), Ready(f)
  PROVE  Laid(stack')
<1> DEFINE n == Len(stack)
<1>1. /\ n \in Nat /\ n > 0 /\ Len(stack') = n /\ stack'[n] = f /\ DOMAIN stack' = 1 .. n
      /\ \A i \in 1 .. n - 1 : stack'[i] = stack[i]
  BY GoesTo
<1>2. Top = stack[n] /\ DOMAIN stack = 1 .. n
  BY TopFrame
<1>3. ASSUME NEW s, s = stack'
      PROVE  Laid(s)
  <2>1. \A i \in DOMAIN s : Modest(s[i])
    BY <1>1, <1>2, <1>3 DEF Laid
  <2>2. ASSUME NEW i \in 1 .. Len(s) - 1
        PROVE  Upon(s[i], s[i + 1])
    <3>1. Upon(stack[i], stack[i + 1]) /\ s[i] = stack[i]
      BY <1>1, <1>3, <2>2 DEF Laid
    <3>2. CASE i = n - 1
      <4>1. stack[i + 1] = Top /\ s[i + 1] = f
        BY <1>1, <1>2, <1>3, <3>2
      <4> QED
        BY <3>1, <4>1 DEF Replaces
    <3>3. CASE i # n - 1
      <4>1. i + 1 \in 1 .. n - 1
        <5>1. i \in 1 .. n - 1 /\ n \in Nat
          BY <1>1, <1>3, <2>2
        <5> HIDE DEF n
        <5> QED
          BY <3>3, <5>1
      <4>2. s[i + 1] = stack[i + 1]
        BY <1>1, <1>3, <4>1
      <4> QED
        BY <3>1, <4>2
    <3> QED
      BY <3>2, <3>3
  <2>3. Bottom(s[1]) /\ Ready(s[Len(s)])
    <3>1. Bottom(stack[1]) /\ s[Len(s)] = f
      BY <1>1, <1>3 DEF Laid
    <3>2. s[1] = stack[1] \/ (stack[1] = Top /\ s[1] = f)
      BY <1>1, <1>2, <1>3
    <3> QED
      BY <3>1, <3>2 DEF Replaces
  <2>4. ASSUME NEW i \in DOMAIN s, NEW j \in DOMAIN s, i < j, StopsBus(s[i])
        PROVE  s[j].h = Head(s[i].kids)
    <3>1. i \in DOMAIN stack /\ j \in DOMAIN stack /\ s[i] = stack[i]
      BY <1>1, <1>2, <1>3, <2>4
    <3>2. s[j].h = stack[j].h
      BY <1>1, <1>2, <1>3, <3>1 DEF Replaces
    <3> QED
      BY <2>4, <3>1, <3>2 DEF Laid
  <2> QED
    BY <2>1, <2>2, <2>3, <2>4 DEF Laid
<1> QED
  BY <1>3

LEMMA LaidCalls ==
  ASSUME stack \in Seq(Frames), Laid(stack), stack # <<>>, NEW f, NEW g, Invoke(f, g),
         Replaces(f), Modest(f), Modest(g), Ready(g), Upon(f, g),
         StopsBus(f) => g.h = Head(f.kids), g.h = Top.h \/ Top.h = Root
  PROVE  Laid(stack')
<1> DEFINE n == Len(stack)
<1>1. /\ n \in Nat /\ n > 0 /\ Len(stack') = n + 1 /\ stack'[n] = f /\ stack'[n + 1] = g
      /\ DOMAIN stack' = 1 .. n + 1
      /\ \A i \in 1 .. n - 1 : stack'[i] = stack[i]
  BY CallsTo
<1>2. Top = stack[n] /\ DOMAIN stack = 1 .. n
  BY TopFrame
<1>3. ASSUME NEW s, s = stack'
      PROVE  Laid(s)
  <2>1. \A i \in DOMAIN s : Modest(s[i])
    BY <1>1, <1>2, <1>3 DEF Laid
  <2>2. ASSUME NEW i \in 1 .. Len(s) - 1
        PROVE  Upon(s[i], s[i + 1])
    <3>1. CASE i = n
      BY <1>1, <1>3, <3>1
    <3>2. CASE i = n - 1
      <4>1. stack[i + 1] = Top /\ s[i + 1] = f /\ s[i] = stack[i] /\ Upon(stack[i], stack[i + 1])
        BY <1>1, <1>2, <1>3, <2>2, <3>2 DEF Laid
      <4> QED
        BY <4>1 DEF Replaces
    <3>3. CASE i # n - 1 /\ i # n
      <4>1. s[i + 1] = stack[i + 1] /\ s[i] = stack[i] /\ Upon(stack[i], stack[i + 1])
        BY <1>1, <1>3, <2>2, <3>3 DEF Laid
      <4> QED
        BY <4>1
    <3> QED
      BY <3>1, <3>2, <3>3
  <2>3. Bottom(s[1]) /\ Ready(s[Len(s)])
    <3>1. Bottom(stack[1]) /\ s[Len(s)] = g
      BY <1>1, <1>3 DEF Laid
    <3>2. s[1] = stack[1] \/ (stack[1] = Top /\ s[1] = f)
      BY <1>1, <1>2, <1>3
    <3> QED
      BY <3>1, <3>2 DEF Replaces
  <2>4. ASSUME NEW i \in DOMAIN s, NEW j \in DOMAIN s, i < j, StopsBus(s[i])
        PROVE  s[j].h = Head(s[i].kids)
    <3>1. CASE i = n
      <4>1. j = n + 1 /\ s[j] = g /\ s[i] = f
        BY <1>1, <1>3, <2>4, <3>1
      <4> QED
        BY <2>4, <4>1
    <3>2. CASE i # n
      <4>1. i \in DOMAIN stack /\ i < n /\ n \in DOMAIN stack /\ s[i] = stack[i]
        BY <1>1, <1>2, <1>3, <2>4, <3>2
      <4>2. Top.h = Head(s[i].kids) /\ Top.h # Root
        BY <1>2, <2>4, <4>1, AboveBus
      <4>3. CASE j < n
        <5>1. j \in DOMAIN stack /\ s[j] = stack[j]
          BY <1>1, <1>2, <1>3, <2>4, <4>3
        <5> QED
          BY <2>4, <4>1, <5>1 DEF Laid
      <4>4. CASE j = n \/ j = n + 1
        <5>1. s[j] = f \/ s[j] = g
          BY <1>1, <1>3, <4>4
        <5> QED
          BY <4>2, <5>1 DEF Replaces
      <4> QED
        BY <1>1, <1>3, <2>4, <4>3, <4>4
    <3> QED
      BY <3>1, <3>2
  <2> QED
    BY <2>1, <2>2, <2>3, <2>4 DEF Laid
<1> QED
  BY <1>3

LEMMA LaidReturns ==
  ASSUME stack \in Seq(Frames), Laid(stack), stack # <<>>, NEW status \in {"success", "error"},
         Return(status)
  PROVE  Laid(stack')
<1> DEFINE n == Len(stack)
<1>1. /\ n \in Nat /\ n > 0 /\ Len(stack') = n - 1 /\ DOMAIN stack' = 1 .. n - 1
      /\ \A i \in 1 .. n - 2 : stack'[i] = stack[i]
      /\ n > 1 => stack'[n - 1] = IF Top.callback THEN stack[n - 1]
                                  ELSE Told(stack[n - 1], status)
  <2>1. status \in Statuses
    BY DEF Statuses
  <2> QED
    BY <2>1, ReturnsTo
<1>2. Top = stack[n] /\ DOMAIN stack = 1 .. n
  BY TopFrame
<1>3. ASSUME n > 1
      PROVE  /\ Modest(stack'[n - 1]) /\ Ready(stack'[n - 1])
             /\ \A e : Upon(e, stack[n - 1]) => Upon(e, stack'[n - 1])
             /\ Bottom(stack[n - 1]) => Bottom(stack'[n - 1])
             /\ stack'[n - 1].h = stack[n - 1].h
             /\ StopsBus(stack'[n - 1]) => StopsBus(stack[n - 1])
             /\ stack'[n - 1].kids = stack[n - 1].kids
  <2>1. PICK t : t = stack[n - 1]
    OBVIOUS
  <2>2. t \in FrameType /\ Modest(t) /\ Upon(t, Top)
    <3>1. n - 1 \in DOMAIN stack /\ n - 1 \in 1 .. n - 1
      BY <1>1, <1>2, <1>3
    <3> QED
      BY <1>1, <1>2, <2>1, <3>1 DEF Laid, Frames
  <2>3. CASE Top.callback
    <3>1. stack'[n - 1] = t
      BY <1>1, <1>3, <2>1, <2>3
    <3>2. t.op \notin {"stop", "disconnect"}
      BY <2>2, <2>3 DEF Upon
    <3> QED
      BY <2>1, <2>2, <3>1, <3>2 DEF Ready
  <2>4. CASE ~ Top.callback
    <3>1. PICK u : u = Told(t, status)
      OBVIOUS
    <3>2. stack'[n - 1] = u
      BY <1>1, <1>3, <2>1, <2>4, <3>1
    <3>3. /\ u.op = t.op /\ u.at = t.at /\ u.h = t.h /\ u.p = t.p /\ u.agent = t.agent
          /\ u.child = t.child /\ u.drivers = t.drivers /\ u.kids = t.kids /\ u.any = t.any
          /\ u.callback = t.callback /\ u.status = status
      BY <2>2, <3>1, ToldIs
    <3>4. Modest(u)
      BY <2>2, <3>3 DEF Modest, Upon
    <3>5. Ready(u)
      BY <3>3 DEF Ready
    <3>6. \A e : Upon(e, t) => Upon(e, u)
      BY <3>3 DEF Upon
    <3>7. (Bottom(t) => Bottom(u)) /\ (StopsBus(u) => StopsBus(t))
      BY <3>3 DEF Bottom, StopsBus
    <3> QED
      BY <2>1, <3>2, <3>3, <3>4, <3>5, <3>6, <3>7
  <2> QED
    BY <2>3, <2>4
<1>4. ASSUME NEW s, s = stack'
      PROVE  Laid(s)
  <2>1. ASSUME NEW i \in DOMAIN s
        PROVE  /\ Modest(s[i]) /\ s[i].h = stack[i].h /\ s[i].kids = stack[i].kids
               /\ StopsBus(s[i]) => StopsBus(stack[i])
               /\ \A e : Upon(e, stack[i]) => Upon(e, s[i])
               /\ Bottom(stack[i]) => Bottom(s[i])
               /\ i \in DOMAIN stack
    <3>1. i \in 1 .. n - 1 /\ i \in DOMAIN stack /\ Modest(stack[i])
      BY <1>1, <1>2, <1>4, <2>1 DEF Laid
    <3>2. CASE i = n - 1
      <4>1. n > 1
        BY <1>1, <3>1
      <4> QED
        BY <1>3, <1>4, <3>1, <3>2, <4>1
    <3>3. CASE i # n - 1
      <4>1. i \in 1 .. n - 2
        BY <1>1, <3>1, <3>3
      <4>2. s[i] = stack[i]
        BY <1>1, <1>4, <4>1
      <4> QED
        BY <3>1, <4>2
    <3> QED
      BY <3>2, <3>3
  <2>2. ASSUME NEW i \in 1 .. Len(s) - 1
        PROVE  Upon(s[i], s[i + 1])
    <3>1. s[i] = stack[i] /\ Upon(stack[i], stack[i + 1]) /\ i + 1 \in DOMAIN s
      BY <1>1, <1>4, <2>2 DEF Laid
    <3> QED
      BY <2>1, <3>1
  <2>3. ASSUME s # <<>>
        PROVE  Bottom(s[1]) /\ Ready(s[Len(s)])
    <3>1. n > 1 /\ Len(s) = n - 1 /\ 1 \in DOMAIN s
      BY <1>1, <1>4, <2>3
    <3>2. Bottom(stack[1])
      BY DEF Laid
    <3> QED
      BY <1>3, <1>4, <2>1, <3>1, <3>2
  <2>4. ASSUME NEW i \in DOMAIN s, NEW j \in DOMAIN s, i < j, StopsBus(s[i])
        PROVE  s[j].h = Head(s[i].kids)
    BY <2>1, <2>4 DEF Laid
  <2> QED
    BY <2>1, <2>2, <2>3, <2>4 DEF Laid
<1> QED
  BY <1>4

\* A call is begun on top of calls that may be interrupted.
LEMMA LaidMore ==
  ASSUME NEW r \in Seq(Frames), Laid(r), NEW g, NEW s,
         Len(s) = Len(r) + 1, DOMAIN s = 1 .. Len(r) + 1, s[Len(r) + 1] = g,
         \A i \in 1 .. Len(r) : s[i] = r[i],
         Modest(g), Bottom(g), Ready(g),
         \A i \in DOMAIN r : r[i].op \notin {"start", "stop", "disconnect"} /\ g.op = "connect"
  PROVE  Laid(s)
<1> DEFINE n == Len(r)
<1>1. /\ n \in Nat /\ Len(s) = n + 1 /\ DOMAIN s = 1 .. n + 1 /\ s[n + 1] = g
      /\ DOMAIN r = 1 .. n /\ (n > 0 => r # <<>>)
      /\ \A i \in 1 .. n : s[i] = r[i]
  OBVIOUS
<1>2. /\ \A i \in 1 .. n : Modest(r[i])
      /\ \A i \in 1 .. n - 1 : Upon(r[i], r[i + 1])
      /\ r # <<>> => Bottom(r[1])
  BY <1>1 DEF Laid
<1> HIDE DEF n
<1>3. \A i \in 1 .. n + 1 : i \in 1 .. n \/ i = n + 1
  BY <1>1
<1>4. \A i \in DOMAIN s : Modest(s[i])
  BY <1>1, <1>2, <1>3
<1>5. ASSUME NEW i \in 1 .. Len(s) - 1
      PROVE  Upon(s[i], s[i + 1])
  <2>1. i \in 1 .. n /\ s[i] = r[i]
    BY <1>1, <1>5
  <2>2. CASE i = n
    <3>1. r[i].op \notin {"start", "stop", "disconnect"} /\ g.op = "connect"
      BY <1>1, <2>1
    <3> QED
      BY <1>1, <2>1, <2>2, <3>1 DEF Upon
  <2>3. CASE i # n
    <3>1. i \in 1 .. n - 1 /\ i + 1 \in 1 .. n
      BY <1>1, <2>1, <2>3
    <3> QED
      BY <1>1, <1>2, <2>1, <3>1
  <2> QED
    BY <2>2, <2>3
<1>6. Bottom(s[1]) /\ Ready(s[Len(s)])
  <2>1. CASE n = 0
    BY <1>1, <2>1
  <2>2. CASE n > 0
    <3>1. 1 \in 1 .. n
      BY <1>1, <2>2
    <3> QED
      BY <1>1, <1>2, <2>2, <3>1
  <2> QED
    BY <1>1, <2>1, <2>2
<1>7. ASSUME NEW i \in DOMAIN s, NEW j \in DOMAIN s, i < j, StopsBus(s[i])
      PROVE  FALSE
  <2>1. i \in 1 .. n /\ s[i] = r[i] /\ i \in DOMAIN r
    BY <1>1, <1>7
  <2> QED
    BY <1>7, <2>1 DEF StopsBus
<1> QED
  BY <1>4, <1>5, <1>6, <1>7 DEF Laid

\* The notification function interrupts no driver.
LEMMA Between ==
  ASSUME stack \in Seq(Frames), NEW op, NEW f, Begin(op, f), NEW i \in DOMAIN stack
  PROVE  stack # <<>> /\ stack[i].op \notin {"start", "stop"}
<1>1. stack # <<>>
  OBVIOUS
<1> QED
  BY <1>1 DEF Begin, MayCall, Interruptible

\* The program, or the notification function, makes a call.
LEMMA LaidBegins ==
  ASSUME stack \in Seq(Frames), Laid(stack), NEW op, NEW f \in FrameType, Begin(op, f),
         Modest(f), f.op \notin {"start", "stop"}, f.status = "", f.at # "stopped",
         f.op = "uninstall" => f.h = Root /\ f.p = "io",
         stack # <<>> => f.op = "connect" /\ \A i \in DOMAIN stack : stack[i].op # "disconnect"
  PROVE  Laid(stack')
<1> DEFINE b == stack # <<>>
           g == Marked(f, b)
<1>1. /\ Len(stack) \in Nat /\ Len(stack') = Len(stack) + 1 /\ DOMAIN stack' = 1 .. Len(stack) + 1
      /\ stack'[Len(stack) + 1] = g
      /\ \A i \in 1 .. Len(stack) : stack'[i] = stack[i]
  BY BeginsTo
<1> HIDE DEF b
<1>2. /\ g.op = f.op /\ g.at = f.at /\ g.h = f.h /\ g.p = f.p /\ g.agent = f.agent
      /\ g.child = f.child /\ g.drivers = f.drivers /\ g.kids = f.kids /\ g.any = f.any
      /\ g.status = f.status
  BY MarkedIs
<1> HIDE DEF g
<1>3. Modest(g) /\ Bottom(g) /\ Ready(g)
  BY <1>2 DEF Modest, Bottom, Ready
<1>4. ASSUME NEW i \in DOMAIN stack
      PROVE  stack[i].op \notin {"start", "stop", "disconnect"} /\ g.op = "connect"
  BY <1>2, <1>4, Between, Zenon
<1> DEFINE s == stack'
<1>5. /\ Len(s) = Len(stack) + 1 /\ DOMAIN s = 1 .. Len(stack) + 1
      /\ s[Len(stack) + 1] = g
      /\ \A i \in 1 .. Len(stack) : s[i] = stack[i]
  BY <1>1
<1> HIDE DEF s
<1>6. Laid(s)
  BY <1>3, <1>4, <1>5, LaidMore
<1> QED
  BY <1>6 DEF s

-----------------------------------------------------------------------------
(***************** What a step does to parents and children ****************)

\* The bus driver's children are not the business of a call for a device.
Keeps(h) ==
  h # Root =>
    /\ Managed("bus", Root) => Managed("bus", Root)'
    /\ Children' = Children

Stands(h) == h # Root /\ Installed(h, "block") => Installed(h, "block")'

LEMMA StillUnder ==
  ASSUME NEW f, NEW g, NEW u, Under(f, g), NEW h, Keeps(h),
         StopsBus(g) => h = Head(g.kids) /\ h # Root /\ g.at = "asked" /\ g.status = "",
         u = g \/ \E status : u = Told(g, status) /\ g \in FrameType,
         u.status = "success" \/ Stands(h)
  PROVE  Under(f, u)'
<1>1. /\ u.op = g.op /\ u.agent = g.agent /\ u.at = g.at /\ u.kids = g.kids /\ u.any = g.any
  <2>1. CASE u = g
    BY <2>1
  <2>2. ASSUME NEW status, u = Told(g, status), g \in FrameType
        PROVE  /\ u.op = g.op /\ u.agent = g.agent /\ u.at = g.at /\ u.kids = g.kids
               /\ u.any = g.any
    BY <2>2, ToldIs
  <2> QED
    BY <2>1, <2>2
<1>2. SUFFICES ASSUME StopsBus(u) PROVE Under(f, u)'
  BY DEF Under, StopsBus
<1>3. StopsBus(g) /\ h = Head(g.kids) /\ h # Root /\ g.at = "asked" /\ g.status = ""
  BY <1>1, <1>2 DEF StopsBus
<1>4. /\ Managed("bus", Root)' /\ Children' = Children
      /\ u.status # "success" /\ Installed(h, "block") => Installed(h, "block")'
  BY <1>3 DEF Keeps, Stands, Under
<1>5. /\ Range(Rest(u)) \subseteq Children
      /\ ~ u.any /\ Full(f) => Children \subseteq Range(Rest(u))
      /\ Head(u.kids) \notin Children
      /\ Installed(h, "block")
  BY <1>1, <1>3 DEF Under, Rest
<1>6. Children' = Children /\ Rest(u)' = Rest(u) /\ Full(f)' = Full(f)
  BY <1>4 DEF Rest, Full
<1>7. Range(Rest(u))' = Range(Rest(u))
  BY <1>6 DEF Range
<1> QED
  BY <1>1, <1>3, <1>4, <1>5, <1>6, <1>7 DEF Under

LEMMA BelowStays ==
  ASSUME stack \in Seq(Frames), Laid(stack), Unders, stack # <<>>, NEW h, h = Top.h, Keeps(h),
         NEW i \in 1 .. Len(stack) - 2,
         NEW u, u = stack[i + 1] \/ \E status : u = Told(stack[i + 1], status),
         u.status = "success" \/ Stands(h)
  PROVE  \A f : f = stack[i] => Under(f, u)'
<1> DEFINE n == Len(stack)
<1>1. /\ n \in Nat /\ i + 1 \in DOMAIN stack /\ n \in DOMAIN stack /\ i + 1 < n
      /\ Top = stack[n] /\ i \in 1 .. n - 1 /\ i + 1 \in 1 .. n - 1
  BY TopFrame
<1> HIDE DEF n
<1> TAKE f
<1> HAVE f = stack[i]
<1>2. PICK g : g = stack[i + 1]
  OBVIOUS
<1>3. Under(f, g) /\ g \in FrameType
  BY <1>1, <1>2 DEF Unders, n, Frames
<1>4. StopsBus(g) => h = Head(g.kids) /\ h # Root
  BY <1>1, <1>2, AboveBus
<1>5. StopsBus(g) => g.at = "asked" /\ g.status = ""
  BY <1>1, <1>2 DEF Laid, Upon, StopsBus, n
<1> QED
  BY <1>2, <1>3, <1>4, <1>5, StillUnder

\* The lists and what the parents have are as they should be.
Sound == Lists /\ Parents

LEMMA OrderGoes ==
  ASSUME Known, Ordered, Sound', stack # <<>>, NEW h, h = Top.h, Keeps(h), Stands(h),
         NEW f, GoOn(f), Replaces(f), Modest(f), Ready(f), Above(f)',
         \A e : e = stack[Len(stack) - 1] /\ StopsBus(f) => Under(e, f)'
  PROVE  Ordered'
<1> DEFINE n == Len(stack)
<1>1. stack \in Seq(Frames) /\ Laid(stack) /\ Unders
  BY TheRest DEF Ordered
<1>2. /\ n \in Nat /\ n > 0 /\ Len(stack') = n /\ stack'[n] = f
      /\ \A i \in 1 .. n - 1 : stack'[i] = stack[i]
  BY <1>1, GoesTo
<1>3. Laid(stack')
  BY <1>1, LaidGoes
<1>4. ASSUME NEW i \in 1 .. Len(stack') - 1, NEW e, e = stack'[i], NEW g, g = stack'[i + 1]
      PROVE  Under(e, g)'
  <2>1. i \in 1 .. n - 1 /\ e = stack[i]
    BY <1>2, <1>4
  <2>2. CASE i = n - 1
    <3>1. g = f /\ e = stack[Len(stack) - 1]
      BY <1>2, <1>4, <2>1, <2>2
    <3> QED
      BY <3>1 DEF Under
  <2>3. CASE i # n - 1
    <3>1. i \in 1 .. n - 2 /\ i + 1 \in 1 .. n - 1
      <4> HIDE DEF n
      <4> QED
        BY <1>2, <2>1, <2>3
    <3>2. g = stack[i + 1]
      BY <1>2, <1>4, <3>1
    <3> QED
      BY <1>1, <2>1, <3>1, <3>2, BelowStays
  <2> QED
    BY <2>2, <2>3
<1>5. Unders'
  BY <1>4 DEF Unders
<1>6. TopHeld'
  <2>1. Top' = f
    BY <1>2 DEF Top, Last
  <2> QED
    BY <2>1 DEF TopHeld
<1> QED
  BY <1>3, <1>5, <1>6 DEF Ordered, Sound

LEMMA OrderCalls ==
  ASSUME Known, Ordered, Sound', stack # <<>>, NEW h, h = Top.h, Keeps(h), Stands(h),
         NEW f, NEW g, Invoke(f, g), Replaces(f), Modest(f), Modest(g), Ready(g), Upon(f, g),
         StopsBus(f) => g.h = Head(f.kids), g.h = Top.h \/ Top.h = Root,
         Above(g)', Under(f, g)',
         \A e : e = stack[Len(stack) - 1] /\ StopsBus(f) => Under(e, f)'
  PROVE  Ordered'
<1> DEFINE n == Len(stack)
<1>1. stack \in Seq(Frames) /\ Laid(stack) /\ Unders
  BY TheRest DEF Ordered
<1>2. /\ n \in Nat /\ n > 0 /\ Len(stack') = n + 1 /\ stack'[n] = f /\ stack'[n + 1] = g
      /\ \A i \in 1 .. n - 1 : stack'[i] = stack[i]
  BY <1>1, CallsTo
<1>3. Laid(stack')
  BY <1>1, LaidCalls
<1>4. ASSUME NEW i \in 1 .. Len(stack') - 1, NEW e, e = stack'[i], NEW u, u = stack'[i + 1]
      PROVE  Under(e, u)'
  <2>1. i \in 1 .. n
    BY <1>2, <1>4
  <2>2. CASE i = n
    <3>1. e = f /\ u = g
      BY <1>2, <1>4, <2>2
    <3> QED
      BY <3>1
  <2>3. CASE i = n - 1
    <3>1. u = f /\ e = stack[Len(stack) - 1]
      BY <1>2, <1>4, <2>1, <2>3
    <3> QED
      BY <3>1 DEF Under
  <2>4. CASE i # n - 1 /\ i # n
    <3>1. i \in 1 .. n - 2 /\ i + 1 \in 1 .. n - 1 /\ i \in 1 .. n - 1
      <4> HIDE DEF n
      <4> QED
        BY <1>2, <2>1, <2>4
    <3>2. e = stack[i] /\ u = stack[i + 1]
      BY <1>2, <1>4, <3>1
    <3> QED
      BY <1>1, <3>1, <3>2, BelowStays
  <2> QED
    BY <2>2, <2>3, <2>4
<1>5. Unders'
  BY <1>4 DEF Unders
<1>6. TopHeld'
  <2>1. Top' = g
    BY <1>2 DEF Top, Last
  <2> QED
    BY <2>1 DEF TopHeld
<1> QED
  BY <1>3, <1>5, <1>6 DEF Ordered, Sound

\* What a call relies on when the call it has made has returned, if it waited for
\* a driver.
Relies(status) ==
  \A i \in 1 .. Len(stack) - 1 : \A e, f :
    i = Len(stack) - 1 /\ e = stack[i] /\ f = Told(e, status) => Above(f)'

\* A device that is removed is one the bus driver is told of.
Leaves(h, status) ==
  \/ Stands(h)
  \/ status = "success" /\ ~ Top.callback /\ Len(stack) > 1 /\ StopsBus(stack[Len(stack) - 1])

LEMMA OrderReturns ==
  ASSUME Known, Ordered, Sound', stack # <<>>, NEW h, h = Top.h, Keeps(h),
         NEW status \in {"success", "error"}, Return(status), Leaves(h, status),
         Top.op \notin {"stop", "uninstall"} \/ Relies(status)
  PROVE  Ordered'
<1> DEFINE n == Len(stack)
<1>1. stack \in Seq(Frames) /\ Laid(stack) /\ Unders
  BY TheRest DEF Ordered
<1>2. /\ n \in Nat /\ n > 0 /\ Len(stack') = n - 1
      /\ \A i \in 1 .. n - 2 : stack'[i] = stack[i]
      /\ n > 1 => stack'[n - 1] = IF Top.callback THEN stack[n - 1]
                                  ELSE Told(stack[n - 1], status)
  <2>1. status \in Statuses
    BY DEF Statuses
  <2> QED
    BY <1>1, <2>1, ReturnsTo
<1>3. Laid(stack')
  BY <1>1, LaidReturns
<1>4. ASSUME NEW i \in 1 .. Len(stack') - 1, NEW e, e = stack'[i], NEW u, u = stack'[i + 1]
      PROVE  Under(e, u)'
  <2>1. i \in 1 .. n - 2 /\ e = stack[i]
    BY <1>2, <1>4
  <2>2. CASE i = n - 2
    <3>1. n > 1 /\ i + 1 = n - 1
      BY <1>2, <2>1, <2>2
    <3>2. u = stack[i + 1] \/ u = Told(stack[i + 1], status)
      BY <1>2, <1>4, <3>1
    <3>3. ASSUME ~ Stands(h) PROVE u.status = "success"
      <4>1. status = "success" /\ u = Told(stack[n - 1], status)
        BY <1>2, <1>4, <3>1, <3>3 DEF Leaves
      <4>2. stack[n - 1] \in FrameType
        <5>1. n - 1 \in DOMAIN stack
          BY <1>2, <3>1
        <5> QED
          BY <1>1, <5>1 DEF Frames
      <4> QED
        BY <4>1, <4>2, ToldIs
    <3> QED
      BY <1>1, <2>1, <3>2, <3>3, BelowStays
  <2>3. CASE i # n - 2
    <3>1. i + 1 \in 1 .. n - 2
      <4> HIDE DEF n
      <4> QED
        BY <1>2, <2>1, <2>3
    <3>2. u = stack[i + 1]
      BY <1>2, <1>4, <3>1
    <3>3. CASE Stands(h)
      BY <1>1, <2>1, <3>2, <3>3, BelowStays
    <3>4. CASE StopsBus(stack[n - 1]) /\ n > 1
      <4>1. i + 1 \in DOMAIN stack /\ n - 1 \in DOMAIN stack /\ i + 1 < n - 1
        BY <1>2, <2>1, <3>1, <3>4
      <4>2. ~ StopsBus(stack[i + 1])
        BY <1>1, <3>4, <4>1, AboveBus
      <4> QED
        BY <3>2, <4>2 DEF Under, StopsBus
    <3> QED
      BY <3>3, <3>4 DEF Leaves
  <2> QED
    BY <2>2, <2>3
<1>5. Unders'
  BY <1>4 DEF Unders
<1>6. TopHeld'
  <2> SUFFICES ASSUME stack' # <<>>, NEW f, f = Top' PROVE Above(f)'
    BY DEF TopHeld
  <2>1. n > 1 /\ f = stack'[n - 1]
    BY <1>2 DEF Top, Last
  <2>2. PICK e : e = stack[n - 1]
    OBVIOUS
  <2>3. e \in FrameType /\ Upon(e, Top)
    <3>1. n - 1 \in DOMAIN stack /\ n - 1 \in 1 .. n - 1 /\ Top = stack[n]
      BY <1>1, <1>2, <2>1, TopFrame
    <3> QED
      BY <1>1, <1>2, <2>2, <3>1 DEF Laid, Frames
  <2>4. f = e \/ f = Told(e, status)
    BY <1>2, <2>1, <2>2
  <2>5. CASE Top.op \notin {"stop", "uninstall"}
    <3>1. e.op \notin {"start", "stop", "disconnect"}
      BY <2>3, <2>5 DEF Upon
    <3>2. f.op = e.op
      BY <2>3, <2>4, ToldIs
    <3> QED
      BY <3>1, <3>2 DEF Above
  <2>6. CASE Top.op \in {"stop", "uninstall"} /\ Relies(status)
    <3>1. ~ Top.callback
      BY <2>3, <2>6 DEF Upon
    <3>2. f = Told(e, status)
      BY <1>2, <2>1, <2>2, <3>1
    <3>3. n - 1 \in 1 .. Len(stack) - 1
      BY <1>2, <2>1
    <3> QED
      BY <2>2, <2>6, <3>2, <3>3 DEF Relies
  <2> QED
    BY <2>5, <2>6
<1> QED
  BY <1>3, <1>5, <1>6 DEF Ordered, Sound

\* The parents and children are those there were.
Alike ==
  /\ Children' = Children
  /\ \A d \in {"bus", "disk"}, h \in Handles : Managed(d, h)' <=> Managed(d, h)
  /\ \A h \in Handles, p \in {"block", "volume"} : Installed(h, p)' <=> Installed(h, p)
  /\ \A k \in Kids : Valid(k)' <=> Valid(k)

LEMMA AlikeIs ==
  ASSUME Known, Parents, Alike
  PROVE  /\ Parents'
         /\ \A h \in Handles : Keeps(h) /\ Stands(h)
         /\ \A e : \A f \in Frames : Under(e, f) => Under(e, f)'
         /\ \A f \in Frames : Above(f) => Above(f)'
<1>1. Parents'
  <2>1. ASSUME NEW h \in Handles, Installed(h, "volume")'
        PROVE  Managed("disk", h)'
    BY <2>1 DEF Alike, Parents
  <2>2. ASSUME NEW k \in Children'
        PROVE  Managed("bus", Root)' /\ Valid(k)'
    <3>1. k \in Children /\ k \in Kids /\ Root \in Handles
      BY Constants DEF Alike, Children
    <3> QED
      BY <3>1 DEF Alike, Parents
  <2> QED
    BY <2>1, <2>2 DEF Parents
<1>2. ASSUME NEW h \in Handles
      PROVE  Keeps(h) /\ Stands(h)
  BY Constants DEF Alike, Keeps, Stands
<1>3. ASSUME NEW e, NEW f \in Frames, Under(e, f)
      PROVE  Under(e, f)'
  <2>1. f.op \in Ops /\ f \in FrameType
    BY DEF Frames, FrameType
  <2>2. f.op = "stop" /\ f.agent = "bus" /\ f.at = "asked" => Head(f.kids) \in Kids
    BY <2>1, FirstKid DEF Frames, Formed
  <2>3. Managed("bus", Root)' <=> Managed("bus", Root)
    BY Constants DEF Alike
  <2>4. Head(f.kids) \in Kids =>
          (Installed(Head(f.kids), "block")' <=> Installed(Head(f.kids), "block"))
    BY Constants DEF Alike
  <2>5. Children' = Children
    BY DEF Alike
  <2> HIDE DEF Children
  <2> QED
    BY <1>3, <2>2, <2>3, <2>4, <2>5 DEF Under, StopsBus, Rest, Full, Range
<1>4. ASSUME NEW f \in Frames, Above(f)
      PROVE  Above(f)'
  <2>1. f.h \in Handles /\ (f.op = "start" /\ f.at = "child" => f.child \in Kids)
    BY DEF Frames, FrameType, Formed
  <2>2. /\ Managed("bus", f.h)' <=> Managed("bus", f.h)
        /\ Managed("disk", f.h)' <=> Managed("disk", f.h)
        /\ Installed(f.h, "volume")' <=> Installed(f.h, "volume")
        /\ f.child \in Kids => (Valid(f.child)' <=> Valid(f.child))
        /\ Children' = Children
    BY <2>1 DEF Alike
  <2> QED
    BY <1>4, <2>1, <2>2 DEF Above, Full, Range
<1> QED
  BY <1>1, <1>2, <1>3, <1>4

\* Nothing is installed or opened.
LEMMA SameIs ==
  ASSUME Known, Sound, UNCHANGED database
  PROVE  /\ Alike /\ Sound'
         /\ \A f : Above(f) => Above(f)'
         /\ \A e, f : Under(e, f) => Under(e, f)'
<1>1. protocols' = protocols /\ opens' = opens
  BY DEF database
<1>2. Alike
  BY <1>1 DEF Alike, Children, Managed, Installed, Valid
<1>3. Lists'
  BY <1>1 DEF Sound, Lists, Installed
<1>4. ASSUME NEW f, Above(f) PROVE Above(f)'
  BY <1>1, <1>4 DEF Above, Managed, Installed, Valid, Children, Full, Range
<1>5. ASSUME NEW e, NEW f, Under(e, f) PROVE Under(e, f)'
  BY <1>1, <1>5 DEF Under, StopsBus, Rest, Managed, Installed, Children, Full, Range
<1> QED
  BY <1>2, <1>3, <1>4, <1>5, AlikeIs DEF Sound

LEMMA OrderIs ==
  ASSUME Known, Ordered
  PROVE  /\ Sound /\ Lists /\ Parents /\ Laid(stack) /\ Unders /\ TopHeld
         /\ stack # <<>> => Top \in Frames /\ Top \in FrameType /\ Formed(Top) /\ Top.h \in Handles
         /\ stack # <<>> => Modest(Top) /\ Ready(Top)
         /\ Tables /\ OpensTyped
<1>1. stack \in Seq(Frames) /\ Laid(stack)
  BY TheRest DEF Ordered
<1>2. stack # <<>> => Modest(Top) /\ Ready(Top)
  BY <1>1, TopFrame DEF Laid
<1> QED
  BY <1>2, TheTop, TheRest DEF Ordered, Sound

\* A call goes on that stops no bus driver.
LEMMA SameGoes ==
  ASSUME Known, Ordered, UNCHANGED database, stack # <<>>,
         NEW f, GoOn(f), Replaces(f), Modest(f), Ready(f), Above(f), ~ StopsBus(f)
  PROVE  Ordered'
<1>1. PICK h : h = Top.h
  OBVIOUS
<1>2. Sound /\ h \in Handles
  BY <1>1, OrderIs
<1>3. Sound' /\ Keeps(h) /\ Stands(h) /\ Above(f)'
  BY <1>2, SameIs, AlikeIs DEF Sound
<1> QED
  BY <1>1, <1>3, OrderGoes

\* A call makes a call, and neither stops the bus driver.
LEMMA AlikeCalls ==
  ASSUME Known, Ordered, Lists', Alike, stack # <<>>,
         NEW f, NEW g, Invoke(f, g), Replaces(f), Modest(f), Modest(g), Ready(g), Upon(f, g),
         ~ StopsBus(f), ~ StopsBus(g), g.h = Top.h \/ Top.h = Root, Above(g)'
  PROVE  Ordered'
<1>1. PICK h : h = Top.h
  OBVIOUS
<1>2. h \in Handles /\ Parents
  BY <1>1, OrderIs
<1>3. Sound' /\ Keeps(h) /\ Stands(h)
  BY <1>2, AlikeIs DEF Sound
<1>4. Under(f, g)'
  BY DEF Under, StopsBus
<1> QED
  BY <1>1, <1>3, <1>4, OrderCalls

LEMMA AlikeReturns ==
  ASSUME Known, Ordered, Lists', Alike, stack # <<>>, NEW status \in {"success", "error"},
         Return(status), Top.op \notin {"stop", "uninstall"} \/ Relies(status)
  PROVE  Ordered'
<1>1. PICK h : h = Top.h
  OBVIOUS
<1>2. h \in Handles /\ Parents
  BY <1>1, OrderIs
<1>3. Sound' /\ Keeps(h) /\ Stands(h)
  BY <1>2, AlikeIs DEF Sound
<1> QED
  BY <1>1, <1>3, OrderReturns DEF Leaves

LEMMA SameReturns ==
  ASSUME Known, Ordered, UNCHANGED database, stack # <<>>, NEW status \in {"success", "error"},
         Return(status), Top.op \notin {"stop", "uninstall"} \/ Relies(status)
  PROVE  Ordered'
BY OrderIs, SameIs, AlikeReturns DEF Sound

\* Calls that run to their end at once leave the calls under way as they are.
LEMMA OrderBetween ==
  ASSUME Known, Ordered, Lists', Alike, stack' = stack
  PROVE  Ordered'
<1>1. stack \in Seq(Frames) /\ Parents /\ Laid(stack) /\ Unders /\ TopHeld
  BY OrderIs, TheRest
<1>2. Sound'
  BY <1>1, AlikeIs DEF Sound
<1>3. ASSUME NEW i \in 1 .. Len(stack) - 1, NEW e, e = stack[i], NEW f, f = stack[i + 1]
      PROVE  Under(e, f)'
  <2>1. f \in Frames
    BY <1>1, <1>3
  <2> QED
    BY <1>1, <1>3, <2>1, AlikeIs DEF Unders
<1>4. ASSUME stack # <<>>, NEW f, f = Top
      PROVE  Above(f)'
  BY <1>1, <1>4, TheTop, AlikeIs DEF TopHeld
<1>5. Unders'
  BY <1>3 DEF Unders
<1>6. TopHeld'
  BY <1>4 DEF TopHeld, Top
<1> QED
  BY <1>1, <1>2, <1>5, <1>6 DEF Ordered, Sound

LEMMA UnderMore ==
  ASSUME stack \in Seq(Frames), Unders, \A e, u : Under(e, u) => Under(e, u)',
         NEW g, ~ StopsBus(g),
         Len(stack') = Len(stack) + 1, stack'[Len(stack) + 1] = g,
         \A i \in 1 .. Len(stack) : stack'[i] = stack[i]
  PROVE  Unders'
<1>1. ASSUME NEW i \in 1 .. Len(stack') - 1, NEW e, e = stack'[i], NEW u, u = stack'[i + 1]
      PROVE  Under(e, u)'
  <2>1. i \in 1 .. Len(stack) /\ e = stack[i] /\ Len(stack) \in Nat
    BY <1>1
  <2>2. CASE i = Len(stack)
    <3>1. u = g
      BY <1>1, <2>2
    <3> QED
      BY <3>1 DEF Under, StopsBus
  <2>3. CASE i # Len(stack)
    <3>1. i \in 1 .. Len(stack) - 1 /\ i + 1 \in 1 .. Len(stack)
      BY <2>1, <2>3
    <3>2. u = stack[i + 1]
      BY <1>1, <3>1
    <3> QED
      BY <2>1, <3>1, <3>2 DEF Unders
  <2> QED
    BY <2>2, <2>3
<1> QED
  BY <1>1 DEF Unders

LEMMA OrderBegins ==
  ASSUME Known, Ordered, NEW op, NEW f \in FrameType, Begin(op, f),
         Modest(f), f.op \notin {"start", "stop"}, f.status = "",
         f.at \notin {"release", "stop", "stopped"},
         f.op = "uninstall" => f.h = Root /\ f.p = "io",
         stack # <<>> => f.op = "connect" /\ \A i \in DOMAIN stack : stack[i].op # "disconnect"
  PROVE  Ordered'
<1>1. stack \in Seq(Frames) /\ Sound /\ Laid(stack) /\ Unders
  BY OrderIs, TheRest
<1>2. Laid(stack')
  BY <1>1, LaidBegins
<1>3. UNCHANGED database
  BY DEF Begin
<1>4. PICK b : b = (stack # <<>>)
  OBVIOUS
<1>5. PICK g : g = Marked(f, b)
  OBVIOUS
<1>6. /\ Len(stack) \in Nat /\ Len(stack') = Len(stack) + 1
      /\ stack'[Len(stack) + 1] = g
      /\ \A i \in 1 .. Len(stack) : stack'[i] = stack[i]
  BY <1>1, <1>4, <1>5, BeginsTo
<1>7. g.op = f.op /\ g.at = f.at
  BY <1>5, MarkedIs
<1>8. Sound' /\ \A e, u : Under(e, u) => Under(e, u)'
  BY <1>1, <1>3, SameIs
<1>10. TopHeld'
  <2>1. Top' = g
    BY <1>6 DEF Top, Last
  <2>2. Above(g)'
    BY <1>7 DEF Above
  <2> QED
    BY <2>1, <2>2 DEF TopHeld
<1>9. Unders'
  <2>1. ~ StopsBus(g)
    BY <1>7 DEF StopsBus
  <2> QED
    BY <1>1, <1>6, <1>8, <2>1, UnderMore
<1> QED
  BY <1>2, <1>8, <1>10, <1>9 DEF Ordered, Sound

-----------------------------------------------------------------------------
(*********************** What a step does to the lists **********************)

\* At most the opens of one interface change.
OnlyThose(h, p) ==
  \A g \in Handles, q \in Protocols : g # h \/ q # p => opens'[<<g, q>>] = opens[<<g, q>>]

LEMMA ListsSet ==
  ASSUME Lists, protocols' = protocols, NEW h \in Handles, NEW p \in Protocols, OnlyThose(h, p),
         IsInjective(opens'[<<h, p>>]), ~ Installed(h, p) => opens'[<<h, p>>] = <<>>
  PROVE  Lists'
<1>1. ASSUME NEW g \in Handles
      PROVE  IsInjective(protocols'[g]) /\ (Installed(g, "io")' => g = Root)
  BY DEF Lists, Installed
<1>2. ASSUME NEW g \in Handles, NEW q \in Protocols
      PROVE  IsInjective(opens'[<<g, q>>]) /\ (~ Installed(g, q)' => opens'[<<g, q>>] = <<>>)
  <2>1. CASE g = h /\ q = p
    BY <2>1 DEF Installed
  <2>2. CASE g # h \/ q # p
    BY <2>2 DEF Lists, Installed, OnlyThose
  <2> QED
    BY <2>1, <2>2
<1> QED
  BY <1>1, <1>2 DEF Lists

LEMMA OthersManaged ==
  ASSUME NEW h \in Handles, NEW p \in Protocols, OnlyThose(h, p)
  PROVE  /\ \A d \in Drivers, g \in Handles :
              g # h \/ Uses[d] # p => (Managed(d, g)' <=> Managed(d, g))
         /\ h # Root \/ p # "io" => Children' = Children
<1>1. ASSUME NEW d \in Drivers, NEW g \in Handles, g # h \/ Uses[d] # p
      PROVE  Managed(d, g)' <=> Managed(d, g)
  <2>1. opens'[<<g, Uses[d]>>] = opens[<<g, Uses[d]>>]
    <3>1. Uses[d] \in Protocols
      BY MayBeThere
    <3> QED
      BY <1>1, <3>1 DEF OnlyThose
  <2> QED
    BY <2>1 DEF Managed
<1>2. ASSUME h # Root \/ p # "io"
      PROVE  Children' = Children
  <2>1. opens'[<<Root, "io">>] = opens[<<Root, "io">>]
    BY <1>2, Constants DEF OnlyThose, Protocols
  <2> QED
    BY <2>1 DEF Children
<1> QED
  BY <1>1, <1>2

\* The bus driver's and the disk driver's opens stay.
LEMMA AlikeSet ==
  ASSUME protocols' = protocols, NEW h \in Handles, NEW p \in Protocols, OnlyThose(h, p),
         \A d \in {"bus", "disk"} : Uses[d] = p =>
           (Manager(d, h) \in Range(opens'[<<h, p>>]) <=> Manager(d, h) \in Range(opens[<<h, p>>])),
         \A k \in Kids :
           Child(k) \in Range(opens'[<<h, p>>]) <=> Child(k) \in Range(opens[<<h, p>>])
  PROVE  Alike
<1>1. ASSUME NEW d \in {"bus", "disk"}, NEW g \in Handles
      PROVE  Managed(d, g)' <=> Managed(d, g)
  <2>1. CASE g = h /\ Uses[d] = p
    BY <2>1 DEF Managed
  <2>2. CASE g # h \/ Uses[d] # p
    BY <2>2, Constants, OthersManaged
  <2> QED
    BY <2>1, <2>2
<1>2. Children' = Children
  <2>1. CASE h = Root /\ p = "io"
    BY <2>1 DEF Children
  <2>2. CASE h # Root \/ p # "io"
    BY <2>2, OthersManaged
  <2> QED
    BY <2>1, <2>2
<1> QED
  BY <1>1, <1>2 DEF Alike, Installed, Valid

\* Of whom there is an open has it installed.
LEMMA OpenInstalled ==
  ASSUME Lists, NEW h \in Handles, NEW p \in Protocols, NEW o, o \in Range(opens[<<h, p>>])
  PROVE  Installed(h, p)
<1>1. Range(<<>>) = {}
  BY DEF Range
<1> QED
  BY <1>1 DEF Lists

LEMMA ManagedInstalled ==
  ASSUME Lists, NEW h \in Handles
  PROVE  /\ \A d \in Drivers : Managed(d, h) => Installed(h, Uses[d])
         /\ Managed("bus", h) => h = Root
         /\ Managed("disk", h) => Installed(h, "block")
<1>1. ASSUME NEW d \in Drivers, Managed(d, h)
      PROVE  Installed(h, Uses[d])
  <2>1. Uses[d] \in Protocols
    BY MayBeThere
  <2> QED
    BY <1>1, <2>1, OpenInstalled DEF Managed
<1>2. Managed("bus", h) => Installed(h, "io")
  BY <1>1, Constants
<1>3. Managed("disk", h) => Installed(h, "block")
  BY <1>1, Constants
<1> QED
  BY <1>1, <1>2, <1>3 DEF Lists

\* A device that is there has its block interface.
LEMMA KidHasBlock ==
  ASSUME Tables, Sound, NEW k \in Kids, Valid(k)
  PROVE  Installed(k, "block")
<1>1. k \in Handles /\ k # Root
  BY Constants
<1>2. protocols[k] \in Seq(Protocols) /\ protocols[k] # <<>>
  BY <1>1 DEF Tables, Valid
<1>3. PICK p \in Protocols : Installed(k, p)
  <2>1. 1 \in DOMAIN protocols[k] /\ protocols[k][1] \in Protocols
    BY <1>2
  <2> QED
    BY <2>1 DEF Installed, Range
<1>4. p \in {"block", "volume"}
  BY <1>1, <1>3 DEF Protocols, Sound, Lists
<1>5. Installed(k, "volume") => Installed(k, "block")
  BY <1>1, ManagedInstalled DEF Sound, Parents
<1> QED
  BY <1>3, <1>4, <1>5

\* What has an interface is valid.
LEMMA HasValid ==
  ASSUME NEW h, NEW p, Installed(h, p)
  PROVE  Valid(h)
<1>1. Range(<<>>) = {}
  BY DEF Range
<1> QED
  BY <1>1 DEF Installed, Valid

LEMMA NothingIn == Range(<<>>) = {} /\ IsInjective(<<>>)
BY DEF Range, IsInjective

LEMMA EmptyRange ==
  ASSUME NEW T, NEW s \in Seq(T), Range(s) = {}
  PROVE  s = <<>>
<1>1. ASSUME s # <<>> PROVE FALSE
  <2>1. 1 \in DOMAIN s
    BY <1>1
  <2> QED
    BY <2>1 DEF Range
<1> QED
  BY <1>1

-----------------------------------------------------------------------------
(*********************** The steps keep the order ***************************)

\* Calls that rely on nothing.
LEMMA NothingHeld ==
  ASSUME NEW g, g.op \notin {"start", "stop", "disconnect"}
                \/ (g.op = "disconnect" /\ g.at \notin {"release", "stop", "stopped"})
  PROVE  Above(g) /\ Above(g)' /\ ~ StopsBus(g) /\ Ready(g)
BY DEF Above, StopsBus, Ready

LEMMA NewFits ==
  ASSUME NEW h \in Handles
  PROVE  /\ \A p : Modest(Uninstall(h, p)) /\ Ready(Uninstall(h, p))
         /\ \A p : Modest(Reinstall(h, p)) /\ Modest(Exclusive(h, p))
         /\ \A agent, child : Modest(Disconnect(h, agent, child))
         /\ \A recursive : Modest(Connect(h, recursive))
         /\ Modest(WholeTree(h))
         /\ \A d : Modest(Start(d, h)) /\ Ready(Start(d, h))
         /\ \A d, kids : Ready(Stop(d, h, kids))
<1>1. \A g : IsNew(g, "uninstall", "find", h) \/ IsNew(g, "reinstall", "find", h)
               \/ IsNew(g, "open", "open", h) \/ IsNew(g, "connect", "collect", h)
               \/ IsNew(g, "start", "start", h)
               => Modest(g) /\ Ready(g)
  BY DEF IsNew, Modest, Ready
<1>2. IsInjective(<<>>)
  BY DEF IsInjective
<1>3. \A g : \A at \in {"agents", "next"} : IsNew(g, "disconnect", at, h) => Modest(g)
  BY <1>2 DEF IsNew, Modest
<1>4. \A d, kids : Ready(Stop(d, h, kids))
  BY DEF Stop, Call, Ready
<1> QED
  BY <1>1, <1>3, <1>4, NewIs

\* Who removes an interface, or opens it exclusively, has a driver disconnected.
LEMMA FindDriverOrder ==
  ASSUME Known, Ordered, FindDriver \/ OpenFindDriver PROVE Ordered'
<1> DEFINE agent == Those(opens[<<Top.h, Top.p>>], "driver")[1].agent
<1>1. PICK f : f = [Top EXCEPT !.at = "asked"]
  OBVIOUS
<1>2. PICK g : g = Disconnect(Top.h, agent, Null)
  OBVIOUS
<1>3. /\ stack # <<>> /\ Top.op \in {"uninstall", "reinstall", "open"} /\ Invoke(f, g)
      /\ UNCHANGED database
  BY <1>1, <1>2 DEF FindDriver, OpenFindDriver, Walks, Removing, MayOpen, At
<1>4. Top \in FrameType /\ Top.h \in Handles /\ Modest(Top) /\ Sound
  BY <1>3, OrderIs
<1>5. /\ f.op = Top.op /\ f.h = Top.h /\ f.p = Top.p /\ f.agent = Top.agent /\ f.kids = Top.kids
      /\ f.callback = Top.callback
  BY <1>1, <1>4 DEF FrameType
<1> HIDE DEF agent
<1>6. g.op = "disconnect" /\ g.at \in {"agents", "next"} /\ g.h = Top.h /\ Modest(g)
  <2>1. \E at \in {"agents", "next"} : IsNew(g, "disconnect", at, Top.h)
    BY <1>2, <1>4, NewIs
  <2>2. Modest(g)
    BY <1>2, <1>4, NewFits
  <2> QED
    BY <2>1, <2>2 DEF IsNew
<1>7. Replaces(f) /\ Modest(f) /\ ~ StopsBus(f)
  BY <1>3, <1>4, <1>5, SamePlace DEF Modest, StopsBus
<1>8. Upon(f, g) /\ Above(g)' /\ ~ StopsBus(g) /\ Ready(g)
  BY <1>3, <1>5, <1>6, NothingHeld DEF Upon
<1>9. Alike /\ Lists'
  BY <1>3, <1>4, SameIs DEF Sound
<1> QED
  BY <1>3, <1>6, <1>7, <1>8, <1>9, AlikeCalls

\* A removal that fails, or a reinstall that is done, or an exclusive open that
\* fails.
LEMMA RemovalReturns ==
  ASSUME Known, Ordered, UNCHANGED database, stack # <<>>, NEW status \in {"success", "error"},
         Top.op = "uninstall" => status = "error",
         Top.op \in {"uninstall", "reinstall", "open"}, Return(status)
  PROVE  Ordered'
<1>1. CASE Top.op # "uninstall"
  BY <1>1, SameReturns
<1>2. CASE Top.op = "uninstall"
  <2>1. stack \in Seq(Frames) /\ Laid(stack)
    BY TheRest, OrderIs
  <2>2. ASSUME NEW i \in 1 .. Len(stack) - 1, NEW e, NEW f, i = Len(stack) - 1, e = stack[i],
               f = Told(e, status)
        PROVE  Above(f)'
    <3>1. Top = stack[i + 1] /\ i \in DOMAIN stack
      BY <2>1, <2>2, TopFrame
    <3>2. e \in FrameType /\ Upon(e, Top)
      BY <2>1, <2>2, <3>1 DEF Laid, Frames
    <3>3. f.op = "stop" /\ f.status = "error"
      <4>1. e.op = "stop" /\ status = "error"
        BY <1>2, <3>2 DEF Upon
      <4> QED
        BY <2>2, <3>2, <4>1, ToldIs
    <3> QED
      BY <3>3 DEF Above
  <2>3. Relies(status)
    BY <2>2 DEF Relies
  <2> QED
    BY <2>3, SameReturns
<1> QED
  BY <1>1, <1>2

LEMMA NotFoundOrder ==
  ASSUME Known, Ordered, NotFound \/ Refused PROVE Ordered'
<1>1. /\ stack # <<>> /\ Top.op \in {"uninstall", "reinstall"} /\ Return("error")
      /\ UNCHANGED database
  BY DEF NotFound, Refused, Removing
<1> QED
  BY <1>1, RemovalReturns

LEMMA ReinstalledOrder ==
  ASSUME Known, Ordered, Reinstalled PROVE Ordered'
<1>1. stack # <<>> /\ Top.op = "reinstall" /\ Return("success") /\ UNCHANGED database
  BY DEF Reinstalled, At
<1> QED
  BY <1>1, RemovalReturns

LEMMA OpenDeniedOrder ==
  ASSUME Known, Ordered, OpenDenied PROVE Ordered'
<1>1. stack # <<>> /\ Top.op = "open" /\ Return("error") /\ UNCHANGED database
  BY DEF OpenDenied, At
<1> QED
  BY <1>1, RemovalReturns

\* A call that has removed something connects the whole tree.
LEMMA TreeConnects ==
  ASSUME Known, Ordered, Lists', Alike, stack # <<>>, Top.op \in {"uninstall", "reinstall"},
         NEW at, Invoke([Top EXCEPT !.at = at], WholeTree(Top.h))
  PROVE  Ordered'
<1>1. PICK f : f = [Top EXCEPT !.at = at]
  OBVIOUS
<1>2. PICK g : g = WholeTree(Top.h)
  OBVIOUS
<1>3. Invoke(f, g)
  BY <1>1, <1>2
<1>4. Top \in FrameType /\ Top.h \in Handles /\ Modest(Top)
  BY OrderIs
<1>5. /\ f.op = Top.op /\ f.h = Top.h /\ f.p = Top.p /\ f.agent = Top.agent /\ f.kids = Top.kids
      /\ f.callback = Top.callback
  BY <1>1, <1>4 DEF FrameType
<1>6. g.op = "connect" /\ g.h = Top.h /\ Modest(g)
  BY <1>2, <1>4, NewIs, NewFits DEF IsNew
<1>7. Replaces(f) /\ Modest(f) /\ ~ StopsBus(f)
  BY <1>4, <1>5, SamePlace DEF Modest, StopsBus
<1>8. Upon(f, g) /\ Above(g)' /\ ~ StopsBus(g) /\ Ready(g)
  BY <1>5, <1>6, NothingHeld DEF Upon
<1> QED
  BY <1>3, <1>6, <1>7, <1>8, AlikeCalls

LEMMA RefuseOrder ==
  ASSUME Known, Ordered, Refuse PROVE Ordered'
<1>1. /\ stack # <<>> /\ Top.op \in {"uninstall", "reinstall"} /\ protocols' = protocols
      /\ Invoke([Top EXCEPT !.at = "refused"], WholeTree(Top.h))
      /\ opens' = opens \/ opens' = [opens EXCEPT ![<<Top.h, Top.p>>] = Left]
  BY DEF Refuse, Walks, Removing
<1>2. Top.h \in Handles /\ Top.p \in Protocols /\ OpensTyped /\ Sound /\ Lists
  BY <1>1, OrderIs DEF Formed, Sound
<1>3. Alike /\ Lists'
  <2>1. CASE opens' = opens
    BY <1>1, <1>2, <2>1, SameIs DEF database, Sound
  <2>2. CASE opens' = [opens EXCEPT ![<<Top.h, Top.p>>] = Left]
    <3> DEFINE s == opens[<<Top.h, Top.p>>]
               I == {i \in DOMAIN s : Strong(s[i])}
    <3>1. PICK h : h = Top.h
      OBVIOUS
    <3>2. PICK p : p = Top.p
      OBVIOUS
    <3>3. I \subseteq DOMAIN opens[<<h, p>>]
          /\ opens' = [opens EXCEPT ![<<h, p>>] = Subsequence(opens[<<h, p>>], I)]
      BY <2>2, <3>1, <3>2 DEF Left
    <3>4. \A o : o \in {s[i] : i \in I} <=> o \in Range(s) /\ Strong(o)
      BY DEF Range
    <3> HIDE DEF I
    <3>5. /\ Range(opens'[<<h, p>>]) = {opens[<<h, p>>][i] : i \in I}
          /\ IsInjective(opens[<<h, p>>]) => IsInjective(opens'[<<h, p>>])
          /\ OnlyThose(h, p)
      <4>1. h \in Handles /\ p \in Protocols
        BY <1>2, <3>1, <3>2
      <4>2. Range(opens'[<<h, p>>]) = {opens[<<h, p>>][i] : i \in I}
        BY <1>2, <3>3, <4>1, FewerOpens
      <4>3. IsInjective(opens[<<h, p>>]) => IsInjective(opens'[<<h, p>>])
        BY <1>2, <3>3, <4>1, FewerOpens
      <4>4. OnlyThose(h, p)
        BY <1>2, <3>3, <4>1, FewerOpens DEF OnlyThose
      <4> QED
        BY <4>2, <4>3, <4>4
    <3>6. \A o : o \in Range(opens'[<<h, p>>]) <=> o \in Range(opens[<<h, p>>]) /\ Strong(o)
      BY <3>1, <3>2, <3>4, <3>5
    <3>7. \A d : Strong(Manager(d, h)) /\ Strong(Child(d))
      BY DEF Strong, Manager, Child, Open
    <3>8. IsInjective(opens'[<<h, p>>])
      BY <1>2, <3>1, <3>2, <3>5 DEF Lists
    <3>9. ASSUME ~ Installed(h, p)
          PROVE  opens'[<<h, p>>] = <<>>
      <4>1. opens[<<h, p>>] = <<>>
        BY <1>2, <3>1, <3>2, <3>9 DEF Lists
      <4>2. Range(opens'[<<h, p>>]) = {}
        BY <3>6, <4>1, NothingIn
      <4>3. opens'[<<h, p>>] \in Seq(OpenType)
        BY <1>2, <3>1, <3>2, <3>3, FewerOpens DEF OpensTyped
      <4> QED
        BY <4>2, <4>3, EmptyRange
    <3> QED
      BY <1>1, <1>2, <3>1, <3>2, <3>5, <3>6, <3>7, <3>8, <3>9, AlikeSet, ListsSet
  <2> QED
    BY <1>1, <2>1, <2>2
<1> QED
  BY <1>1, <1>3, TreeConnects

\* Nothing is left that keeps an interface.
LEMMA UnusedIs ==
  ASSUME Known, Unused
  PROVE  /\ stack # <<>> /\ Top.op \in {"uninstall", "reinstall"} /\ Installed(Top.h, Top.p)
         /\ \A o \in Range(opens[<<Top.h, Top.p>>]) : o.how \notin {"driver", "child"}
<1>1. /\ stack # <<>> /\ Top.op \in {"uninstall", "reinstall"} /\ Installed(Top.h, Top.p)
      /\ Left = <<>>
  BY DEF Unused, Walks, Removing
<1>2. Top.h \in Handles /\ Top.p \in Protocols /\ OpensTyped
  BY <1>1, TheTop DEF Formed
<1> DEFINE s == opens[<<Top.h, Top.p>>]
           I == {i \in DOMAIN s : Strong(s[i])}
<1>3. s \in Seq(OpenType) /\ I \subseteq DOMAIN s
  BY <1>2 DEF OpensTyped
<1>4. Subsequence(s, I) = <<>>
  BY <1>1 DEF Left
<1> HIDE DEF s
<1>5. {s[i] : i \in I} = {}
  <2> HIDE DEF I
  <2>1. Range(Subsequence(s, I)) = {s[i] : i \in I}
    BY <1>3, PartOf
  <2> QED
    BY <1>4, <2>1, NothingIn
<1>6. \A o \in Range(s) : ~ Strong(o)
  BY <1>5 DEF Range
<1> QED
  BY <1>1, <1>6 DEF s, Strong

LEMMA ReinstallsOrder ==
  ASSUME Known, Ordered, Unused, Reinstalls PROVE Ordered'
<1>1. /\ stack # <<>> /\ Top.op = "reinstall" /\ protocols' = protocols
      /\ Invoke([Top EXCEPT !.at = "moved"], WholeTree(Top.h))
      /\ opens' = [opens EXCEPT ![<<Top.h, Top.p>>] = <<>>]
      /\ \A o \in Range(opens[<<Top.h, Top.p>>]) : o.how \notin {"driver", "child"}
  BY UnusedIs DEF Reinstalls
<1>2. Top.h \in Handles /\ Top.p \in Protocols /\ OpensTyped /\ Lists
  BY <1>1, OrderIs DEF Formed
<1>3. PICK h : h = Top.h
  OBVIOUS
<1>4. PICK p : p = Top.p
  OBVIOUS
<1>5. opens'[<<h, p>>] = <<>> /\ OnlyThose(h, p)
  <2>1. h \in Handles /\ p \in Protocols /\ opens' = [opens EXCEPT ![<<h, p>>] = <<>>]
    BY <1>1, <1>2, <1>3, <1>4
  <2> QED
    BY <1>2, <2>1, NoOpensLeft DEF OnlyThose
<1>6. \A d : Manager(d, h) \notin Range(opens[<<h, p>>]) /\ Child(d) \notin Range(opens[<<h, p>>])
  BY <1>1, <1>3, <1>4 DEF Manager, Child, Open
<1>7. Range(<<>>) = {} /\ IsInjective(<<>>)
  BY NothingIn
<1>8. Alike /\ Lists'
  BY <1>1, <1>2, <1>3, <1>4, <1>5, <1>6, <1>7, AlikeSet, ListsSet
<1> QED
  BY <1>1, <1>8, TreeConnects

LEMMA OpenSucceedsOrder ==
  ASSUME Known, Openers, Ordered, OpenSucceeds PROVE Ordered'
<1>1. /\ stack # <<>> /\ Top.op = "open" /\ protocols' = protocols /\ Return("success")
      /\ opens' = [opens EXCEPT ![<<Top.h, Top.p>>] =
                     Append(opens[<<Top.h, Top.p>>], Open(Top.agent, Null, Top.how))]
      /\ Installed(Top.h, Top.p) /\ MayOpen
  BY DEF OpenSucceeds, MayOpen, At
<1>2. /\ Top.h \in Handles /\ Top.p \in Protocols /\ Top.agent = "app" /\ Top.how = "exclusive"
      /\ OpensTyped /\ Lists
  BY <1>1, OrderIs DEF Formed
<1>3. PICK h : h = Top.h
  OBVIOUS
<1>4. PICK p : p = Top.p
  OBVIOUS
<1>5. PICK o : o = Open("app", Null, "exclusive")
  OBVIOUS
<1>6. o \in Openings(h, p) /\ opens' = [opens EXCEPT ![<<h, p>>] = Append(opens[<<h, p>>], o)]
  BY <1>1, <1>2, <1>3, <1>4, <1>5, MayBeThere
<1>7. o.how = "exclusive"
  BY <1>5 DEF Open
<1>8. o \notin Range(opens[<<h, p>>])
  BY <1>1, <1>3, <1>4, <1>7, OpensAlone
<1>9. /\ Range(opens'[<<h, p>>]) = Range(opens[<<h, p>>]) \cup {o}
      /\ IsInjective(opens'[<<h, p>>]) /\ OnlyThose(h, p)
  <2>1. IsInjective(opens[<<h, p>>])
    BY <1>2, <1>3, <1>4 DEF Lists
  <2>2. h \in Handles /\ p \in Protocols
    BY <1>2, <1>3, <1>4
  <2>3. IsInjective(opens'[<<h, p>>])
    BY <1>2, <1>6, <1>8, <2>1, <2>2, OneMore
  <2>4. Range(opens'[<<h, p>>]) = Range(opens[<<h, p>>]) \cup {o}
    BY <1>2, <1>6, <2>2, OneMore
  <2>5. OnlyThose(h, p)
    BY <1>2, <1>6, <2>2, OneMore DEF OnlyThose
  <2> QED
    BY <2>3, <2>4, <2>5
<1>10. \A d : Manager(d, h) # o /\ Child(d) # o
  BY <1>7 DEF Manager, Child, Open
<1>11. Alike /\ Lists'
  BY <1>1, <1>2, <1>3, <1>4, <1>9, <1>10, AlikeSet, ListsSet
<1> QED
  BY <1>1, <1>11, AlikeReturns

LEMMA CollectAgentsOrder ==
  ASSUME Known, Ordered, CollectAgents PROVE Ordered'
<1>1. /\ stack # <<>> /\ Top.op = "disconnect" /\ Top.at = "agents" /\ UNCHANGED database
      /\ \/ Return("success")
         \/ GoOn([Top EXCEPT !.at = "next", !.drivers = ManagersOf(Top.h)])
  BY DEF CollectAgents, At
<1>2. Top \in FrameType /\ Modest(Top)
  BY <1>1, OrderIs
<1>3. CASE Return("success")
  BY <1>1, <1>3, SameReturns
<1>4. CASE GoOn([Top EXCEPT !.at = "next", !.drivers = ManagersOf(Top.h)])
  <2>1. PICK f : f = [Top EXCEPT !.at = "next", !.drivers = ManagersOf(Top.h)]
    OBVIOUS
  <2>2. /\ f.op = Top.op /\ f.h = Top.h /\ f.p = Top.p /\ f.agent = Top.agent
        /\ f.kids = Top.kids /\ f.callback = Top.callback /\ f.at = "next"
        /\ f.status = Top.status
    BY <1>2, <2>1 DEF FrameType
  <2>3. Replaces(f) /\ Modest(f) /\ Ready(f) /\ Above(f) /\ ~ StopsBus(f)
    BY <1>1, <1>2, <2>2, SamePlace, NothingHeld DEF Modest
  <2> QED
    BY <1>1, <1>4, <2>1, <2>3, SameGoes
<1> QED
  BY <1>1, <1>3, <1>4

\* The next agent's turn.
LEMMA SkipOrder ==
  ASSUME Known, Ordered, UNCHANGED database, stack # <<>>, Top.op = "disconnect", NEW any, Skip(any)
  PROVE  Ordered'
<1>1. PICK f : f = [Top EXCEPT !.at = "next", !.drivers = Tail(Top.drivers), !.kids = <<>>,
                               !.status = "", !.any = any]
  OBVIOUS
<1>2. Top \in FrameType /\ Modest(Top) /\ GoOn(f)
  BY <1>1, OrderIs DEF Skip
<1>3. /\ f.op = Top.op /\ f.h = Top.h /\ f.p = Top.p /\ f.agent = Top.agent
      /\ f.kids = <<>> /\ f.callback = Top.callback /\ f.at = "next" /\ f.status = ""
  BY <1>1, <1>2 DEF FrameType
<1>4. Replaces(f) /\ Ready(f) /\ Above(f) /\ ~ StopsBus(f)
  BY <1>2, <1>3, SamePlace, NothingHeld
<1>5. Modest(f)
  BY <1>3, NothingIn DEF Modest
<1> QED
  BY <1>2, <1>4, <1>5, SameGoes

LEMMA DisconnectReturns ==
  ASSUME Known, Ordered, AllAsked \/ NoDriver PROVE Ordered'
<1>1. /\ stack # <<>> /\ Top.op = "disconnect" /\ UNCHANGED database
      /\ \E status \in {"success", "error"} : Return(status)
  BY DEF AllAsked, NoDriver, At
<1> QED
  BY <1>1, SameReturns

LEMMA DriverAskedOrder ==
  ASSUME Known, Ordered, DriverAsked PROVE Ordered'
<1>1. stack # <<>> /\ Top.op = "disconnect" /\ UNCHANGED database /\ Skip(CountsStop)
  BY DEF DriverAsked, At
<1>2. PICK any : any = CountsStop
  OBVIOUS
<1> QED
  BY <1>1, <1>2, SkipOrder

\* The children of a controller are those of the bus driver on the bus.
LEMMA BusChildren ==
  ASSUME Tables, Sound, NEW h \in Handles, NEW A
  PROVE  /\ ChildrenOf(h, A) \in Seq(Kids)
         /\ h # Root \/ "bus" \notin A => ChildrenOf(h, A) = <<>>
         /\ h = Root /\ "bus" \in A => Range(ChildrenOf(h, A)) = Children
<1>1. /\ ChildrenOf(h, A) \in Seq(Kids)
      /\ \A k : k \in Range(ChildrenOf(h, A)) <=>
           /\ "bus" \in A /\ Installed(h, "io")
           /\ k \in Kids /\ Child(k) \in Range(opens[<<h, "io">>])
  BY ChildrenAre
<1>2. ASSUME h # Root \/ "bus" \notin A
      PROVE  ChildrenOf(h, A) = <<>>
  <2>1. Installed(h, "io") => h = Root
    BY DEF Sound, Lists
  <2>2. Range(ChildrenOf(h, A)) = {}
    BY <1>1, <1>2, <2>1
  <2> QED
    BY <1>1, <2>2, EmptyRange
<1>3. ASSUME h = Root, "bus" \in A
      PROVE  Range(ChildrenOf(h, A)) = Children
  <2>1. ASSUME NEW k, Child(k) \in Range(opens[<<h, "io">>])
        PROVE  Installed(h, "io")
    BY <2>1, OpenInstalled DEF Sound, Protocols
  <2> QED
    BY <1>1, <1>3, <2>1 DEF Children
<1> QED
  BY <1>1, <1>2, <1>3

\* The opens of a handle tell who manages it.
LEMMA ManagesIs ==
  ASSUME Tables, NEW h \in Handles, NEW d \in Drivers, Manages(d, h)
  PROVE  Managed(d, h)
<1>1. PICK o \in Range(OpensOf(h)) : o.agent = d /\ o.how = "driver"
  BY DEF Manages
<1>2. PICK p \in Protocols : o \in Range(opens[<<h, p>>])
  BY <1>1, AllOpens
<1>3. opens[<<h, p>>] \in Seq(Openings(h, p))
  BY DEF Tables, OpensTyped
<1>4. o \in Openings(h, p)
  BY <1>2, <1>3 DEF Range
<1>5. o = Manager(d, h) /\ Uses[d] = p
  BY <1>1, <1>4, OpeningsAre
<1> QED
  BY <1>2, <1>5 DEF Managed

-----------------------------------------------------------------------------
(***************************** Disconnecting *******************************)

\* What the last call relies on.
LEMMA AboveTop ==
  ASSUME Known, Ordered, stack # <<>>
  PROVE  Above(Top)
BY OrderIs DEF TopHeld

\* The children of a controller that are collected for an agent.
LEMMA ChildrenFound ==
  ASSUME Tables, Sound, NEW h \in Handles, NEW d \in Drivers,
         NEW s, s = Distinct(ChildrenOf(h, {d}))
  PROVE  /\ s \in Seq(Kids) /\ IsInjective(s)
         /\ s # <<>> => d = "bus" /\ h = Root
         /\ Managed("bus", h) /\ d = "bus" => Children = Range(s)
<1> DEFINE c == ChildrenOf(h, {d})
<1>1. c \in Seq(Kids)
  BY BusChildren
<1>2. h # Root \/ d # "bus" => c = <<>>
  <2>1. d # "bus" => "bus" \notin {d}
    OBVIOUS
  <2> QED
    BY <2>1, BusChildren
<1>3. h = Root /\ d = "bus" => Range(c) = Children
  <2>1. d = "bus" => "bus" \in {d}
    OBVIOUS
  <2> QED
    BY <2>1, BusChildren
<1>4. Managed("bus", h) => h = Root
  BY ManagedInstalled DEF Sound
<1> HIDE DEF c
<1>5. s = Distinct(c)
  BY DEF c
<1>6. s \in Seq(Kids) /\ Range(s) = Range(c) /\ IsInjective(s)
  BY <1>1, <1>5, DistinctOnes
<1>7. ASSUME c = <<>>
      PROVE  s = <<>>
  <2>1. Range(s) = {}
    BY <1>6, <1>7, NothingIn
  <2> QED
    BY <1>6, <2>1, EmptyRange
<1> QED
  BY <1>2, <1>3, <1>4, <1>6, <1>7

LEMMA CollectChildrenOrder ==
  ASSUME Known, Ordered, CollectChildren PROVE Ordered'
<1> DEFINE s == Distinct(ChildrenOf(Top.h, {Agent}))
           at == IF s = <<>> THEN "release" ELSE "stop"
<1>1. /\ stack # <<>> /\ Top.op = "disconnect" /\ Top.at = "next" /\ Top.drivers # <<>>
      /\ UNCHANGED database
      /\ \/ /\ Manages(Agent, Top.h) /\ (Top.child = Null \/ Top.child \in Range(s))
            /\ GoOn([Top EXCEPT !.at = at, !.kids = s])
         \/ Skip(Top.any)
  BY DEF CollectChildren, At
<1>2. /\ Top \in FrameType /\ Top.h \in Handles /\ Modest(Top) /\ Sound /\ Tables
  BY <1>1, OrderIs
<1>3. Agent \in Drivers
  <2>1. PICK q : q = Top.drivers
    OBVIOUS
  <2>2. q \in Seq(Drivers) /\ q # <<>>
    BY <1>1, <1>2, <2>1 DEF FrameType
  <2>3. Head(q) \in Drivers
    BY <2>2
  <2> QED
    BY <2>1, <2>3 DEF Agent
<1>4. Agent = Head(Top.drivers)
  BY DEF Agent
<1>5. CASE Skip(Top.any)
  <2>1. PICK any : any = Top.any
    OBVIOUS
  <2> QED
    BY <1>1, <1>5, <2>1, SkipOrder
<1>6. CASE /\ Manages(Agent, Top.h) /\ (Top.child = Null \/ Top.child \in Range(s))
           /\ GoOn([Top EXCEPT !.at = at, !.kids = s])
  <2>1. /\ s \in Seq(Kids) /\ IsInjective(s)
        /\ s # <<>> => Agent = "bus" /\ Top.h = Root
        /\ Managed("bus", Top.h) /\ Agent = "bus" => Children = Range(s)
    BY <1>2, <1>3, ChildrenFound
  <2>2. Managed(Agent, Top.h)
    BY <1>2, <1>3, <1>6, ManagesIs
  <2> HIDE DEF s
  <2>3. PICK f : f = [Top EXCEPT !.at = at, !.kids = s]
    OBVIOUS
  <2>4. /\ f.op = Top.op /\ f.h = Top.h /\ f.p = Top.p /\ f.agent = Top.agent
        /\ f.kids = s /\ f.callback = Top.callback /\ f.drivers = Top.drivers
        /\ f.at = at /\ f.status = Top.status /\ f.child = Top.child
    BY <1>2, <2>3 DEF FrameType
  <2>5. at \in {"release", "stop"} /\ (at = "release" <=> s = <<>>)
    OBVIOUS
  <2> HIDE DEF at
  <2>6. Replaces(f) /\ Ready(f) /\ ~ StopsBus(f)
    <3>1. Replaces(f)
      BY <1>1, <2>4, SamePlace
    <3> QED
      BY <1>1, <2>4, <2>5, <3>1 DEF Ready, StopsBus
  <2>7. Modest(f)
    <3>1. Top.status = ""
      BY <1>1, <1>2 DEF Modest
    <3> QED
      BY <1>1, <1>4, <1>6, <2>1, <2>4, <2>5, <3>1 DEF Modest
  <2>8. Above(f)
    <3>1. Range(<<>>) = {}
      BY NothingIn
    <3> QED
      BY <1>1, <1>4, <2>1, <2>2, <2>4, <2>5, <3>1 DEF Above
  <2> QED
    BY <1>1, <1>6, <2>3, <2>6, <2>7, <2>8, SameGoes
<1> QED
  BY <1>1, <1>5, <1>6

\* A call that asks a driver to stop.
LEMMA StopCalls ==
  ASSUME Known, Ordered, UNCHANGED database, stack # <<>>, Top.op = "disconnect",
         NEW f, NEW g, Invoke(f, g), f.op = "disconnect", f.h = Top.h, f.p = Top.p,
         f.agent = Top.agent, f.callback = Top.callback, Modest(f), Modest(g),
         g.op = "stop", g.at = "stop", g.h = Top.h, Upon(f, g), Under(f, g)
  PROVE  Ordered'
<1>1. PICK h : h = Top.h
  OBVIOUS
<1>2. Sound /\ h \in Handles /\ Parents
  BY <1>1, OrderIs
<1>3. Sound' /\ Keeps(h) /\ Stands(h)
  BY <1>2, SameIs, AlikeIs
<1>4. Under(f, g)'
  BY <1>2, SameIs
<1>5. Replaces(f) /\ ~ StopsBus(f) /\ Ready(g) /\ Above(g)'
  <2>1. Replaces(f)
    BY SamePlace
  <2> QED
    BY <2>1 DEF StopsBus, Ready, Above
<1> QED
  BY <1>1, <1>3, <1>4, <1>5, OrderCalls

LEMMA StopChildrenOrder ==
  ASSUME Known, Ordered, StopChildren PROVE Ordered'
<1> DEFINE kids == IF Top.child = Null THEN Top.kids ELSE <<Top.child>>
<1>1. /\ stack # <<>> /\ Top.op = "disconnect" /\ Top.at = "stop" /\ UNCHANGED database
      /\ Invoke([Top EXCEPT !.at = "stopped"], Stop(Agent, Top.h, kids))
  BY DEF StopChildren, At
<1>2. Top \in FrameType /\ Modest(Top) /\ Sound /\ Above(Top) /\ Agent = Head(Top.drivers)
  BY <1>1, OrderIs, AboveTop DEF Agent
<1>3. PICK f : f = [Top EXCEPT !.at = "stopped"]
  OBVIOUS
<1>4. PICK g : g = Stop(Agent, Top.h, kids)
  OBVIOUS
<1>5. /\ f.op = Top.op /\ f.h = Top.h /\ f.p = Top.p /\ f.agent = Top.agent
      /\ f.kids = Top.kids /\ f.callback = Top.callback /\ f.drivers = Top.drivers
      /\ f.at = "stopped" /\ f.status = Top.status /\ f.child = Top.child
  BY <1>2, <1>3 DEF FrameType
<1>6. /\ g.op = "stop" /\ g.at = "stop" /\ g.h = Top.h /\ g.agent = Agent /\ g.kids = kids
      /\ g.any = FALSE /\ g.status = "" /\ g.callback = FALSE
  BY <1>4 DEF Stop, Call
<1>7. /\ Agent = "bus" /\ Top.h = Root /\ Top.kids # <<>> /\ Top.status = ""
      /\ IsInjective(Top.kids) /\ Top.child \in Range(Top.kids) \cup {Null}
  BY <1>1, <1>2 DEF Modest
<1>8. Managed("bus", Root) /\ Children = Range(Top.kids)
  BY <1>1, <1>2, <1>7 DEF Above
<1>9. /\ kids # <<>> /\ IsInjective(kids) /\ Range(kids) \subseteq Children
      /\ Top.child = Null \/ Len(Top.kids) = 1 => Children \subseteq Range(kids)
  <2>1. CASE Top.child = Null
    BY <1>7, <1>8, <2>1
  <2>2. CASE Top.child # Null
    <3>1. PICK k : k = Top.child
      OBVIOUS
    <3>2. kids = <<k>> /\ k \in Range(Top.kids)
      BY <1>7, <2>2, <3>1
    <3>3. Range(<<k>>) = {k} /\ IsInjective(<<k>>) /\ <<k>> # <<>>
      BY DEF Range, IsInjective
    <3>4. ASSUME Len(Top.kids) = 1 PROVE Range(Top.kids) = {k}
      <4>1. DOMAIN Top.kids = {1}
        <5>1. PICK q : q = Top.kids
          OBVIOUS
        <5>2. q \in Seq(Kids) /\ Len(q) = 1
          BY <1>2, <3>4, <5>1 DEF FrameType
        <5>3. DOMAIN q = {1}
          BY <5>2
        <5> QED
          BY <5>1, <5>3
      <4> QED
        BY <3>2, <4>1 DEF Range
    <3> QED
      BY <1>8, <2>2, <3>2, <3>3, <3>4
  <2> QED
    BY <2>1, <2>2
<1> HIDE DEF kids
<1>10. Modest(f)
  BY <1>1, <1>2, <1>5, <1>7 DEF Modest
<1>11. Modest(g)
  BY <1>6, <1>7, <1>9 DEF Modest
<1>12. Upon(f, g)
  BY <1>1, <1>2, <1>5, <1>6, <1>7, <1>9 DEF Upon
<1>13. Under(f, g)
  BY <1>5, <1>6, <1>8, <1>9 DEF Under, Rest, Full
<1> QED
  BY <1>1, <1>3, <1>4, <1>5, <1>6, <1>10, <1>11, <1>12, <1>13, StopCalls

LEMMA StopDriverOrder ==
  ASSUME Known, Ordered, StopDriver PROVE Ordered'
<1>1. /\ stack # <<>> /\ Top.op = "disconnect" /\ UNCHANGED database
      /\ Top.at = "release" \/ (Top.at = "stopped" /\ StopsAll)
      /\ Invoke([Top EXCEPT !.at = "released"], Stop(Agent, Top.h, <<>>))
  BY DEF StopDriver, At
<1>2. /\ Top \in FrameType /\ Modest(Top) /\ Sound /\ Lists /\ Above(Top) /\ Top.h \in Handles
      /\ Agent = Head(Top.drivers)
  BY <1>1, OrderIs, AboveTop DEF Agent
<1>3. PICK f : f = [Top EXCEPT !.at = "released"]
  OBVIOUS
<1>4. PICK g : g = Stop(Agent, Top.h, <<>>)
  OBVIOUS
<1>5. /\ f.op = Top.op /\ f.h = Top.h /\ f.p = Top.p /\ f.agent = Top.agent
      /\ f.kids = Top.kids /\ f.callback = Top.callback /\ f.drivers = Top.drivers
      /\ f.at = "released" /\ f.status = Top.status /\ f.child = Top.child
  BY <1>2, <1>3 DEF FrameType
<1>6. /\ g.op = "stop" /\ g.at = "stop" /\ g.h = Top.h /\ g.agent = Agent /\ g.kids = <<>>
      /\ g.any = FALSE /\ g.status = "" /\ g.callback = FALSE
  BY <1>4 DEF Stop, Call
<1>7. ASSUME Agent = "bus"
      PROVE  Managed("bus", Root) /\ Top.h = Root /\ Children = {}
  <2>1. Managed("bus", Top.h)
    BY <1>1, <1>2, <1>7 DEF Above
  <2>2. Top.h = Root
    BY <1>2, <2>1, ManagedInstalled
  <2>3. Children = {}
    BY <1>1, <1>2, <1>7 DEF Above, StopsAll, Full
  <2> QED
    BY <2>1, <2>2, <2>3
<1>8. Modest(f)
  BY <1>1, <1>2, <1>5 DEF Modest
<1>9. Range(<<>>) = {} /\ IsInjective(<<>>)
  BY NothingIn
<1>10. Modest(g)
  BY <1>6, <1>7, <1>9 DEF Modest
<1>11. Upon(f, g)
  BY <1>1, <1>2, <1>5, <1>6 DEF Upon
<1>12. Under(f, g)
  <2>1. CASE g.agent = "bus"
    <3>1. Managed("bus", Root) /\ Children = {} /\ Rest(g) = <<>>
      BY <1>6, <1>7, <2>1 DEF Rest
    <3> QED
      BY <1>6, <1>9, <3>1 DEF Under
  <2> QED
    BY <2>1 DEF Under, StopsBus
<1> QED
  BY <1>1, <1>3, <1>4, <1>5, <1>6, <1>8, <1>10, <1>11, <1>12, StopCalls

-----------------------------------------------------------------------------
(******************************* Connecting ********************************)

LEMMA ConnectGoes ==
  ASSUME Known, Ordered, UNCHANGED database, stack # <<>>, Top.op = "connect",
         NEW f, GoOn(f), f.op = "connect", f.h = Top.h, f.p = Top.p, f.agent = Top.agent,
         f.callback = Top.callback, f.h # Root => f.kids = <<>>
  PROVE  Ordered'
<1>1. Replaces(f)
  BY SamePlace
<1>2. Modest(f) /\ Ready(f) /\ Above(f) /\ ~ StopsBus(f)
  BY DEF Modest, Ready, Above, StopsBus
<1> QED
  BY <1>1, <1>2, SameGoes

LEMMA CollectDriversOrder ==
  ASSUME Known, Ordered, CollectDrivers PROVE Ordered'
<1>1. PICK f : f = [Top EXCEPT !.at = "sorted", !.drivers = BoundDrivers]
  OBVIOUS
<1>2. stack # <<>> /\ Top.op = "connect" /\ UNCHANGED database /\ GoOn(f)
  BY <1>1 DEF CollectDrivers, At
<1>3. Top \in FrameType /\ Modest(Top)
  BY <1>2, OrderIs
<1>4. /\ f.op = Top.op /\ f.h = Top.h /\ f.p = Top.p /\ f.agent = Top.agent
      /\ f.kids = Top.kids /\ f.callback = Top.callback
  BY <1>1, <1>3 DEF FrameType
<1>5. f.h # Root => f.kids = <<>>
  BY <1>3, <1>4 DEF Modest
<1> QED
  BY <1>2, <1>4, <1>5, ConnectGoes

LEMMA CheckDriversOrder ==
  ASSUME Known, Ordered, CheckDrivers PROVE Ordered'
<1>1. PICK at : at = IF bindings \ Range(Top.drivers) # {} THEN "collect" ELSE "try"
  OBVIOUS
<1>2. PICK f : f = [Top EXCEPT !.at = at, !.index = 1]
  OBVIOUS
<1>3. stack # <<>> /\ Top.op = "connect" /\ UNCHANGED database /\ GoOn(f)
  BY <1>1, <1>2 DEF CheckDrivers, At
<1>4. Top \in FrameType /\ Modest(Top)
  BY <1>3, OrderIs
<1>5. /\ f.op = Top.op /\ f.h = Top.h /\ f.p = Top.p /\ f.agent = Top.agent
      /\ f.kids = Top.kids /\ f.callback = Top.callback
  BY <1>2, <1>4 DEF FrameType
<1>6. f.h # Root => f.kids = <<>>
  BY <1>4, <1>5 DEF Modest
<1> QED
  BY <1>3, <1>5, <1>6, ConnectGoes

\* A driver that can open what it uses does not manage it yet.
LEMMA SupportsFree ==
  ASSUME Sound, NEW h \in Handles, Supports("disk", h)
  PROVE  ~ Installed(h, "volume")
<1>1. OpenStatus(h, "block", Manager("disk", h)) = "success"
  BY Constants DEF Supports, Manager
<1>2. Manager("disk", h).how = "driver"
  BY DEF Manager, Open
<1>3. Manager("disk", h) \notin Range(opens[<<h, "block">>])
  BY <1>1, <1>2 DEF OpenStatus
<1> QED
  BY <1>3, Constants DEF Sound, Parents, Managed

LEMMA TryDriverOrder ==
  ASSUME Known, Ordered, TryDriver PROVE Ordered'
<1>1. PICK d : d = Top.drivers[Top.index]
  OBVIOUS
<1>2. /\ stack # <<>> /\ Top.op = "connect" /\ UNCHANGED database
      /\ \/ /\ Supports(d, Top.h)
            /\ \E drivers, index :
                 Invoke([Top EXCEPT !.drivers = drivers, !.index = index], Start(d, Top.h))
         \/ GoOn([Top EXCEPT !.index = @ + 1, !.status = ""])
  <2>1. stack # <<>> /\ Top.op = "connect" /\ UNCHANGED database
    BY DEF TryDriver, At
  <2>2. ASSUME Supports(d, Top.h)
        PROVE  \E drivers, index :
                 Invoke([Top EXCEPT !.drivers = drivers, !.index = index], Start(d, Top.h))
    <3>1. Invoke([Top EXCEPT !.drivers = RemoveAt(@, Top.index), !.index = FromTheFirst],
                 Start(d, Top.h))
      BY <1>1, <2>2 DEF TryDriver
    <3>2. [Top EXCEPT !.drivers = RemoveAt(@, Top.index), !.index = FromTheFirst]
            = [Top EXCEPT !.drivers = RemoveAt(Top.drivers, Top.index), !.index = FromTheFirst]
      OBVIOUS
    <3> QED
      BY <3>1, <3>2
  <2>3. ASSUME ~ Supports(d, Top.h)
        PROVE  GoOn([Top EXCEPT !.index = @ + 1, !.status = ""])
    BY <1>1, <2>3 DEF TryDriver
  <2> QED
    BY <2>1, <2>2, <2>3
<1>3. Top \in FrameType /\ Top.h \in Handles /\ Modest(Top) /\ Sound
  BY <1>2, OrderIs
<1>4. ASSUME Supports(d, Top.h), NEW drivers, NEW index,
             Invoke([Top EXCEPT !.drivers = drivers, !.index = index], Start(d, Top.h))
      PROVE  Ordered'
  <2>1. PICK f : f = [Top EXCEPT !.drivers = drivers, !.index = index]
    OBVIOUS
  <2>2. PICK g : g = Start(d, Top.h)
    OBVIOUS
  <2>3. /\ f.op = Top.op /\ f.h = Top.h /\ f.p = Top.p /\ f.agent = Top.agent
        /\ f.kids = Top.kids /\ f.callback = Top.callback
    BY <1>3, <2>1 DEF FrameType
  <2>4. g.op = "start" /\ g.at = "start" /\ g.h = Top.h /\ g.agent = d /\ g.callback = FALSE
    BY <2>2 DEF Start, Call
  <2>5. Replaces(f) /\ Modest(f) /\ ~ StopsBus(f)
    BY <1>2, <1>3, <2>3, SamePlace DEF Modest, StopsBus
  <2>6. Modest(g) /\ Ready(g) /\ Upon(f, g) /\ ~ StopsBus(g)
    <3>1. Modest(g) /\ Ready(g)
      BY <1>3, <2>2, NewFits
    <3> QED
      BY <1>2, <2>3, <2>4, <3>1 DEF Upon, StopsBus
  <2>7. Above(g)'
    <3>1. Above(g)
      BY <1>3, <1>4, <2>4, SupportsFree DEF Above
    <3> QED
      BY <1>2, <1>3, <3>1, SameIs
  <2>8. Alike /\ Lists'
    BY <1>2, <1>3, SameIs DEF Sound
  <2> QED
    BY <1>2, <1>4, <2>1, <2>2, <2>4, <2>5, <2>6, <2>7, <2>8, AlikeCalls
<1>5. CASE GoOn([Top EXCEPT !.index = @ + 1, !.status = ""])
  <2>1. PICK f : f = [Top EXCEPT !.index = @ + 1, !.status = ""]
    OBVIOUS
  <2>2. /\ f.op = Top.op /\ f.h = Top.h /\ f.p = Top.p /\ f.agent = Top.agent
        /\ f.kids = Top.kids /\ f.callback = Top.callback
    BY <1>3, <2>1 DEF FrameType
  <2>3. f.h # Root => f.kids = <<>>
    BY <1>3, <2>2 DEF Modest
  <2> QED
    BY <1>2, <1>5, <2>1, <2>2, <2>3, ConnectGoes
<1> QED
  BY <1>2, <1>4, <1>5

LEMMA TriedOrder ==
  ASSUME Known, Ordered, Tried \/ Descended PROVE Ordered'
<1>1. PICK c : c = ChildrenOf(Top.h, Drivers)
  OBVIOUS
<1>2. /\ stack # <<>> /\ Top.op = "connect" /\ UNCHANGED database
      /\ \/ Return("success")
         \/ GoOn([Top EXCEPT !.at = "descend", !.status = "", !.index = 0, !.kids = c])
  BY <1>1 DEF Tried, Descended, At
<1>3. Top \in FrameType /\ Top.h \in Handles /\ Sound /\ Tables
  BY <1>2, OrderIs
<1>4. CASE Return("success")
  BY <1>2, <1>4, SameReturns
<1>5. CASE GoOn([Top EXCEPT !.at = "descend", !.status = "", !.index = 0, !.kids = c])
  <2>1. PICK f : f = [Top EXCEPT !.at = "descend", !.status = "", !.index = 0, !.kids = c]
    OBVIOUS
  <2>2. /\ f.op = Top.op /\ f.h = Top.h /\ f.p = Top.p /\ f.agent = Top.agent
        /\ f.kids = c /\ f.callback = Top.callback
    BY <1>3, <2>1 DEF FrameType
  <2>3. f.h # Root => f.kids = <<>>
    BY <1>1, <1>3, <2>2, BusChildren
  <2> QED
    BY <1>2, <1>5, <2>1, <2>2, <2>3, ConnectGoes
<1> QED
  BY <1>2, <1>4, <1>5

LEMMA DescendOrder ==
  ASSUME Known, Ordered, Descend PROVE Ordered'
<1>1. PICK f : f = [Top EXCEPT !.kids = Tail(@), !.status = ""]
  OBVIOUS
<1>2. PICK k : k = Head(Top.kids)
  OBVIOUS
<1>3. /\ stack # <<>> /\ Top.op = "connect" /\ UNCHANGED database /\ Top.kids # <<>>
      /\ Invoke(f, WholeTree(k)) \/ GoOn(f)
  BY <1>1, <1>2 DEF Descend, At
<1>4. Top \in FrameType /\ Top.h \in Handles /\ Modest(Top) /\ Sound
  BY <1>3, OrderIs
<1>5. /\ f.op = Top.op /\ f.h = Top.h /\ f.p = Top.p /\ f.agent = Top.agent
      /\ f.callback = Top.callback
  BY <1>1, <1>4 DEF FrameType
<1>6. Top.h = Root
  BY <1>3, <1>4 DEF Modest
<1>7. CASE GoOn(f)
  BY <1>3, <1>5, <1>6, <1>7, ConnectGoes
<1>8. CASE Invoke(f, WholeTree(k))
  <2>1. PICK g : g = WholeTree(k)
    OBVIOUS
  <2>2. k \in Handles
    BY <1>2, <1>3, <1>4, FirstKid, Constants
  <2>3. g.op = "connect" /\ Modest(g)
    BY <2>1, <2>2, NewIs, NewFits DEF IsNew
  <2>4. Replaces(f) /\ Modest(f) /\ ~ StopsBus(f)
    BY <1>3, <1>5, <1>6, SamePlace DEF Modest, StopsBus
  <2>5. Upon(f, g) /\ Above(g)' /\ ~ StopsBus(g) /\ Ready(g)
    BY <1>3, <1>5, <2>3, NothingHeld DEF Upon
  <2>6. Alike /\ Lists'
    BY <1>3, <1>4, SameIs DEF Sound
  <2> QED
    BY <1>3, <1>6, <1>8, <2>1, <2>3, <2>4, <2>5, <2>6, AlikeCalls
<1> QED
  BY <1>3, <1>7, <1>8

-----------------------------------------------------------------------------
(******************************** Starting *********************************)

LEMMA StartReturns ==
  ASSUME Known, Ordered, StartFails \/ BusStarted PROVE Ordered'
<1>1. /\ stack # <<>> /\ Top.op = "start" /\ UNCHANGED database
      /\ \E status \in {"success", "error"} : Return(status)
  BY DEF StartFails, BusStarted, Starting, At
<1> QED
  BY <1>1, SameReturns

\* A driver has opened what it uses.
LEMMA DriverOpened ==
  ASSUME Known, Ordered, NEW d \in Drivers, OpenByDriver(d), protocols' = protocols,
         NEW h, h = Top.h
  PROVE  /\ stack # <<>> /\ Top.op = "start" /\ Top.at = "start" /\ Top.agent = d
         /\ h \in Handles /\ Sound' /\ Keeps(h) /\ Stands(h) /\ Managed(d, h)'
<1>1. /\ stack # <<>> /\ Top.op = "start" /\ Top.at = "start" /\ Top.agent = d
      /\ OpenStatus(h, Uses[d], Manager(d, h)) # "error"
      /\ opens' = [opens EXCEPT ![<<h, Uses[d]>>] = Opened(h, Uses[d], Manager(d, h))]
  BY DEF OpenByDriver, Starting, At
<1>2. h \in Handles /\ OpensTyped /\ Lists /\ Parents
  BY <1>1, OrderIs
<1>3. PICK p : p = Uses[d]
  OBVIOUS
<1>4. PICK o : o = Manager(d, h)
  OBVIOUS
<1>5. p \in Protocols /\ o \in Openings(h, p)
  BY <1>2, <1>3, <1>4, MayBeThere
<1>6. opens' = [opens EXCEPT ![<<h, p>>] = Opened(h, p, o)] /\ OpenStatus(h, p, o) # "error"
  BY <1>1, <1>3, <1>4
<1>7. Installed(h, p)
  BY <1>6 DEF OpenStatus
<1>8. Range(opens'[<<h, p>>]) \in {Range(opens[<<h, p>>]), Range(opens[<<h, p>>]) \cup {o}}
  BY <1>2, <1>5, <1>6, OpensOnce
<1>9. o \in Range(opens'[<<h, p>>])
  BY <1>2, <1>5, <1>6, OpensOnce
<1>10. IsInjective(opens'[<<h, p>>])
  <2>1. IsInjective(opens[<<h, p>>])
    BY <1>2, <1>5 DEF Lists
  <2> QED
    BY <1>2, <1>5, <1>6, <2>1, OpensOnce
<1>11. OnlyThose(h, p)
  BY <1>2, <1>5, <1>6, OpensOnce DEF OnlyThose
<1>12. Lists'
  BY <1>2, <1>5, <1>7, <1>10, <1>11, ListsSet
<1>13. \A e \in Drivers, g \in Handles : Managed(e, g) => Managed(e, g)'
  <2> SUFFICES ASSUME NEW e \in Drivers, NEW g \in Handles, Managed(e, g)
               PROVE  Managed(e, g)'
    OBVIOUS
  <2>1. CASE g = h /\ Uses[e] = p
    BY <1>8, <2>1 DEF Managed
  <2>2. CASE g # h \/ Uses[e] # p
    BY <1>2, <1>5, <1>11, <2>2, OthersManaged
  <2> QED
    BY <2>1, <2>2
<1>14. Children' = Children
  <2>1. CASE h = Root /\ p = "io"
    <3>1. \A k : Child(k) # o
      BY <1>4 DEF Child, Manager, Open
    <3> QED
      BY <1>8, <2>1, <3>1 DEF Children
  <2>2. CASE h # Root \/ p # "io"
    BY <1>2, <1>5, <1>11, <2>2, OthersManaged
  <2> QED
    BY <2>1, <2>2
<1>15. Managed(d, h)'
  BY <1>3, <1>4, <1>9 DEF Managed
<1>16. Parents'
  <2>1. ASSUME NEW g \in Handles, Installed(g, "volume")'
        PROVE  Managed("disk", g)'
    <3>1. Installed(g, "volume")
      BY <2>1 DEF Installed
    <3> QED
      BY <1>2, <1>13, <3>1, Constants DEF Parents
  <2>2. ASSUME NEW k \in Children'
        PROVE  Managed("bus", Root)' /\ Valid(k)'
    <3>1. k \in Children
      BY <1>14
    <3> QED
      BY <1>2, <1>13, <3>1, Constants DEF Parents, Valid
  <2> QED
    BY <2>1, <2>2 DEF Parents
<1>17. Keeps(h) /\ Stands(h)
  BY <1>13, <1>14, Constants DEF Keeps, Stands, Installed
<1> QED
  BY <1>1, <1>2, <1>12, <1>15, <1>16, <1>17 DEF Sound

LEMMA BusStartsOrder ==
  ASSUME Known, Ordered, BusStarts PROVE Ordered'
<1>1. OpenByDriver("bus") /\ GoOn([Top EXCEPT !.at = "enumerate"]) /\ protocols' = protocols
  BY DEF BusStarts
<1>2. PICK h : h = Top.h
  OBVIOUS
<1>3. PICK f : f = [Top EXCEPT !.at = "enumerate"]
  OBVIOUS
<1>4. /\ stack # <<>> /\ Top.op = "start" /\ Top.agent = "bus"
      /\ Sound' /\ Keeps(h) /\ Stands(h) /\ Managed("bus", h)'
  BY <1>1, <1>2, Constants, DriverOpened
<1>5. Top \in FrameType /\ Modest(Top)
  BY <1>4, OrderIs
<1>6. /\ f.op = Top.op /\ f.h = Top.h /\ f.p = Top.p /\ f.agent = Top.agent
      /\ f.kids = Top.kids /\ f.callback = Top.callback /\ f.at = "enumerate"
  BY <1>3, <1>5 DEF FrameType
<1>7. Replaces(f)
  BY <1>4, <1>6, SamePlace
<1>8. Modest(f) /\ Ready(f) /\ ~ StopsBus(f)
  BY <1>4, <1>5, <1>6 DEF Modest, Ready, StopsBus
<1>9. Above(f)'
  BY <1>2, <1>4, <1>6 DEF Above
<1> QED
  BY <1>1, <1>2, <1>3, <1>4, <1>7, <1>8, <1>9, OrderGoes

LEMMA DiskStartsOrder ==
  ASSUME Known, Ordered, DiskStarts PROVE Ordered'
<1>1. OpenByDriver("disk") /\ GoOn([Top EXCEPT !.at = "make"]) /\ protocols' = protocols
  BY DEF DiskStarts
<1>2. PICK h : h = Top.h
  OBVIOUS
<1>3. PICK f : f = [Top EXCEPT !.at = "make"]
  OBVIOUS
<1>4. /\ stack # <<>> /\ Top.op = "start" /\ Top.at = "start" /\ Top.agent = "disk"
      /\ Sound' /\ Keeps(h) /\ Stands(h) /\ Managed("disk", h)'
  BY <1>1, <1>2, Constants, DriverOpened
<1>5. Top \in FrameType /\ Modest(Top) /\ Above(Top)
  BY <1>4, OrderIs, AboveTop
<1>6. /\ f.op = Top.op /\ f.h = Top.h /\ f.p = Top.p /\ f.agent = Top.agent
      /\ f.kids = Top.kids /\ f.callback = Top.callback /\ f.at = "make"
  BY <1>3, <1>5 DEF FrameType
<1>7. Replaces(f)
  BY <1>4, <1>6, SamePlace
<1>8. Modest(f) /\ Ready(f) /\ ~ StopsBus(f)
  BY <1>4, <1>5, <1>6 DEF Modest, Ready, StopsBus
<1>9. Above(f)'
  <2>1. ~ Installed(h, "volume")'
    BY <1>1, <1>2, <1>4, <1>5 DEF Above, Installed
  <2> QED
    BY <1>2, <1>4, <1>6, <2>1 DEF Above
<1> QED
  BY <1>1, <1>2, <1>3, <1>4, <1>7, <1>8, <1>9, OrderGoes

LEMMA FsStartsOrder ==
  ASSUME Known, Ordered, FsStarts PROVE Ordered'
<1>1. OpenByDriver("fs") /\ Return("success") /\ protocols' = protocols
  BY DEF FsStarts
<1>2. PICK h : h = Top.h
  OBVIOUS
<1>3. stack # <<>> /\ Top.op = "start" /\ Sound' /\ Keeps(h) /\ Stands(h)
  BY <1>1, <1>2, Constants, DriverOpened
<1> QED
  BY <1>1, <1>2, <1>3, OrderReturns DEF Leaves

\* A new interface has no opens.
LEMMA InstallIs ==
  ASSUME Tables, Lists, NEW h \in Handles, NEW p \in Protocols, Install(h, p), ~ Installed(h, p),
         p = "io" => h = Root
  PROVE  /\ Lists' /\ opens' = opens
         /\ \A g \in Handles : \A q : Installed(g, q)' <=> Installed(g, q) \/ (g = h /\ q = p)
         /\ \A g \in Handles : Valid(g)' <=> Valid(g) \/ g = h
<1>1. /\ protocols' = [protocols EXCEPT ![h] = <<p>> \o protocols[h]]
      /\ opens' = [opens EXCEPT ![<<h, p>>] = <<>>]
  BY DEF Install
<1>2. protocols \in [Handles -> Seq(Protocols)] /\ opens \in [Handles \X Protocols -> Seq(OpenType)]
  BY DEF Tables, OpensTyped
<1>3. opens' = opens
  <2>1. opens[<<h, p>>] = <<>>
    BY DEF Lists
  <2> QED
    BY <1>1, <1>2, <2>1
<1>4. PICK s : s = protocols[h]
  OBVIOUS
<1>5. s \in Seq(Protocols) /\ p \notin Range(s) /\ IsInjective(s)
  BY <1>2, <1>4 DEF Installed, Lists
<1>6. PICK t : t = <<p>> \o s
  OBVIOUS
<1>7. /\ Len(t) = Len(s) + 1 /\ t[1] = p /\ DOMAIN t = 1 .. Len(s) + 1 /\ Len(s) \in Nat
      /\ \A i \in 2 .. Len(s) + 1 : t[i] = s[i - 1]
      /\ DOMAIN s = 1 .. Len(s) /\ t # <<>>
  BY <1>5, <1>6
<1>8. \A q : q \in Range(t) <=> q \in Range(s) \/ q = p
  <2>1. ASSUME NEW q \in Range(t) PROVE q \in Range(s) \/ q = p
    <3>1. PICK i \in 1 .. Len(s) + 1 : t[i] = q
      BY <1>7, <2>1 DEF Range
    <3>2. CASE i = 1
      BY <1>7, <3>1, <3>2
    <3>3. CASE i # 1
      <4>1. i \in 2 .. Len(s) + 1 /\ i - 1 \in 1 .. Len(s)
        BY <1>7, <3>1, <3>3
      <4> QED
        BY <1>7, <3>1, <4>1 DEF Range
    <3> QED
      BY <3>2, <3>3
  <2>2. ASSUME NEW q \in Range(s) PROVE q \in Range(t)
    <3>1. PICK i \in 1 .. Len(s) : s[i] = q
      BY <1>7, <2>2 DEF Range
    <3>2. i + 1 \in 2 .. Len(s) + 1 /\ i + 1 \in 1 .. Len(s) + 1 /\ (i + 1) - 1 = i
      BY <1>7, <3>1
    <3>3. t[i + 1] = q
      BY <1>7, <3>1, <3>2
    <3> QED
      BY <1>7, <3>2, <3>3 DEF Range
  <2>3. p \in Range(t)
    <3>1. 1 \in 1 .. Len(s) + 1
      BY <1>7
    <3> QED
      BY <1>7, <3>1 DEF Range
  <2> QED
    BY <2>1, <2>2, <2>3
<1>9. IsInjective(t)
  <2> SUFFICES ASSUME NEW i \in DOMAIN t, NEW j \in DOMAIN t, t[i] = t[j]
               PROVE  i = j
    BY DEF IsInjective
  <2>1. \A k \in DOMAIN t : k # 1 => k - 1 \in DOMAIN s /\ t[k] = s[k - 1]
    BY <1>7
  <2>2. \A k \in DOMAIN t : k # 1 => t[k] # p
    BY <1>5, <2>1 DEF Range
  <2>3. CASE i = 1 \/ j = 1
    BY <1>7, <2>2, <2>3
  <2>4. CASE i # 1 /\ j # 1
    <3>1. i - 1 = j - 1
      BY <1>5, <2>1, <2>4 DEF IsInjective
    <3> QED
      BY <1>7, <3>1
  <2> QED
    BY <2>3, <2>4
<1>10. protocols'[h] = t /\ \A g \in Handles : g # h => protocols'[g] = protocols[g]
  BY <1>1, <1>2, <1>4, <1>6
<1>11. \A g \in Handles : \A q : Installed(g, q)' <=> Installed(g, q) \/ (g = h /\ q = p)
  BY <1>4, <1>8, <1>10 DEF Installed
<1>12. \A g \in Handles : Valid(g)' <=> Valid(g) \/ g = h
  BY <1>7, <1>10 DEF Valid
<1>13. Lists'
  <2>1. ASSUME NEW g \in Handles
        PROVE  IsInjective(protocols'[g]) /\ (Installed(g, "io")' => g = Root)
    BY <1>9, <1>10, <1>11 DEF Lists
  <2>2. ASSUME NEW g \in Handles, NEW q \in Protocols
        PROVE  IsInjective(opens'[<<g, q>>]) /\ (~ Installed(g, q)' => opens'[<<g, q>>] = <<>>)
    BY <1>3, <1>11 DEF Lists
  <2> QED
    BY <2>1, <2>2 DEF Lists
<1> QED
  BY <1>3, <1>11, <1>12, <1>13

\* An interface is installed and the opens stay.
LEMMA InstallKeeps ==
  ASSUME Tables, Sound, NEW h \in Handles, NEW p \in Protocols, Install(h, p), ~ Installed(h, p),
         p = "io" => h = Root, p = "volume" => Managed("disk", h)
  PROVE  /\ Sound' /\ Children' = Children
         /\ \A d, g : Managed(d, g)' <=> Managed(d, g)
         /\ \A g \in Handles : Keeps(g) /\ Stands(g)
<1>1. /\ Lists' /\ opens' = opens
      /\ \A g \in Handles : \A q : Installed(g, q)' <=> Installed(g, q) \/ (g = h /\ q = p)
      /\ \A g \in Handles : Valid(g)' <=> Valid(g) \/ g = h
  BY InstallIs DEF Sound
<1>2. Children' = Children /\ \A d, g : Managed(d, g)' <=> Managed(d, g)
  BY <1>1 DEF Children, Managed
<1>3. \A g \in Handles : Keeps(g) /\ Stands(g)
  BY <1>1, <1>2 DEF Keeps, Stands
<1>4. Parents'
  <2>1. ASSUME NEW g \in Handles, Installed(g, "volume")'
        PROVE  Managed("disk", g)'
    BY <1>1, <1>2, <2>1 DEF Sound, Parents
  <2>2. ASSUME NEW k \in Children'
        PROVE  Managed("bus", Root)' /\ Valid(k)'
    <3>1. k \in Children
      BY <1>2
    <3>2. k \in Handles
      BY <3>1, Constants DEF Children
    <3> QED
      BY <1>1, <1>2, <3>1, <3>2 DEF Sound, Parents
  <2> QED
    BY <2>1, <2>2 DEF Parents
<1> QED
  BY <1>1, <1>2, <1>3, <1>4 DEF Sound

LEMMA BusMakesKidOrder ==
  ASSUME Known, Ordered, NEW k \in Kids, BusMakesKid(k) PROVE Ordered'
<1>1. /\ stack # <<>> /\ Top.op = "start" /\ Top.at = "enumerate" /\ Top.agent = "bus"
      /\ ~ Valid(k) /\ Install(k, "block") /\ GoOn([Top EXCEPT !.at = "child", !.child = k])
  BY Constants DEF BusMakesKid, Starting, At
<1>2. PICK f : f = [Top EXCEPT !.at = "child", !.child = k]
  OBVIOUS
<1>3. PICK h : h = Top.h
  OBVIOUS
<1>4. /\ Top \in FrameType /\ Modest(Top) /\ Above(Top) /\ Sound /\ Tables /\ h \in Handles
      /\ k \in Handles /\ "block" \in Protocols
  BY <1>1, <1>3, OrderIs, AboveTop, Constants DEF Protocols
<1>5. ~ Installed(k, "block")
  BY <1>1, HasValid
<1>6. /\ Sound' /\ Children' = Children /\ \A d, g : Managed(d, g)' <=> Managed(d, g)
      /\ \A g \in Handles : Keeps(g) /\ Stands(g)
  BY <1>1, <1>4, <1>5, InstallKeeps
<1>7. /\ f.op = Top.op /\ f.h = Top.h /\ f.p = Top.p /\ f.agent = Top.agent
      /\ f.kids = Top.kids /\ f.callback = Top.callback /\ f.at = "child" /\ f.child = k
  BY <1>2, <1>4 DEF FrameType
<1>8. Replaces(f)
  BY <1>1, <1>7, SamePlace
<1>9. Modest(f) /\ Ready(f) /\ ~ StopsBus(f)
  BY <1>1, <1>4, <1>7 DEF Modest, Ready, StopsBus
<1>10. Above(f)'
  <2>1. Managed("bus", f.h)'
    BY <1>1, <1>4, <1>6, <1>7 DEF Above
  <2>2. Valid(k)'
    BY <1>1, <1>4, <1>5, InstallIs DEF Sound
  <2>3. k \notin Children'
    BY <1>1, <1>4, <1>6 DEF Sound, Parents
  <2> QED
    BY <1>1, <1>7, <2>1, <2>2, <2>3 DEF Above
<1> QED
  BY <1>1, <1>2, <1>3, <1>4, <1>6, <1>8, <1>9, <1>10, OrderGoes

LEMMA DiskMakesVolumeOrder ==
  ASSUME Known, Ordered, DiskMakesVolume PROVE Ordered'
<1>1. /\ stack # <<>> /\ Top.op = "start" /\ Top.at = "make" /\ Top.agent = "disk"
      /\ Install(Top.h, "volume") /\ Return("success")
  BY Constants DEF DiskMakesVolume, Starting, At
<1>2. PICK h : h = Top.h
  OBVIOUS
<1>3. Above(Top) /\ Sound /\ Tables /\ h \in Handles /\ "volume" \in Protocols
  BY <1>1, <1>2, OrderIs, AboveTop DEF Protocols
<1>4. Managed("disk", h) /\ ~ Installed(h, "volume")
  BY <1>1, <1>2, <1>3 DEF Above
<1>5. Sound' /\ Keeps(h) /\ Stands(h)
  BY <1>1, <1>2, <1>3, <1>4, InstallKeeps
<1> QED
  BY <1>1, <1>2, <1>5, OrderReturns DEF Leaves

\* One element more.
LEMMA AppendIn ==
  ASSUME NEW T, NEW s \in Seq(T), NEW o \in T
  PROVE  Range(Append(s, o)) = Range(s) \cup {o}
<1> DEFINE t == Append(s, o)
<1>1. /\ t \in Seq(T) /\ Len(t) = Len(s) + 1 /\ Len(s) \in Nat
      /\ t[Len(s) + 1] = o /\ \A i \in 1 .. Len(s) : t[i] = s[i]
  OBVIOUS
<1> HIDE DEF t
<1>2. DOMAIN t = 1 .. Len(s) + 1 /\ DOMAIN s = 1 .. Len(s)
  BY <1>1
<1>3. 1 .. Len(s) + 1 = (1 .. Len(s)) \cup {Len(s) + 1}
  BY <1>1
<1>4. Range(t) = Range(s) \cup {o}
  BY <1>1, <1>2, <1>3 DEF Range
<1> QED
  BY <1>4 DEF t

LEMMA OneIn ==
  ASSUME OpensTyped, NEW h \in Handles, NEW p \in Protocols, NEW o \in Openings(h, p),
         opens' = [opens EXCEPT ![<<h, p>>] = Append(opens[<<h, p>>], o)]
  PROVE  Range(opens'[<<h, p>>]) = Range(opens[<<h, p>>]) \cup {o}
<1>1. opens'[<<h, p>>] = Append(opens[<<h, p>>], o)
  BY DEF OpensTyped
<1>2. PICK s : s = opens[<<h, p>>]
  OBVIOUS
<1>3. s \in Seq(Openings(h, p))
  BY <1>2 DEF OpensTyped
<1>4. Range(Append(s, o)) = Range(s) \cup {o}
  BY <1>3, AppendIn
<1> QED
  BY <1>1, <1>2, <1>4

\* The bus driver opens its controller for a device it has found.
LEMMA BusOpensForKidOrder ==
  ASSUME Known, Ordered, BusOpensForKid PROVE Ordered'
<1>1. /\ stack # <<>> /\ Top.op = "start" /\ Top.at = "child" /\ Top.agent = "bus"
      /\ opens' = [opens EXCEPT ![<<Top.h, "io">>] =
                     Append(opens[<<Top.h, "io">>], Child(Top.child))]
      /\ GoOn([Top EXCEPT !.at = "enumerate", !.child = Null]) /\ protocols' = protocols
  BY DEF BusOpensForKid, Starting, At
<1>2. PICK f : f = [Top EXCEPT !.at = "enumerate", !.child = Null]
  OBVIOUS
<1>3. PICK h : h = Top.h
  OBVIOUS
<1>4. PICK k : k = Top.child
  OBVIOUS
<1>5. PICK o : o = Child(k)
  OBVIOUS
<1>6. /\ Top \in FrameType /\ Formed(Top) /\ Modest(Top) /\ Above(Top) /\ Sound /\ Lists /\ Parents
      /\ OpensTyped /\ h \in Handles /\ "io" \in Protocols
  BY <1>1, <1>3, OrderIs, AboveTop DEF Protocols
<1>7. k \in Kids /\ Managed("bus", h) /\ Valid(k) /\ k \notin Children
  BY <1>1, <1>3, <1>4, <1>6 DEF Formed, Above
<1>8. h = Root /\ Installed(h, "io")
  BY <1>6, <1>7, ManagedInstalled, Constants
<1>9. o \in Openings(h, "io") /\ o \notin Range(opens[<<h, "io">>])
  BY <1>5, <1>6, <1>7, <1>8, MayBeThere DEF Children
<1>10. opens' = [opens EXCEPT ![<<h, "io">>] = Append(opens[<<h, "io">>], o)]
  BY <1>1, <1>3, <1>4, <1>5
<1>11. Range(opens'[<<h, "io">>]) = Range(opens[<<h, "io">>]) \cup {o}
  BY <1>6, <1>9, <1>10, OneIn
<1>12. IsInjective(opens'[<<h, "io">>])
  <2>1. IsInjective(opens[<<h, "io">>])
    BY <1>6 DEF Lists
  <2> QED
    BY <1>6, <1>9, <1>10, <2>1, OneMore
<1>13. OnlyThose(h, "io")
  BY <1>6, <1>9, <1>10, OneMore DEF OnlyThose
<1>14. Lists'
  BY <1>1, <1>6, <1>8, <1>12, <1>13, ListsSet
<1>15. Managed("bus", Root)'
  BY <1>7, <1>8, <1>11, Constants DEF Managed
<1>16. \A g \in Handles : Managed("disk", g)' <=> Managed("disk", g)
  BY <1>6, <1>13, OthersManaged, Constants
<1>17. Children' \subseteq Children \cup {k}
  <2>1. \A j : Child(j) = o => j = k
    BY <1>5 DEF Child, Open
  <2> QED
    BY <1>8, <1>11, <2>1 DEF Children
<1>18. Parents'
  BY <1>1, <1>6, <1>7, <1>15, <1>16, <1>17 DEF Parents, Installed, Valid
<1>19. Keeps(h) /\ Stands(h)
  BY <1>8 DEF Keeps, Stands
<1>20. /\ f.op = Top.op /\ f.h = Top.h /\ f.p = Top.p /\ f.agent = Top.agent
       /\ f.kids = Top.kids /\ f.callback = Top.callback /\ f.at = "enumerate"
  BY <1>2, <1>6 DEF FrameType
<1>21. Replaces(f)
  BY <1>1, <1>20, SamePlace
<1>22. Modest(f) /\ Ready(f) /\ ~ StopsBus(f)
  BY <1>1, <1>6, <1>20 DEF Modest, Ready, StopsBus
<1>23. Above(f)'
  BY <1>1, <1>3, <1>8, <1>15, <1>20 DEF Above
<1> QED
  BY <1>1, <1>2, <1>3, <1>14, <1>18, <1>19, <1>21, <1>22, <1>23, OrderGoes DEF Sound

\* CoreCloseProtocol takes from one list.
LEMMA ClosedIs ==
  ASSUME OpensTyped, Lists, NEW h \in Handles, NEW p \in Protocols, NEW agent, NEW controller,
         Close(h, p, agent, controller), protocols' = protocols
  PROVE  /\ Lists' /\ OnlyThose(h, p)
         /\ \A o : o \in Range(opens'[<<h, p>>]) <=>
              o \in Range(opens[<<h, p>>]) /\ (o.agent # agent \/ o.controller # controller)
<1>1. /\ OpensTyped'
      /\ \A o : o \in Range(opens'[<<h, p>>]) <=>
           o \in Range(opens[<<h, p>>]) /\ (o.agent # agent \/ o.controller # controller)
  BY Closed
<1>2. IsInjective(opens'[<<h, p>>])
  <2>1. IsInjective(opens[<<h, p>>])
    BY DEF Lists
  <2> QED
    BY <2>1, Closed
<1>3. OnlyThose(h, p)
  BY Closed DEF OnlyThose
<1>4. ASSUME ~ Installed(h, p)
      PROVE  opens'[<<h, p>>] = <<>>
  <2>1. opens[<<h, p>>] = <<>>
    BY <1>4 DEF Lists
  <2>2. Range(opens'[<<h, p>>]) = {}
    BY <1>1, <2>1, NothingIn
  <2>3. opens'[<<h, p>>] \in Seq(OpenType)
    BY <1>1 DEF OpensTyped
  <2> QED
    BY <2>2, <2>3, EmptyRange
<1>5. Lists'
  BY <1>2, <1>3, <1>4, ListsSet
<1> QED
  BY <1>1, <1>3, <1>5

\* The disk driver closes its controller when it has no volume there.
LEMMA DiskCloses ==
  ASSUME Known, Ordered, NEW h \in Handles, Close(h, "block", "disk", h), protocols' = protocols,
         ~ Installed(h, "volume")
  PROVE  Sound' /\ Keeps(h) /\ Stands(h) /\ Children' = Children
<1>1. OpensTyped /\ Lists /\ Parents /\ "block" \in Protocols
  BY OrderIs DEF Protocols
<1>2. Lists' /\ OnlyThose(h, "block")
  BY <1>1, ClosedIs
<1>3. \A g \in Handles : g # h => (Managed("disk", g)' <=> Managed("disk", g))
  BY <1>1, <1>2, OthersManaged, Constants
<1>4. Managed("bus", Root)' <=> Managed("bus", Root)
  BY <1>1, <1>2, OthersManaged, Constants
<1>5. Children' = Children
  BY <1>1, <1>2, OthersManaged
<1>6. Parents'
  BY <1>1, <1>3, <1>4, <1>5 DEF Parents, Installed, Valid
<1> QED
  BY <1>2, <1>4, <1>5, <1>6 DEF Sound, Keeps, Stands, Installed

LEMMA DiskGivesUpOrder ==
  ASSUME Known, Ordered, DiskGivesUp PROVE Ordered'
<1>1. /\ stack # <<>> /\ Top.op = "start" /\ Top.at = "make"
      /\ Close(Top.h, "block", "disk", Top.h) /\ Return("error") /\ protocols' = protocols
  BY Constants DEF DiskGivesUp, Starting, At
<1>2. PICK h : h = Top.h
  OBVIOUS
<1>3. h \in Handles /\ ~ Installed(h, "volume")
  BY <1>1, <1>2, OrderIs, AboveTop DEF Above
<1>4. Sound' /\ Keeps(h) /\ Stands(h)
  BY <1>1, <1>2, <1>3, DiskCloses
<1> QED
  BY <1>1, <1>2, <1>4, OrderReturns DEF Leaves

-----------------------------------------------------------------------------
(******************************** Stopping *********************************)

\* Who has called the driver's Stop.
LEMMA UnderTop ==
  ASSUME Known, Ordered, stack # <<>>, Top.op \in {"stop", "uninstall"},
         Top.op = "uninstall" => Len(stack) > 1,
         NEW e, e = stack[Len(stack) - 1]
  PROVE  /\ Len(stack) > 1 /\ Len(stack) \in Nat /\ Len(stack) - 1 \in 1 .. Len(stack) - 1
         /\ Under(e, Top) /\ Upon(e, Top) /\ Modest(e) /\ e \in FrameType /\ Formed(e)
<1>1. stack \in Seq(Frames) /\ Laid(stack) /\ Unders
  BY OrderIs, TheRest
<1>2. Len(stack) \in Nat /\ Len(stack) > 0 /\ Top = stack[Len(stack)]
  BY <1>1, TopFrame
<1>3. Len(stack) > 1
  <2>1. Len(stack) = 1 => Top = stack[1] /\ Bottom(Top)
    BY <1>1, <1>2 DEF Laid
  <2>2. Len(stack) = 1 => FALSE
    BY <2>1 DEF Bottom
  <2>3. \A n \in Nat : n > 0 /\ n # 1 => n > 1
    OBVIOUS
  <2> QED
    BY <1>2, <2>2, <2>3, Zenon
<1>4. PICK i : i = Len(stack) - 1
  OBVIOUS
<1>5. i \in 1 .. Len(stack) - 1 /\ i + 1 = Len(stack) /\ i \in DOMAIN stack
  BY <1>1, <1>2, <1>3, <1>4
<1>6. e = stack[i] /\ Top = stack[i + 1]
  BY <1>2, <1>4, <1>5
<1>7. Under(e, Top) /\ Upon(e, Top)
  BY <1>1, <1>5, <1>6 DEF Unders, Laid
<1>8. e \in Frames /\ Modest(e)
  BY <1>1, <1>5, <1>6 DEF Laid
<1> QED
  BY <1>2, <1>3, <1>4, <1>5, <1>7, <1>8 DEF Frames

\* What CoreDisconnectController finds when a driver's Stop has returned.
LEMMA StopRelies ==
  ASSUME Known, Ordered, stack # <<>>, Top.op = "stop", NEW status,
         \A e : e.at = "stopped" /\ Under(e, Top) /\ Top.agent = "bus" /\ Top.kids # <<>> =>
           /\ Managed("bus", Root)'
           /\ status = "success" /\ Full(e) => Children' = {}
  PROVE  Relies(status)
<1> SUFFICES ASSUME NEW i \in 1 .. Len(stack) - 1, NEW e, NEW f, i = Len(stack) - 1,
                    e = stack[i], f = Told(e, status)
             PROVE  Above(f)'
  BY DEF Relies
<1>1. Under(e, Top) /\ Upon(e, Top) /\ e \in FrameType /\ e = stack[Len(stack) - 1]
  BY UnderTop
<1>2. /\ f.op = e.op /\ f.at = e.at /\ f.h = e.h /\ f.agent = e.agent /\ f.child = e.child
      /\ f.drivers = e.drivers /\ f.kids = e.kids /\ f.status = status
  BY <1>1, ToldIs
<1>3. /\ e.op = "disconnect" /\ e.h = Top.h /\ Head(e.drivers) = Top.agent
      /\ e.at = "released" \/ (e.at = "stopped" /\ Top.kids # <<>>)
  BY <1>1 DEF Upon
<1>4. Top.agent = "bus" => Top.h = Root
  BY OrderIs DEF Modest
<1>5. CASE e.at = "released"
  BY <1>2, <1>3, <1>5 DEF Above
<1>6. CASE e.at = "stopped" /\ Top.kids # <<>>
  <2>1. Full(f) <=> Full(e)
    BY <1>2 DEF Full
  <2>2. Top.agent = "bus" =>
          Managed("bus", Root)' /\ (status = "success" /\ Full(e) => Children' = {})
    BY <1>1, <1>6
  <2> QED
    BY <1>2, <1>3, <1>4, <1>6, <2>1, <2>2 DEF Above
<1> QED
  BY <1>3, <1>5, <1>6

LEMMA StopRefusesOrder ==
  ASSUME Known, Ordered, StopRefuses PROVE Ordered'
<1>1. stack # <<>> /\ Top.op = "stop" /\ Top.at = "stop" /\ Return("error") /\ UNCHANGED database
  BY DEF StopRefuses, At
<1>2. Relies("error")
  <2>1. ASSUME NEW e, e.at = "stopped", Under(e, Top), Top.agent = "bus"
        PROVE  Managed("bus", Root)'
    <3>1. Managed("bus", Root)
      BY <1>1, <2>1 DEF Under, StopsBus
    <3> QED
      BY <1>1, <3>1 DEF Managed, database
  <2> QED
    BY <1>1, <2>1, StopRelies
<1> QED
  BY <1>1, <1>2, SameReturns

\* A list without repetitions and its tail.
LEMMA TailOf ==
  ASSUME NEW T, NEW s \in Seq(T), s # <<>>, IsInjective(s)
  PROVE  /\ Tail(s) \in Seq(T) /\ IsInjective(Tail(s)) /\ Head(s) \in T
         /\ Range(s) = {Head(s)} \cup Range(Tail(s)) /\ Head(s) \notin Range(Tail(s))
<1>1. PICK t : t = Tail(s)
  OBVIOUS
<1>2. /\ t \in Seq(T) /\ Len(s) \in Nat /\ Len(s) > 0 /\ Len(t) = Len(s) - 1 /\ Head(s) = s[1]
      /\ DOMAIN t = 1 .. Len(s) - 1 /\ DOMAIN s = 1 .. Len(s)
      /\ \A i \in 1 .. Len(s) - 1 : t[i] = s[i + 1]
      /\ s[1] \in T
  BY <1>1
<1>3. \A i \in DOMAIN t : i + 1 \in DOMAIN s /\ i + 1 # 1 /\ t[i] = s[i + 1]
  BY <1>2
<1>4. \A i \in DOMAIN s : i # 1 => i - 1 \in DOMAIN t /\ t[i - 1] = s[i]
  <2> SUFFICES ASSUME NEW i \in DOMAIN s, i # 1 PROVE i - 1 \in DOMAIN t /\ t[i - 1] = s[i]
    OBVIOUS
  <2>1. i - 1 \in 1 .. Len(s) - 1 /\ (i - 1) + 1 = i
    BY <1>2
  <2> QED
    BY <1>2, <2>1
<1>5. \A i, j \in DOMAIN t : t[i] = t[j] => i = j
  <2> SUFFICES ASSUME NEW i \in DOMAIN t, NEW j \in DOMAIN t, t[i] = t[j] PROVE i = j
    OBVIOUS
  <2>1. i + 1 = j + 1
    BY <1>3 DEF IsInjective
  <2> QED
    BY <1>2, <2>1
<1>6. s[1] \notin Range(t)
  <2> SUFFICES ASSUME NEW i \in DOMAIN t, t[i] = s[1] PROVE FALSE
    BY DEF Range
  <2>1. i + 1 = 1
    BY <1>2, <1>3 DEF IsInjective
  <2> QED
    BY <1>3, <2>1
<1>7. Range(s) = {s[1]} \cup Range(t)
  <2>1. ASSUME NEW x \in Range(s) PROVE x = s[1] \/ x \in Range(t)
    <3>1. PICK i \in DOMAIN s : s[i] = x
      BY <2>1 DEF Range
    <3> QED
      BY <1>4, <3>1 DEF Range
  <2>2. ASSUME NEW x \in Range(t) PROVE x \in Range(s)
    <3>1. PICK i \in DOMAIN t : t[i] = x
      BY <2>2 DEF Range
    <3> QED
      BY <1>3, <3>1 DEF Range
  <2>3. s[1] \in Range(s)
    BY <1>2 DEF Range
  <2> QED
    BY <2>1, <2>2, <2>3
<1> QED
  BY <1>1, <1>2, <1>5, <1>6, <1>7 DEF IsInjective

\* The bus driver closes its controller for a device it is to stop.
LEMMA KidClosed ==
  ASSUME Known, Ordered, NEW k \in Kids, Close(Root, "io", "bus", k), protocols' = protocols,
         Managed("bus", Root)
  PROVE  Sound' /\ Managed("bus", Root)' /\ Children' = Children \ {k}
<1>1. OpensTyped /\ Lists /\ Parents /\ "io" \in Protocols /\ Root \in Handles
  BY OrderIs, Constants DEF Protocols
<1>2. /\ Lists' /\ OnlyThose(Root, "io")
      /\ \A o : o \in Range(opens'[<<Root, "io">>]) <=>
           o \in Range(opens[<<Root, "io">>]) /\ (o.agent # "bus" \/ o.controller # k)
  BY <1>1, ClosedIs
<1>3. Managed("bus", Root)'
  <2>1. Manager("bus", Root).controller = Root /\ Root # k
    BY Constants DEF Manager, Open
  <2> QED
    BY <1>2, <2>1, Constants DEF Managed
<1>4. Children' = Children \ {k}
  <2>1. \A j : Child(j).agent = "bus" /\ Child(j).controller = j
    BY DEF Child, Open
  <2> QED
    BY <1>2, <2>1 DEF Children
<1>5. \A g \in Handles : Managed("disk", g)' <=> Managed("disk", g)
  BY <1>1, <1>2, OthersManaged, Constants
<1>6. Parents'
  BY <1>1, <1>3, <1>4, <1>5 DEF Parents, Installed, Valid
<1> QED
  BY <1>2, <1>3, <1>4, <1>6 DEF Sound

LEMMA BusStopsKidOrder ==
  ASSUME Known, Ordered, BusStopsKid PROVE Ordered'
<1>1. PICK k : k = Head(Top.kids)
  OBVIOUS
<1>2. PICK f : f = [Top EXCEPT !.at = "asked"]
  OBVIOUS
<1>3. PICK g : g = Uninstall(k, "block")
  OBVIOUS
<1>4. PICK h : h = Top.h
  OBVIOUS
<1>5. PICK e : e = stack[Len(stack) - 1]
  OBVIOUS
<1>6. /\ stack # <<>> /\ Top.op = "stop" /\ Top.at = "stop" /\ Top.agent = "bus"
      /\ Top.kids # <<>> /\ Close(h, "io", "bus", k) /\ Invoke(f, g) /\ protocols' = protocols
  BY <1>1, <1>2, <1>3, <1>4, Constants DEF BusStopsKid, Stopping, At
<1>7. /\ Top \in FrameType /\ Modest(Top) /\ Sound /\ Tables /\ Parents
      /\ Under(e, Top)
  BY <1>5, <1>6, OrderIs, UnderTop
<1>8. h = Root /\ Top.status = "" /\ IsInjective(Top.kids)
  BY <1>4, <1>6, <1>7 DEF Modest
<1>9. /\ Managed("bus", Root) /\ Range(Top.kids) \subseteq Children
      /\ ~ Top.any /\ Full(e) => Children \subseteq Range(Top.kids)
  BY <1>6, <1>7 DEF Under, StopsBus, Rest
<1>10. PICK t : t = Tail(Top.kids)
  OBVIOUS
<1>11. k \in Kids /\ Range(Top.kids) = {k} \cup Range(t) /\ k \notin Range(t)
  <2>1. Top.kids \in Seq(Kids)
    BY <1>7 DEF FrameType
  <2> QED
    BY <1>1, <1>6, <1>8, <1>10, <2>1, TailOf
<1>12. Sound' /\ Managed("bus", Root)' /\ Children' = Children \ {k}
  BY <1>6, <1>8, <1>9, <1>11, KidClosed
<1>13. Installed(k, "block")'
  <2>1. Valid(k)
    BY <1>7, <1>9, <1>11 DEF Parents
  <2>2. Installed(k, "block")
    BY <1>7, <1>11, <2>1, KidHasBlock
  <2> QED
    BY <1>6, <2>2 DEF Installed
<1>14. /\ f.op = Top.op /\ f.h = Top.h /\ f.p = Top.p /\ f.agent = Top.agent
       /\ f.kids = Top.kids /\ f.callback = Top.callback /\ f.at = "asked" /\ f.any = Top.any
       /\ f.status = Top.status
  BY <1>2, <1>7 DEF FrameType
<1>15. /\ g.op = "uninstall" /\ g.h = k /\ g.p = "block" /\ g.callback = FALSE
       /\ Modest(g) /\ Ready(g)
  <2>1. k \in Handles
    BY <1>11, Constants
  <2>2. g.op = "uninstall" /\ g.h = k /\ g.p = "block" /\ g.callback = FALSE
    BY <1>3 DEF Uninstall, Call
  <2> QED
    BY <1>3, <2>1, <2>2, NewFits
<1>16. Keeps(h) /\ Stands(h)
  BY <1>8 DEF Keeps, Stands
<1>17. Replaces(f)
  BY <1>6, <1>14, SamePlace
<1>18. Modest(f)
  BY <1>4, <1>6, <1>7, <1>8, <1>14 DEF Modest
<1>19. Upon(f, g)
  BY <1>1, <1>6, <1>8, <1>14, <1>15 DEF Upon
<1>20. Above(g)' /\ Under(f, g)'
  <2>1. Above(g)' /\ ~ StopsBus(g)
    BY <1>15, NothingHeld
  <2> QED
    BY <2>1 DEF Under, StopsBus
<1>21. Under(e, f)'
  <2>1. Rest(f) = t /\ Head(f.kids) = k
    BY <1>1, <1>10, <1>14 DEF Rest
  <2>2. Range(t) \subseteq Children'
    BY <1>9, <1>11, <1>12
  <2>3. ~ f.any /\ Full(e) => Children' \subseteq Range(t)
    BY <1>9, <1>11, <1>12, <1>14
  <2>4. Head(f.kids) \notin Children'
    BY <1>12, <2>1
  <2>5. Installed(Head(f.kids), "block")'
    BY <1>13, <2>1
  <2>6. /\ Range(Rest(f)) \subseteq Children'
        /\ ~ f.any /\ Full(e) => Children' \subseteq Range(Rest(f))
    BY <2>1, <2>2, <2>3
  <2> QED
    BY <1>12, <2>4, <2>5, <2>6 DEF Under
<1>22. /\ StopsBus(f) => g.h = Head(f.kids)
       /\ g.h = Top.h \/ Top.h = Root
       /\ \A d : d = stack[Len(stack) - 1] /\ StopsBus(f) => Under(d, f)'
  BY <1>1, <1>4, <1>5, <1>8, <1>14, <1>15, <1>21
<1> QED
  BY <1>4, <1>6, <1>12, <1>15, <1>16, <1>17, <1>18, <1>19, <1>20, <1>22, OrderCalls

\* A device that could not be removed stays the bus driver's.
LEMMA KidStays ==
  ASSUME Known, Ordered, NEW k \in Kids, protocols' = protocols, Managed("bus", Root),
         opens' = [opens EXCEPT ![<<Root, "io">>] = Append(opens[<<Root, "io">>], Child(k))],
         k \notin Children, Installed(k, "block")
  PROVE  Sound' /\ Managed("bus", Root)' /\ Children' = Children \cup {k}
<1>1. OpensTyped /\ Lists /\ Parents /\ "io" \in Protocols /\ Root \in Handles
  BY OrderIs, Constants DEF Protocols
<1>2. PICK h : h = Root
  OBVIOUS
<1>3. PICK o : o = Child(k)
  OBVIOUS
<1>4. /\ h \in Handles /\ o \in Openings(h, "io")
      /\ opens' = [opens EXCEPT ![<<h, "io">>] = Append(opens[<<h, "io">>], o)]
  BY <1>1, <1>2, <1>3, MayBeThere
<1>5. o \notin Range(opens[<<h, "io">>]) /\ Installed(h, "io")
  BY <1>1, <1>2, <1>3, ManagedInstalled, Constants DEF Children
<1>6. Range(opens'[<<h, "io">>]) = Range(opens[<<h, "io">>]) \cup {o}
  <2>1. opens'[<<h, "io">>] = Append(opens[<<h, "io">>], o)
    BY <1>1, <1>4 DEF OpensTyped
  <2>2. PICK s : s = opens[<<h, "io">>]
    OBVIOUS
  <2>3. s \in Seq(Openings(h, "io"))
    BY <1>1, <1>4, <2>2 DEF OpensTyped
  <2>4. Range(Append(s, o)) = Range(s) \cup {o}
    BY <1>4, <2>3, AppendIn
  <2> QED
    BY <2>1, <2>2, <2>4
<1>7. IsInjective(opens'[<<h, "io">>])
  <2>1. IsInjective(opens[<<h, "io">>])
    BY <1>1, <1>4 DEF Lists
  <2> QED
    BY <1>1, <1>4, <1>5, <2>1, OneMore
<1>8. OnlyThose(h, "io")
  BY <1>1, <1>4, OneMore DEF OnlyThose
<1>9. Lists'
  BY <1>1, <1>4, <1>5, <1>7, <1>8, ListsSet
<1>10. Managed("bus", Root)'
  BY <1>2, <1>6, Constants DEF Managed
<1>11. \A g \in Handles : Managed("disk", g)' <=> Managed("disk", g)
  BY <1>1, <1>4, <1>8, OthersManaged, Constants
<1>12. Children' = Children \cup {k}
  <2>1. \A j : Child(j) = o <=> j = k
    BY <1>3 DEF Child, Open
  <2> QED
    BY <1>2, <1>6, <2>1 DEF Children
<1>13. Valid(k)
  BY HasValid
<1>14. Parents'
  BY <1>1, <1>10, <1>11, <1>12, <1>13 DEF Parents, Installed, Valid
<1> QED
  BY <1>9, <1>10, <1>12, <1>14 DEF Sound

LEMMA BusStoppedKidOrder ==
  ASSUME Known, Ordered, BusStoppedKid PROVE Ordered'
<1>1. PICK k : k = Head(Top.kids)
  OBVIOUS
<1>2. PICK t : t = Tail(Top.kids)
  OBVIOUS
<1>3. PICK h : h = Top.h
  OBVIOUS
<1>4. PICK e : e = stack[Len(stack) - 1]
  OBVIOUS
<1>5. PICK failed : failed = (Top.any \/ Top.status = "error")
  OBVIOUS
<1>6. /\ stack # <<>> /\ Top.op = "stop" /\ Top.at = "asked" /\ Top.agent = "bus"
      /\ protocols' = protocols
      /\ opens' = IF Top.status = "success" THEN opens
                  ELSE [opens EXCEPT ![<<h, "io">>] = Append(opens[<<h, "io">>], Child(k))]
      /\ IF t = <<>> THEN Return(IF failed THEN "error" ELSE "success")
         ELSE GoOn([Top EXCEPT !.at = "stop", !.kids = t, !.any = failed, !.status = ""])
  BY <1>1, <1>2, <1>3, <1>5 DEF BusStoppedKid, Stopping, At
<1>7. /\ Top \in FrameType /\ Formed(Top) /\ Modest(Top) /\ Ready(Top) /\ Sound
      /\ Under(e, Top)
  BY <1>4, <1>6, OrderIs, UnderTop
<1>8. h = Root /\ IsInjective(Top.kids) /\ Top.kids # <<>> /\ Top.status \in {"success", "error"}
  BY <1>3, <1>6, <1>7 DEF Modest, Formed, Ready, FrameType
<1>9. /\ k \in Kids /\ t \in Seq(Kids) /\ IsInjective(t) /\ Range(Top.kids) = {k} \cup Range(t)
  <2>1. Top.kids \in Seq(Kids)
    BY <1>7 DEF FrameType
  <2> QED
    BY <1>1, <1>2, <1>8, <2>1, TailOf
<1>10. /\ Managed("bus", Root) /\ Range(t) \subseteq Children
       /\ ~ Top.any /\ Full(e) => Children \subseteq Range(t)
       /\ k \notin Children
       /\ Top.status = "error" => Installed(k, "block")
  BY <1>1, <1>2, <1>6, <1>7 DEF Under, StopsBus, Rest
<1>11. /\ Sound' /\ Managed("bus", Root)' /\ Children \subseteq Children'
       /\ ~ failed => Children' = Children
  <2>1. CASE Top.status = "success"
    <3>1. UNCHANGED database
      BY <1>6, <2>1 DEF database
    <3>2. Sound'
      BY <1>7, <3>1, SameIs
    <3> QED
      BY <1>10, <3>1, <3>2 DEF Managed, Children, database
  <2>2. CASE Top.status = "error"
    <3>1. opens' = [opens EXCEPT ![<<Root, "io">>] = Append(opens[<<Root, "io">>], Child(k))]
      BY <1>6, <1>8, <2>2
    <3>2. Sound' /\ Managed("bus", Root)' /\ Children' = Children \cup {k}
      BY <1>6, <1>9, <1>10, <2>2, <3>1, KidStays
    <3> QED
      BY <1>5, <2>2, <3>2
  <2> QED
    BY <1>8, <2>1, <2>2
<1>12. Keeps(h) /\ Stands(h)
  BY <1>8 DEF Keeps, Stands
<1>13. ~ failed => ~ Top.any
  BY <1>5
<1>14. CASE t = <<>>
  <2>1. PICK status : status = IF failed THEN "error" ELSE "success"
    OBVIOUS
  <2>2. Return(status) /\ status \in {"success", "error"} /\ (status = "success" => ~ failed)
    BY <1>6, <1>14, <2>1
  <2>3. Relies(status)
    <3>1. ASSUME NEW d, Under(d, Top), status = "success", Full(d)
          PROVE  Children' = {}
      <4>1. Children \subseteq Range(t)
        BY <1>2, <1>6, <1>13, <2>2, <3>1 DEF Under, StopsBus, Rest
      <4> QED
        BY <1>11, <1>14, <2>2, <3>1, <4>1, NothingIn
    <3> QED
      BY <1>6, <1>11, <3>1, StopRelies
  <2> QED
    BY <1>3, <1>6, <1>11, <1>12, <2>2, <2>3, OrderReturns DEF Leaves
<1>15. CASE t # <<>>
  <2>1. PICK f : f = [Top EXCEPT !.at = "stop", !.kids = t, !.any = failed, !.status = ""]
    OBVIOUS
  <2>2. GoOn(f)
    BY <1>6, <1>15, <2>1
  <2>3. /\ f.op = Top.op /\ f.h = Top.h /\ f.p = Top.p /\ f.agent = Top.agent
        /\ f.kids = t /\ f.callback = Top.callback /\ f.at = "stop" /\ f.any = failed
        /\ f.status = ""
    BY <1>7, <2>1 DEF FrameType
  <2>4. Replaces(f)
    BY <1>6, <1>8, <1>15, <2>3, SamePlace
  <2>5. Modest(f)
    BY <1>3, <1>6, <1>8, <1>9, <1>15, <2>3 DEF Modest
  <2>6. Ready(f) /\ Above(f)'
    BY <1>6, <2>3 DEF Ready, Above
  <2>7. Under(e, f)'
    <3>1. Rest(f) = t
      BY <2>3 DEF Rest
    <3>2. Range(t) \subseteq Children'
      BY <1>10, <1>11
    <3>3. ~ f.any /\ Full(e) => Children' \subseteq Range(t)
      BY <1>10, <1>11, <1>13, <2>3
    <3>4. /\ Range(Rest(f)) \subseteq Children'
          /\ ~ f.any /\ Full(e) => Children' \subseteq Range(Rest(f))
      BY <3>1, <3>2, <3>3
    <3> QED
      BY <1>11, <2>3, <3>4 DEF Under
  <2>8. \A d : d = stack[Len(stack) - 1] /\ StopsBus(f) => Under(d, f)'
    BY <1>4, <2>7
  <2> QED
    BY <1>3, <1>6, <1>11, <1>12, <2>2, <2>4, <2>5, <2>6, <2>8, OrderGoes
<1> QED
  BY <1>14, <1>15

\* The bus driver gives up its controller: it has no children left.
LEMMA BusStopsOrder ==
  ASSUME Known, Ordered, BusStops PROVE Ordered'
<1>1. PICK h : h = Top.h
  OBVIOUS
<1>2. PICK e : e = stack[Len(stack) - 1]
  OBVIOUS
<1>3. /\ stack # <<>> /\ Top.op = "stop" /\ Top.at = "stop" /\ Top.agent = "bus"
      /\ Top.kids = <<>> /\ Close(h, "io", "bus", h) /\ Return("success")
      /\ protocols' = protocols
  BY <1>1 DEF BusStops, Stopping, At
<1>4. /\ Top \in FrameType /\ Modest(Top) /\ Lists /\ Parents /\ OpensTyped
      /\ Under(e, Top) /\ Upon(e, Top) /\ "io" \in Protocols
  BY <1>2, <1>3, OrderIs, UnderTop DEF Protocols
<1>5. h = Root /\ ~ Top.any /\ h \in Handles
  BY <1>1, <1>3, <1>4, Constants DEF Modest
<1>6. Full(e)
  BY <1>3, <1>4 DEF Upon, Full
<1>7. Children = {}
  <2>1. Children \subseteq Range(Top.kids)
    BY <1>3, <1>4, <1>5, <1>6 DEF Under, StopsBus, Rest
  <2> QED
    BY <1>3, <2>1, NothingIn
<1>8. /\ Lists' /\ OnlyThose(h, "io")
      /\ \A o : o \in Range(opens'[<<h, "io">>]) => o \in Range(opens[<<h, "io">>])
  BY <1>3, <1>4, <1>5, ClosedIs
<1>9. Children' = {}
  BY <1>5, <1>7, <1>8 DEF Children
<1>10. \A g \in Handles : Managed("disk", g)' <=> Managed("disk", g)
  BY <1>4, <1>5, <1>8, OthersManaged, Constants
<1>11. Parents'
  BY <1>3, <1>4, <1>9, <1>10 DEF Parents, Installed
<1>12. Keeps(h) /\ Stands(h)
  BY <1>5 DEF Keeps, Stands
<1>13. Relies("success")
  BY <1>3, StopRelies
<1> QED
  BY <1>1, <1>3, <1>8, <1>11, <1>12, <1>13, OrderReturns DEF Sound, Leaves

LEMMA DiskStopsOrder ==
  ASSUME Known, Ordered, DiskStops PROVE Ordered'
<1>1. PICK f : f = [Top EXCEPT !.at = "asked"]
  OBVIOUS
<1>2. PICK g : g = Uninstall(Top.h, "volume")
  OBVIOUS
<1>3. /\ stack # <<>> /\ Top.op = "stop" /\ Top.at = "stop" /\ Top.agent = "disk"
      /\ Invoke(f, g) /\ UNCHANGED database
  BY <1>1, <1>2, Constants DEF DiskStops, Stopping, At
<1>4. Top \in FrameType /\ Top.h \in Handles /\ Modest(Top) /\ Sound
  BY <1>3, OrderIs
<1>5. /\ f.op = Top.op /\ f.h = Top.h /\ f.p = Top.p /\ f.agent = Top.agent
      /\ f.kids = Top.kids /\ f.callback = Top.callback /\ f.at = "asked" /\ f.any = Top.any
      /\ f.status = Top.status
  BY <1>1, <1>4 DEF FrameType
<1>6. /\ g.op = "uninstall" /\ g.h = Top.h /\ g.p = "volume" /\ g.callback = FALSE
      /\ Modest(g) /\ Ready(g)
  <2>1. g.op = "uninstall" /\ g.h = Top.h /\ g.p = "volume" /\ g.callback = FALSE
    BY <1>2 DEF Uninstall, Call
  <2> QED
    BY <1>2, <1>4, <2>1, NewFits
<1>7. Top.status = ""
  BY <1>3, <1>4 DEF Modest
<1>8. Replaces(f)
  BY <1>3, <1>5, SamePlace
<1>9. Modest(f) /\ ~ StopsBus(f)
  BY <1>3, <1>4, <1>5 DEF Modest, StopsBus
<1>10. Upon(f, g)
  BY <1>3, <1>5, <1>6, <1>7 DEF Upon
<1>11. Above(g)' /\ ~ StopsBus(g)
  BY <1>6, NothingHeld
<1>12. Alike /\ Lists'
  BY <1>3, <1>4, SameIs DEF Sound
<1> QED
  BY <1>3, <1>6, <1>8, <1>9, <1>10, <1>11, <1>12, AlikeCalls

LEMMA DiskStoppedOrder ==
  ASSUME Known, Ordered, DiskStopped PROVE Ordered'
<1>1. PICK h : h = Top.h
  OBVIOUS
<1>2. PICK status : status = Top.status
  OBVIOUS
<1>3. /\ stack # <<>> /\ Top.op = "stop" /\ Top.at = "asked" /\ Top.agent = "disk"
      /\ Return(status) /\ protocols' = protocols
      /\ IF status = "success" THEN Close(h, "block", "disk", h) ELSE UNCHANGED opens
  BY <1>1, <1>2 DEF DiskStopped, Stopping, At
<1>4. Top \in FrameType /\ Ready(Top) /\ Above(Top) /\ Sound /\ h \in Handles
  BY <1>1, <1>3, OrderIs, AboveTop
<1>5. status \in {"success", "error"}
  BY <1>2, <1>3, <1>4 DEF Ready, FrameType
<1>6. Sound' /\ Keeps(h) /\ Stands(h)
  <2>1. CASE status = "success"
    <3>1. ~ Installed(h, "volume")
      BY <1>1, <1>2, <1>3, <1>4, <2>1 DEF Above
    <3> QED
      BY <1>3, <1>4, <2>1, <3>1, DiskCloses
  <2>2. CASE status # "success"
    <3>1. UNCHANGED database
      BY <1>3, <2>2 DEF database
    <3>2. Sound' /\ Alike /\ Parents
      BY <1>4, <3>1, SameIs DEF Sound
    <3> QED
      BY <1>4, <3>2, AlikeIs
  <2> QED
    BY <2>1, <2>2
<1>7. Relies(status)
  BY <1>3, StopRelies
<1> QED
  BY <1>1, <1>3, <1>5, <1>6, <1>7, OrderReturns DEF Leaves

LEMMA FsStopsOrder ==
  ASSUME Known, Ordered, FsStops PROVE Ordered'
<1>1. PICK h : h = Top.h
  OBVIOUS
<1>2. /\ stack # <<>> /\ Top.op = "stop" /\ Top.agent = "fs"
      /\ Return("success") /\ protocols' = protocols /\ Close(h, "volume", "fs", h)
  BY <1>1 DEF FsStops, Stopping, At
<1>3. OpensTyped /\ Lists /\ h \in Handles /\ "volume" \in Protocols
  BY <1>1, <1>2, OrderIs DEF Protocols
<1>4. /\ Lists' /\ OnlyThose(h, "volume")
      /\ \A o : o \in Range(opens'[<<h, "volume">>]) <=>
           o \in Range(opens[<<h, "volume">>]) /\ (o.agent # "fs" \/ o.controller # h)
  BY <1>2, <1>3, ClosedIs
<1>5. \A k : Child(k).agent # "fs"
  BY DEF Child, Open
<1>6. \A d \in {"bus", "disk"} : Uses[d] # "volume"
  BY Constants
<1>7. Alike
  BY <1>2, <1>3, <1>4, <1>5, <1>6, AlikeSet
<1>8. Relies("success")
  BY <1>2, StopRelies
<1> QED
  BY <1>2, <1>4, <1>7, <1>8, AlikeReturns

-----------------------------------------------------------------------------
(******************************** Removing *********************************)

\* An interface goes that no driver has opened.
LEMMA RemovedIs ==
  ASSUME Tables, Lists, NEW h \in Handles, NEW p \in Protocols, RemoveInterface(h, p),
         \A o \in Range(opens[<<h, p>>]) : o.how \notin {"driver", "child"}
  PROVE  /\ Lists' /\ Children' = Children
         /\ \A d \in Drivers, g \in Handles : Managed(d, g)' <=> Managed(d, g)
         /\ \A g \in Handles : \A q : Installed(g, q)' <=> Installed(g, q) /\ ~ (g = h /\ q = p)
         /\ \A g \in Handles : g # h => (Valid(g)' <=> Valid(g))
<1>1. /\ protocols' = [protocols EXCEPT ![h] = Without(protocols[h], p)]
      /\ opens' = [opens EXCEPT ![<<h, p>>] = <<>>]
  BY DEF RemoveInterface
<1>2. OpensTyped /\ protocols \in [Handles -> Seq(Protocols)]
  BY DEF Tables
<1>3. opens'[<<h, p>>] = <<>> /\ OnlyThose(h, p)
  BY <1>1, <1>2, NoOpensLeft DEF OnlyThose
<1>4. PICK t : t = Without(protocols[h], p)
  OBVIOUS
<1>5. Range(t) = Range(protocols[h]) \ {p} /\ IsInjective(t)
  <2>1. PICK s : s = protocols[h]
    OBVIOUS
  <2>2. s \in Seq(Protocols) /\ IsInjective(s)
    BY <1>2, <2>1 DEF Lists
  <2>3. Range(Without(s, p)) = Range(s) \ {p}
    BY <2>2, WithoutIt
  <2>4. IsInjective(Without(s, p))
    BY <2>2, WithoutIt
  <2> QED
    BY <1>4, <2>1, <2>3, <2>4
<1>6. protocols'[h] = t /\ \A g \in Handles : g # h => protocols'[g] = protocols[g]
  BY <1>1, <1>2, <1>4
<1>7. \A g \in Handles : \A q : Installed(g, q)' <=> Installed(g, q) /\ ~ (g = h /\ q = p)
  BY <1>5, <1>6 DEF Installed
<1>8. \A g \in Handles : g # h => (Valid(g)' <=> Valid(g))
  BY <1>6 DEF Valid
<1>9. \A d, k : /\ Manager(d, k) \notin Range(opens[<<h, p>>])
                /\ Child(k) \notin Range(opens[<<h, p>>])
  BY DEF Manager, Child, Open
<1>10. ASSUME NEW d \in Drivers, NEW g \in Handles
       PROVE  Managed(d, g)' <=> Managed(d, g)
  <2>1. CASE g = h /\ Uses[d] = p
    BY <1>3, <1>9, <2>1, NothingIn DEF Managed
  <2>2. CASE g # h \/ Uses[d] # p
    BY <1>3, <2>2, OthersManaged
  <2> QED
    BY <2>1, <2>2
<1>11. Children' = Children
  <2>1. CASE h = Root /\ p = "io"
    BY <1>3, <1>9, <2>1, NothingIn DEF Children
  <2>2. CASE h # Root \/ p # "io"
    BY <1>3, <2>2, OthersManaged
  <2> QED
    BY <2>1, <2>2
<1>12. Lists'
  <2>1. ASSUME NEW g \in Handles
        PROVE  IsInjective(protocols'[g]) /\ (Installed(g, "io")' => g = Root)
    BY <1>5, <1>6, <1>7 DEF Lists
  <2>2. ASSUME NEW g \in Handles, NEW q \in Protocols
        PROVE  IsInjective(opens'[<<g, q>>]) /\ (~ Installed(g, q)' => opens'[<<g, q>>] = <<>>)
    <3>1. CASE g = h /\ q = p
      BY <1>3, <3>1, NothingIn
    <3>2. CASE g # h \/ q # p
      BY <1>3, <1>7, <3>2 DEF Lists, OnlyThose
    <3> QED
      BY <3>1, <3>2
  <2> QED
    BY <2>1, <2>2 DEF Lists
<1> QED
  BY <1>7, <1>8, <1>10, <1>11, <1>12

\* The device that the bus driver is stopping is not its child any more.
LEMMA BusIsAsked ==
  ASSUME Known, Ordered, stack # <<>>, Len(stack) > 1, NEW e, e = stack[Len(stack) - 1],
         e.op = "stop", e.agent = "bus", e.at = "asked"
  PROVE  Head(e.kids) \notin Children
<1>1. stack \in Seq(Frames) /\ Laid(stack) /\ Unders
  BY OrderIs, TheRest
<1>2. PICK n : n = Len(stack)
  OBVIOUS
<1>3. n \in Nat /\ n > 1
  BY <1>1, <1>2
<1>4. n # 2
  <2>1. n = 2 => e = stack[1]
    BY <1>2
  <2>2. Bottom(stack[1])
    BY <1>1 DEF Laid
  <2> QED
    BY <2>1, <2>2 DEF Bottom
<1>5. \A m \in Nat : m > 1 /\ m # 2 => m - 2 \in 1 .. m - 1 /\ (m - 2) + 1 = m - 1
  OBVIOUS
<1>6. PICK i : i = n - 2
  OBVIOUS
<1>7. i \in 1 .. n - 1 /\ i + 1 = n - 1
  BY <1>3, <1>4, <1>5, <1>6, Zenon
<1>8. \A f : f = stack[i] => Under(f, e)
  BY <1>1, <1>2, <1>7 DEF Unders
<1> QED
  BY <1>8 DEF Under, StopsBus

\* An uninstall removes the controller's interface, or a device's for the bus
\* driver, or a volume for the disk driver.
LEMMA UninstallsOrder ==
  ASSUME Known, Ordered, Unused, Uninstalls PROVE Ordered'
<1>1. PICK h : h = Top.h
  OBVIOUS
<1>2. PICK p : p = Top.p
  OBVIOUS
<1>3. PICK e : e = stack[Len(stack) - 1]
  OBVIOUS
<1>4. /\ stack # <<>> /\ Top.op = "uninstall" /\ RemoveInterface(h, p) /\ Return("success")
      /\ \A o \in Range(opens[<<h, p>>]) : o.how \notin {"driver", "child"}
  BY <1>1, <1>2, UnusedIs DEF Uninstalls
<1>5. /\ Tables /\ Sound /\ Lists /\ Parents /\ h \in Handles /\ p \in Protocols /\ Laid(stack)
      /\ stack \in Seq(Frames)
  BY <1>1, <1>2, <1>4, OrderIs, TheRest DEF Formed
<1>6. /\ Lists' /\ Children' = Children
      /\ \A d \in Drivers, g \in Handles : Managed(d, g)' <=> Managed(d, g)
      /\ \A g \in Handles : \A q : Installed(g, q)' <=> Installed(g, q) /\ ~ (g = h /\ q = p)
      /\ \A g \in Handles : g # h => (Valid(g)' <=> Valid(g))
  BY <1>4, <1>5, RemovedIs
<1>7. Len(stack) \in Nat /\ Len(stack) > 0 /\ Top = stack[Len(stack)]
  BY <1>4, <1>5, TopFrame
<1>8. ASSUME ~ Len(stack) > 1
      PROVE  h = Root
  <2>1. \A n \in Nat : n > 0 /\ ~ n > 1 => n = 1
    OBVIOUS
  <2>2. Top = stack[1]
    BY <1>7, <1>8, <2>1
  <2>3. Bottom(Top)
    BY <1>4, <1>5, <2>2 DEF Laid
  <2> QED
    BY <1>1, <1>4, <2>3 DEF Bottom
<1>9. ASSUME Len(stack) > 1
      PROVE  /\ Under(e, Top) /\ Upon(e, Top) /\ e \in FrameType /\ Formed(e) /\ ~ Top.callback
             /\ e.op = "stop" /\ e.at = "asked"
             /\ \/ e.agent = "bus" /\ p = "block" /\ h = Head(e.kids) /\ h \notin Children
                \/ e.agent = "disk" /\ p = "volume" /\ h = e.h
  <2>1. Under(e, Top) /\ Upon(e, Top) /\ e \in FrameType /\ Formed(e)
    BY <1>3, <1>4, <1>9, UnderTop
  <2>2. /\ e.op = "stop" /\ e.at = "asked" /\ ~ Top.callback
        /\ \/ e.agent = "bus" /\ p = "block" /\ h = Head(e.kids)
           \/ e.agent = "disk" /\ p = "volume" /\ h = e.h
    BY <1>1, <1>2, <1>4, <2>1 DEF Upon
  <2>3. e.agent = "bus" => Head(e.kids) \notin Children
    BY <1>3, <1>4, <1>9, <2>2, BusIsAsked, Zenon
  <2> QED
    BY <2>1, <2>2, <2>3
<1>10. Parents'
  <2>1. ASSUME NEW g \in Handles, Installed(g, "volume")'
        PROVE  Managed("disk", g)'
    BY <1>5, <1>6, <2>1, Constants DEF Parents
  <2>2. ASSUME NEW k \in Children'
        PROVE  Managed("bus", Root)' /\ Valid(k)'
    <3>1. k \in Children /\ k \in Kids /\ k \in Handles /\ k # Root
      BY <1>6, Constants DEF Children
    <3>2. Managed("bus", Root)' /\ Valid(k)
      BY <1>5, <1>6, <3>1, Constants DEF Parents
    <3>3. CASE k # h
      BY <1>6, <3>1, <3>2, <3>3
    <3>4. CASE k = h
      <4>1. p = "volume"
        BY <1>8, <1>9, <3>1, <3>4
      <4>2. Installed(k, "block")
        BY <1>5, <3>1, <3>2, KidHasBlock
      <4>3. Installed(k, "block")'
        BY <1>6, <3>1, <4>1, <4>2
      <4>4. PICK r : r = protocols'
        OBVIOUS
      <4>5. "block" \in Range(r[k])
        BY <4>3, <4>4 DEF Installed
      <4>6. r[k] # <<>>
        BY <4>5, NothingIn
      <4> QED
        BY <3>2, <4>4, <4>6 DEF Valid
    <3> QED
      BY <3>3, <3>4
  <2> QED
    BY <2>1, <2>2 DEF Parents
<1>11. Keeps(h)
  BY <1>6, Constants DEF Keeps
<1>12. Leaves(h, "success")
  <2>1. CASE ~ Len(stack) > 1
    BY <1>8, <2>1 DEF Leaves, Stands
  <2>2. CASE Len(stack) > 1
    <3>1. CASE e.agent = "bus"
      BY <1>3, <1>9, <2>2, <3>1 DEF Leaves, StopsBus
    <3>2. CASE e.agent = "disk" /\ p = "volume"
      BY <1>5, <1>6, <3>2 DEF Leaves, Stands
    <3> QED
      BY <1>9, <2>2, <3>1, <3>2
  <2> QED
    BY <2>1, <2>2
<1>13. Relies("success")
  <2> SUFFICES ASSUME NEW i \in 1 .. Len(stack) - 1, NEW d, NEW f, i = Len(stack) - 1,
                      d = stack[i], f = Told(d, "success")
               PROVE  Above(f)'
    BY DEF Relies
  <2>1. d = e
    BY <1>3
  <2>2. Len(stack) > 1
    <3>1. \A n \in Nat : \A j \in 1 .. n - 1 : n > 1
      OBVIOUS
    <3> QED
      BY <1>7, <3>1
  <2>3. f.op = "stop" /\ f.h = e.h /\ f.agent = e.agent
    BY <1>9, <2>1, <2>2, ToldIs
  <2>4. f.agent = "disk" => ~ Installed(f.h, "volume")'
    BY <1>5, <1>6, <1>9, <2>2, <2>3
  <2> QED
    BY <2>3, <2>4 DEF Above
<1> QED
  BY <1>1, <1>4, <1>6, <1>10, <1>11, <1>12, <1>13, OrderReturns DEF Sound

-----------------------------------------------------------------------------
(***************************** Calls and theorems **************************)

\* The notification function disconnects, removes and opens exclusively nothing.
Harmless ==
  \A s \in Scenarios :
    s.callbacks \cap {"disconnect", "uninstall", "reinstall", "exclusive"} = {}

LEMMA CallsBegin ==
  ASSUME Known, Ordered, Harmless, NEW op, NEW f, Begin(op, f)
  PROVE  op \in {"disconnect", "uninstall", "reinstall", "exclusive"} => stack = <<>>
<1>1. scenario \in Scenarios
  BY DEF Known, Typed
<1> QED
  BY <1>1 DEF Begin, MayCall, Harmless

LEMMA CallConnectOrder ==
  ASSUME Known, Ordered, NEW h \in Handles, NEW recursive \in BOOLEAN, CallConnect(h, recursive)
  PROVE  Ordered'
<1>1. PICK f : f = Connect(h, recursive)
  OBVIOUS
<1>2. Begin("connect", f) /\ \A i \in DOMAIN stack : stack[i].op # "disconnect"
  BY <1>1 DEF CallConnect
<1>3. f \in FrameType /\ Modest(f)
  BY <1>1, NewFrames, NewFits DEF Frames
<1>4. f.op = "connect" /\ f.at = "collect" /\ f.status = ""
  <2>1. IsNew(Connect(h, recursive), "connect", "collect", h)
    BY NewIs
  <2>2. IsNew(f, "connect", "collect", h)
    BY <1>1, <2>1, Zenon
  <2> QED
    BY <2>2 DEF IsNew
<1> QED
  BY <1>2, <1>3, <1>4, OrderBegins

LEMMA CallDisconnectOrder ==
  ASSUME Known, Ordered, Harmless, NEW h \in Handles, NEW agent \in Drivers \cup {""},
         NEW child \in Kids \cup {Null}, CallDisconnect(h, agent, child)
  PROVE  Ordered'
<1>1. PICK f : f = Disconnect(h, agent, child)
  OBVIOUS
<1>2. Begin("disconnect", f)
  BY <1>1 DEF CallDisconnect
<1>3. stack = <<>>
  BY <1>2, CallsBegin
<1>4. f \in FrameType /\ Modest(f)
  BY <1>1, NewFrames, NewFits DEF Frames
<1>5. f.op = "disconnect" /\ f.at \in {"agents", "next"} /\ f.status = ""
  <2>1. \E at \in {"agents", "next"} : IsNew(Disconnect(h, agent, child), "disconnect", at, h)
    BY NewIs
  <2>2. PICK at \in {"agents", "next"} : IsNew(f, "disconnect", at, h)
    BY <1>1, <2>1, Zenon
  <2> QED
    BY <2>2 DEF IsNew
<1> QED
  BY <1>2, <1>3, <1>4, <1>5, OrderBegins

LEMMA CallUninstallOrder ==
  ASSUME Known, Ordered, Harmless, CallUninstall PROVE Ordered'
<1>1. PICK f : f = Uninstall(Root, "io")
  OBVIOUS
<1>2. Begin("uninstall", f) /\ Root \in Handles /\ "io" \in Protocols
  BY <1>1, Constants DEF CallUninstall, Protocols
<1>3. stack = <<>>
  BY <1>2, CallsBegin
<1>4. f \in FrameType /\ Modest(f)
  BY <1>1, <1>2, NewFrames, NewFits DEF Frames
<1>5. f.op = "uninstall" /\ f.at = "find" /\ f.status = "" /\ f.h = Root /\ f.p = "io"
  <2>1. IsNew(Uninstall(Root, "io"), "uninstall", "find", Root) /\ Uninstall(Root, "io").p = "io"
    BY <1>2, NewIs
  <2>2. IsNew(f, "uninstall", "find", Root) /\ f.p = "io"
    BY <1>1, <2>1, Zenon
  <2> QED
    BY <2>2 DEF IsNew
<1> QED
  BY <1>2, <1>3, <1>4, <1>5, OrderBegins

LEMMA CallOpensOrder ==
  ASSUME Known, Ordered, Harmless, NEW h \in Handles, NEW p \in Protocols,
         CallReinstall(h, p) \/ CallExclusive(h, p)
  PROVE  Ordered'
<1>1. PICK f : /\ f \in {Reinstall(h, p), Exclusive(h, p)}
               /\ \E op \in {"reinstall", "exclusive"} : Begin(op, f)
  BY DEF CallReinstall, CallExclusive
<1>2. PICK op \in {"reinstall", "exclusive"} : Begin(op, f)
  BY <1>1
<1>3. stack = <<>>
  BY <1>2, CallsBegin
<1>4. f \in FrameType /\ Modest(f)
  BY <1>1, NewFrames, NewFits DEF Frames
<1>5. f.op \in {"reinstall", "open"} /\ f.at \in {"find", "open"} /\ f.status = ""
  <2>1. /\ IsNew(Reinstall(h, p), "reinstall", "find", h)
        /\ IsNew(Exclusive(h, p), "open", "open", h)
    BY NewIs
  <2>2. IsNew(f, "reinstall", "find", h) \/ IsNew(f, "open", "open", h)
    BY <1>1, <2>1
  <2> QED
    BY <2>2 DEF IsNew
<1> QED
  BY <1>2, <1>3, <1>4, <1>5, OrderBegins

LEMMA CallInstallOrder ==
  ASSUME Known, Ordered, CallInstall PROVE Ordered'
<1>1. ~ Installed(Root, "io") /\ Install(Root, "io") /\ stack' = stack
  BY DEF CallInstall
<1>2. Tables /\ Lists /\ Root \in Handles /\ "io" \in Protocols
  BY OrderIs, Constants DEF Protocols
<1>3. /\ Lists' /\ opens' = opens
      /\ \A g \in Handles : \A q : Installed(g, q)' <=> Installed(g, q) \/ (g = Root /\ q = "io")
      /\ \A g \in Handles : Valid(g)' <=> Valid(g) \/ g = Root
  BY <1>1, <1>2, InstallIs
<1>4. Alike
  BY <1>3, Constants DEF Alike, Managed, Children
<1> QED
  BY <1>1, <1>3, <1>4, OrderBetween

LEMMA CallGetOrder ==
  ASSUME Known, Ordered, NEW h \in Handles, NEW p \in Protocols, CallGet(h, p) PROVE Ordered'
<1>1. PICK o : o = Open("core", Null, "get")
  OBVIOUS
<1>2. /\ Installed(h, p) /\ opens' = [opens EXCEPT ![<<h, p>>] = Opened(h, p, o)]
      /\ protocols' = protocols /\ stack' = stack
  BY <1>1 DEF CallGet
<1>3. OpensTyped /\ Lists /\ o \in Openings(h, p)
  BY <1>1, OrderIs, MayBeThere
<1>4. Range(opens'[<<h, p>>]) \in {Range(opens[<<h, p>>]), Range(opens[<<h, p>>]) \cup {o}}
  BY <1>2, <1>3, OpensOnce
<1>5. IsInjective(opens'[<<h, p>>])
  <2>1. IsInjective(opens[<<h, p>>])
    BY <1>3 DEF Lists
  <2> QED
    BY <1>2, <1>3, <2>1, OpensOnce
<1>6. OnlyThose(h, p)
  BY <1>2, <1>3, OpensOnce DEF OnlyThose
<1>7. \A d : Manager(d, h) # o /\ Child(d) # o
  BY <1>1 DEF Manager, Child, Open
<1>8. \A x : x # o => (x \in Range(opens'[<<h, p>>]) <=> x \in Range(opens[<<h, p>>]))
  BY <1>4
<1>9. Alike
  BY <1>2, <1>6, <1>7, <1>8, AlikeSet
<1>10. Lists'
  BY <1>2, <1>3, <1>5, <1>6, ListsSet
<1> QED
  BY <1>2, <1>9, <1>10, OrderBetween

LEMMA CallCloseOrder ==
  ASSUME Known, Ordered, NEW h \in Handles, NEW p \in Protocols, CallClose(h, p) PROVE Ordered'
<1>1. Close(h, p, "app", Null) /\ protocols' = protocols /\ stack' = stack
  BY DEF CallClose
<1>2. OpensTyped /\ Lists
  BY OrderIs
<1>3. /\ Lists' /\ OnlyThose(h, p)
      /\ \A o : o \in Range(opens'[<<h, p>>]) <=>
           o \in Range(opens[<<h, p>>]) /\ (o.agent # "app" \/ o.controller # Null)
  BY <1>1, <1>2, ClosedIs
<1>4. /\ \A d \in {"bus", "disk"} : Manager(d, h).agent # "app"
      /\ \A k : Child(k).agent # "app"
  BY DEF Manager, Child, Open
<1>5. Alike
  BY <1>1, <1>3, <1>4, AlikeSet
<1> QED
  BY <1>1, <1>3, <1>5, OrderBetween

LEMMA SameBetween ==
  ASSUME Known, Ordered, UNCHANGED database, stack' = stack PROVE Ordered'
BY OrderIs, SameIs, OrderBetween DEF Sound

LEMMA CallsOrder ==
  ASSUME Known, Ordered, Harmless, CallSomething PROVE Ordered'
<1>1. CASE \E h \in Handles, recursive \in BOOLEAN : CallConnect(h, recursive)
  BY <1>1, CallConnectOrder
<1>2. CASE \E h \in Handles, agent \in Drivers \cup {""}, child \in Kids \cup {Null} :
             CallDisconnect(h, agent, child)
  BY <1>2, CallDisconnectOrder
<1>3. CASE CallLocate \/ \E d \in Drivers : CallLoad(d)
  BY <1>3, SameBetween DEF CallLocate, CallLoad
<1>4. CASE \E h \in Handles, p \in Protocols :
             CallReinstall(h, p) \/ CallExclusive(h, p) \/ CallGet(h, p) \/ CallClose(h, p)
  BY <1>4, CallOpensOrder, CallGetOrder, CallCloseOrder
<1> QED
  BY <1>1, <1>2, <1>3, <1>4, CallUninstallOrder, CallInstallOrder DEF CallSomething

LEMMA StepsOrder ==
  ASSUME Known, Openers, Ordered, Step PROVE Ordered'
<1>1. CASE NotFound \/ FindDriver \/ Refuse \/ Refused \/ Reinstalled
           \/ (Unused /\ (Uninstalls \/ Reinstalls))
  BY <1>1, NotFoundOrder, FindDriverOrder, RefuseOrder, ReinstalledOrder, UninstallsOrder,
     ReinstallsOrder
<1>2. CASE OpenDenied \/ OpenFindDriver \/ OpenSucceeds
  BY <1>2, OpenDeniedOrder, FindDriverOrder, OpenSucceedsOrder
<1>3. CASE CollectAgents \/ AllAsked \/ NoDriver \/ CollectChildren
           \/ StopChildren \/ StopDriver \/ DriverAsked
  BY <1>3, CollectAgentsOrder, DisconnectReturns, CollectChildrenOrder, StopChildrenOrder,
     StopDriverOrder, DriverAskedOrder
<1>4. CASE CollectDrivers \/ CheckDrivers \/ TryDriver \/ Tried \/ Descend \/ Descended
  BY <1>4, CollectDriversOrder, CheckDriversOrder, TryDriverOrder, TriedOrder, DescendOrder
<1>5. CASE \/ StartFails \/ BusStarts \/ (\E k \in Kids : BusMakesKid(k)) \/ BusOpensForKid
           \/ BusStarted \/ DiskStarts \/ DiskMakesVolume \/ DiskGivesUp \/ FsStarts
  BY <1>5, StartReturns, BusStartsOrder, BusMakesKidOrder, BusOpensForKidOrder, DiskStartsOrder,
     DiskMakesVolumeOrder, DiskGivesUpOrder, FsStartsOrder
<1>6. CASE \/ StopRefuses \/ BusStopsKid \/ BusStoppedKid \/ BusStops \/ DiskStops
           \/ DiskStopped \/ FsStops
  BY <1>6, StopRefusesOrder, BusStopsKidOrder, BusStoppedKidOrder, BusStopsOrder, DiskStopsOrder,
     DiskStoppedOrder, FsStopsOrder
<1> QED
  BY <1>1, <1>2, <1>3, <1>4, <1>5, <1>6 DEF Step

LEMMA InitOrder ==
  ASSUME Init PROVE Ordered
<1>1. /\ protocols = [h \in Handles |-> IF h = Root THEN <<"io">> ELSE <<>>]
      /\ opens = [i \in Handles \X Protocols |-> <<>>] /\ stack = <<>>
  BY DEF Init
<1>2. Range(<<>>) = {} /\ IsInjective(<<>>) /\ Range(<<"io">>) = {"io"} /\ IsInjective(<<"io">>)
  BY DEF Range, IsInjective
<1>3. \A h \in Handles :
        IsInjective(protocols[h]) /\ \A p : Installed(h, p) => h = Root /\ p = "io"
  BY <1>1, <1>2 DEF Installed
<1>4. \A h \in Handles, p \in Protocols : opens[<<h, p>>] = <<>>
  BY <1>1
<1>5. Lists
  BY <1>2, <1>3, <1>4 DEF Lists
<1>6. Children = {}
  <2>1. opens[<<Root, "io">>] = <<>>
    BY <1>4, Constants DEF Protocols
  <2> QED
    BY <1>2, <2>1 DEF Children
<1>7. Parents
  BY <1>3, <1>6 DEF Parents
<1>8. Laid(stack) /\ Unders /\ TopHeld
  BY <1>1 DEF Laid, Unders, TopHeld
<1> QED
  BY <1>5, <1>7, <1>8 DEF Ordered

LEMMA OrderStays ==
  ASSUME Harmless, Known, Openers, Ordered, [Next]_vars
  PROVE  Ordered'
<1>1. CASE UNCHANGED vars
  <2>1. UNCHANGED database /\ stack' = stack
    BY <1>1 DEF vars
  <2> QED
    BY <2>1, SameBetween
<1> QED
  BY <1>1, CallsOrder, StepsOrder DEF Next

\* What the calls under way have done and what they rely on agree with the
\* tables: the parts of Ordered, provided that the notification function only
\* connects, installs, opens, closes, locates and loads (Hand, and the drivers'
\* Start and Stop).
THEOREM OrderedAlways == Harmless => (Spec => []Ordered)
<1> SUFFICES ASSUME Harmless PROVE Spec => []Ordered
  OBVIOUS
<1>1. NoneExclusive
  BY DEF Harmless, NoneExclusive
<1>2. Init => Openers /\ Ordered
  BY InitOpeners, InitOrder
<1>3. Known /\ Openers /\ Ordered /\ [Next]_vars => Openers' /\ Ordered'
  BY <1>1, OpenersStay, OrderStays
<1> QED
  BY <1>2, <1>3, KnownAlways, PTL DEF Spec

\* The function has still to be told of handles.
LEMMA UnseenHandles ==
  ASSUME Reader PROVE unseen \subseteq Handles
<1>1. entry \in Seq(Handles) /\ IsInjective(entry) /\ position \in Range(entry) \cup {Null}
  BY DEF Reader
<1>2. unseen = ToFind(entry, position)
  BY DEF Reader, After, ToFind, Behind
<1>3. PICK n : PlaceOf(entry, position, n)
  <2> DEFINE x == position
  <2>1. x \in Range(entry) \cup {Null}
    BY <1>1
  <2> HIDE DEF x
  <2>2. \E n : PlaceOf(entry, x, n)
    BY <1>1, <2>1, HasPlace
  <2> QED
    BY <2>2 DEF x
<1>4. ToFind(entry, position) = {entry[i] : i \in n + 1 .. Len(entry)}
  BY <1>1, <1>3, ToFindAre
<1>5. n \in Nat
  BY <1>3 DEF PlaceOf
<1>6. \A i \in n + 1 .. Len(entry) : entry[i] \in Handles
  BY <1>1, <1>5
<1> QED
  BY <1>2, <1>4, <1>6

\* Every list is without repetitions, what is not installed has no opens, and
\* the list of Watched has the handles that have it (CoreAddProtocolInterface,
\* CoreOpenProtocol, CoreRemoveInterfaceFromProtocol), under the same proviso.
THEOREM TypesHold == Harmless => (Spec => []TypeOK)
<1> SUFFICES ASSUME Harmless PROVE Spec => []TypeOK
  OBVIOUS
<1>1. Known /\ Ordered => TypeOK
  <2> SUFFICES ASSUME Known, Ordered PROVE TypeOK
    OBVIOUS
  <2>1. Lists /\ Typed /\ Reader /\ Tables /\ OpensTyped
    BY OrderIs DEF Known
  <2>2. \A h \in Handles : protocols[h] \in Seq(Protocols) /\ IsInjective(protocols[h])
    BY <2>1 DEF Lists, Tables
  <2>3. \A h \in Handles, p \in Protocols :
          /\ opens[<<h, p>>] \in Seq(OpenType) /\ IsInjective(opens[<<h, p>>])
          /\ ~ Installed(h, p) => opens[<<h, p>>] = <<>>
    BY <2>1 DEF Lists, OpensTyped
  <2>4. /\ entry \in Seq(Handles) /\ IsInjective(entry)
        /\ Range(entry) = {h \in Handles : Installed(h, Watched)}
        /\ position \in Range(entry) \cup {Null}
    BY <2>1 DEF Reader
  <2>5. unseen \subseteq Handles
    BY <2>1, UnseenHandles
  <2>6. \A i \in DOMAIN stack : stack[i].h \in Handles
    <3>1. stack \in Seq(Frames)
      BY <2>1 DEF Typed
    <3>2. \A i \in DOMAIN stack : stack[i] \in Frames
      BY <3>1
    <3>3. \A f \in Frames : f.h \in Handles
      BY DEF Frames, FrameType
    <3> QED
      BY <3>2, <3>3
  <2> QED
    BY <2>1, <2>2, <2>3, <2>4, <2>5, <2>6 DEF TypeOK, Typed
<1> QED
  BY <1>1, OrderedAlways, KnownAlways, PTL

\* A driver that has children of a controller manages it, and its children are
\* there (CoreDisconnectController stops the children first; a Stop that fails
\* for one of them leaves the driver where it is), under the same proviso.
THEOREM ParentsHold == Harmless => (Spec => []ParentsStay)
<1> SUFFICES ASSUME Harmless PROVE Spec => []ParentsStay
  OBVIOUS
<1>1. Known /\ Ordered => ParentsStay
  <2> SUFFICES ASSUME Known, Ordered, NEW h \in Handles, NEW o \in Range(OpensOf(h)),
                      o.how = "child"
               PROVE  Manages(o.agent, h) /\ Valid(o.controller)
    BY DEF ParentsStay
  <2>1. Tables /\ OpensTyped /\ Lists /\ Parents
    BY OrderIs
  <2>2. PICK p \in Protocols : Installed(h, p) /\ o \in Range(opens[<<h, p>>])
    BY <2>1, AllOpens
  <2>3. o \in Openings(h, p)
    <3>1. opens[<<h, p>>] \in Seq(Openings(h, p))
      BY <2>1 DEF OpensTyped
    <3> QED
      BY <2>2, <3>1 DEF Range
  <2>4. o.controller \in Kids /\ o = Child(o.controller) /\ p = "io"
    BY <2>3, OpeningsAre
  <2>5. h = Root
    BY <2>1, <2>2, <2>4 DEF Lists
  <2>6. o.controller \in Children
    BY <2>2, <2>4, <2>5 DEF Children
  <2>7. Managed("bus", Root) /\ Valid(o.controller)
    BY <2>1, <2>6 DEF Parents
  <2>8. o.agent = "bus"
    BY <2>4 DEF Child, Open
  <2>9. PICK m : m = Manager("bus", Root)
    OBVIOUS
  <2>10. m.agent = "bus" /\ m.how = "driver"
    BY <2>9 DEF Manager, Open
  <2>11. m \in Range(OpensOf(h))
    <3>1. "io" \in Protocols /\ Installed(h, "io") /\ m \in Range(opens[<<h, "io">>])
      BY <2>2, <2>4, <2>5, <2>7, <2>9, Constants DEF Managed
    <3> QED
      BY <2>1, <3>1, AllOpens
  <2> QED
    BY <2>7, <2>8, <2>10, <2>11 DEF Manages
<1> QED
  BY <1>1, OrderedAlways, KnownAlways, PTL
=============================================================================
