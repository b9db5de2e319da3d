--------------------- MODULE HandleDatabaseReconnected ----------------------
(***************************************************************************)
(* A recursive connect of HandleDatabase that is done has left nothing to  *)
(* be started, for every set of devices.                                   *)
(***************************************************************************)
EXTENDS HandleDatabaseProofs

-----------------------------------------------------------------------------
(************************ Who waits for what to connect *********************)

\* A call that connects, or waits for one that does; a removal in between.
Removal(f)    == f.op \in {"uninstall", "reinstall"}
Connecting(f) == f.op = "connect" \/ (Removal(f) /\ f.at \in {"refused", "moved"})
Asking(f)     == Removal(f) /\ f.at = "asked"

\* f is somewhere below g: above a call that connects are only such and Starts,
\* and everything else that is above a call for a device is about the device.
Pair(f, g) ==
  /\ Connecting(f) => g.op \in {"connect", "start"}
  /\ f.h # Root /\ g.op \notin {"connect", "start"} => g.h = f.h

\* f is right below g.
Made(f, g) ==
  /\ g.op = "start" => f.op = "connect" /\ f.at = "try" /\ f.index = 1 /\ g.h = f.h
  /\ g.op = "connect" /\ ~ g.callback /\ Connecting(f) /\ Removal(f) => g.recursive /\ g.h = f.h

Chained(s) ==
  /\ \A i, j \in DOMAIN s : i < j => Pair(s[i], s[j])
  /\ \A i \in 1 .. Len(s) - 1 : Made(s[i], s[i + 1])
  /\ s # <<>> => s[1].op # "start"

\* What is connected is there, and the drivers are, too.
Alive(f) ==
  /\ Connecting(f) \/ Asking(f) => Valid(f.h)
  /\ f.op = "connect" => Range(f.drivers) \subseteq bindings
  /\ f.op = "start" => f.agent \in bindings

Lives == \A i \in DOMAIN stack : Alive(stack[i])

Linked ==
  /\ Chained(stack) /\ Lives
  /\ \A p : Installed(Root, p) => p = "io"
  /\ scenario.loaded \subseteq bindings

\* Frames that Pair and Made do not tell apart, as the upper one, and at all.
Same(f, g) == f.op = g.op /\ f.h = g.h /\ f.callback = g.callback /\ f.recursive = g.recursive
Like(f, g) == Same(f, g) /\ f.at = g.at /\ f.index = g.index

LEMMA LikePair ==
  ASSUME NEW d, NEW e, NEW f, NEW g, Like(e, d), Same(f, g)
  PROVE  (Pair(d, g) => Pair(e, f)) /\ (Made(d, g) => Made(e, f))
BY DEF Like, Same, Pair, Made, Connecting, Removal

LEMMA ToldLike ==
  ASSUME NEW f \in FrameType, NEW status
  PROVE  Like(Told(f, status), f) /\ Like(f, f) /\ Told(f, status).drivers = f.drivers
         /\ Told(f, status).agent = f.agent /\ Told(f, status).kids = f.kids
BY DEF Like, Same, Told, FrameType

\* The lower part of the calls, in which only the last one has changed.
LEMMA ChainedTo ==
  ASSUME NEW s \in Seq(Frames), Chained(s), NEW m \in Nat, m <= Len(s),
         NEW t, DOMAIN t = 1 .. m, Len(t) = m, t = <<>> <=> m = 0,
         \A i \in 1 .. m - 1 : Like(t[i], s[i]),
         m > 0 => Same(t[m], s[m])
  PROVE  Chained(t)
<1>1. DOMAIN s = 1 .. Len(s) /\ Len(s) \in Nat /\ 1 .. m \subseteq 1 .. Len(s)
  OBVIOUS
<1>2. \A i \in 1 .. m : Same(t[i], s[i])
  BY DEF Like
<1>3. ASSUME NEW i \in DOMAIN t, NEW j \in DOMAIN t, i < j
      PROVE  Pair(t[i], t[j])
  <2>1. i \in 1 .. m - 1 /\ i \in DOMAIN s /\ j \in DOMAIN s
    BY <1>1, <1>3
  <2>2. Pair(s[i], s[j])
    BY <1>3, <2>1 DEF Chained
  <2>3. Like(t[i], s[i]) /\ Same(t[j], s[j])
    BY <1>2, <2>1
  <2> QED
    BY <2>2, <2>3, LikePair
<1>4. ASSUME NEW i \in 1 .. Len(t) - 1
      PROVE  Made(t[i], t[i + 1])
  <2>1. i \in 1 .. m - 1 /\ i + 1 \in 1 .. m /\ i \in 1 .. Len(s) - 1
    BY <1>1, <1>4
  <2>2. Made(s[i], s[i + 1])
    BY <2>1 DEF Chained
  <2>3. Like(t[i], s[i]) /\ Same(t[i + 1], s[i + 1])
    BY <1>2, <2>1
  <2> QED
    BY <2>2, <2>3, LikePair
<1>5. t # <<>> => t[1].op # "start"
  <2> SUFFICES ASSUME t # <<>> PROVE t[1].op # "start"
    OBVIOUS
  <2>1. 1 \in 1 .. m /\ s # <<>>
    BY <1>1
  <2> QED
    BY <1>2, <2>1 DEF Chained, Same
<1> QED
  BY <1>3, <1>4, <1>5 DEF Chained

\* One call more.
LEMMA ChainedMore ==
  ASSUME NEW s, Chained(s), NEW m \in Nat, DOMAIN s = 1 .. m, Len(s) = m, s = <<>> <=> m = 0,
         NEW g, NEW t, DOMAIN t = 1 .. m + 1, Len(t) = m + 1, t[m + 1] = g,
         \A i \in 1 .. m : t[i] = s[i] /\ Pair(s[i], g),
         IF m > 0 THEN Made(s[m], g) ELSE g.op # "start"
  PROVE  Chained(t)
<1>1. ASSUME NEW i \in DOMAIN t, NEW j \in DOMAIN t, i < j
      PROVE  Pair(t[i], t[j])
  <2>1. i \in 1 .. m
    BY <1>1
  <2>2. CASE j = m + 1
    BY <2>1, <2>2
  <2>3. CASE j # m + 1
    <3>1. j \in 1 .. m
      BY <2>3
    <3> QED
      BY <1>1, <2>1, <3>1 DEF Chained
  <2> QED
    BY <2>2, <2>3
<1>2. ASSUME NEW i \in 1 .. Len(t) - 1
      PROVE  Made(t[i], t[i + 1])
  <2>1. i \in 1 .. m
    BY <1>2
  <2>2. CASE i = m
    BY <2>1, <2>2
  <2>3. CASE i # m
    <3>1. i \in 1 .. m - 1 /\ i + 1 \in 1 .. m
      BY <2>1, <2>3
    <3> QED
      BY <2>1, <3>1 DEF Chained
  <2> QED
    BY <2>2, <2>3
<1>3. t[1].op # "start"
  <2>1. CASE m = 0
    BY <2>1
  <2>2. CASE m # 0
    <3>1. 1 \in 1 .. m
      BY <2>2
    <3> QED
      BY <2>2, <3>1 DEF Chained
  <2> QED
    BY <2>1, <2>2
<1> QED
  BY <1>1, <1>2, <1>3 DEF Chained

\* What is below stays alive.
LowerLive == \A i \in 1 .. Len(stack) - 1 : \A e : e = stack[i] => Alive(e)'

\* Nothing goes away.
Grows == (\A h \in Handles : Valid(h) => Valid(h)') /\ bindings \subseteq bindings'

LEMMA GrowsLive ==
  ASSUME Grows
  PROVE  \A e : e.h \in Handles /\ Alive(e) => Alive(e)'
BY DEF Grows, Alive

LEMMA LowerLives ==
  ASSUME stack \in Seq(Frames), Lives, Grows
  PROVE  LowerLive
<1>1. \A i \in 1 .. Len(stack) - 1 : i \in DOMAIN stack /\ stack[i] \in FrameType
  BY DEF Frames
<1> QED
  BY <1>1, GrowsLive DEF LowerLive, Lives, FrameType

LEMMA LinkedGoes ==
  ASSUME stack \in Seq(Frames), Chained(stack), stack # <<>>, LowerLive,
         NEW f, GoOn(f), Same(f, Top), Alive(f)'
  PROVE  Chained(stack') /\ Lives'
<1> DEFINE n == Len(stack)
<1>1. /\ n \in Nat /\ n > 0 /\ Len(stack') = n /\ stack'[n] = f /\ DOMAIN stack' = 1 .. n
      /\ \A i \in 1 .. n - 1 : stack'[i] = stack[i]
  BY GoesTo
<1>2. Top = stack[n] /\ \A i \in 1 .. n : stack[i] \in FrameType
  BY TopFrame DEF Frames
<1>3. \A i \in 1 .. n - 1 : Like(stack[i], stack[i])
  BY DEF Like, Same
<1>4. PICK t : t = stack'
  OBVIOUS
<1>5. t # <<>>
  <2>1. 1 \in DOMAIN t /\ DOMAIN <<>> = {}
    BY <1>1, <1>4
  <2> QED
    BY <2>1
<1>6. Chained(t)
  <2>1. n <= Len(stack) /\ (t = <<>> <=> n = 0) /\ DOMAIN t = 1 .. n /\ Len(t) = n
    BY <1>1, <1>4, <1>5
  <2>2. \A i \in 1 .. n - 1 : Like(t[i], stack[i])
    BY <1>1, <1>3, <1>4
  <2>3. Same(t[n], stack[n])
    BY <1>1, <1>2, <1>4
  <2> HIDE DEF n
  <2> QED
    BY <1>1, <2>1, <2>2, <2>3, ChainedTo
<1>7. Lives'
  <2>1. ASSUME NEW i \in 1 .. n, NEW e, e = stack'[i]
        PROVE  Alive(e)'
    <3>1. CASE i = n
      <4>1. e = f
        BY <1>1, <2>1, <3>1
      <4> QED
        BY <4>1
    <3>2. CASE i # n
      <4>1. i \in 1 .. n - 1
        <5> HIDE DEF n
        <5> QED
          BY <1>1, <2>1, <3>2
      <4>2. e = stack[i]
        BY <1>1, <2>1, <4>1
      <4> QED
        BY <4>1, <4>2 DEF LowerLive
    <3> QED
      BY <3>1, <3>2
  <2> QED
    BY <1>1, <2>1 DEF Lives
<1> QED
  BY <1>4, <1>6, <1>7

\* g is about what the last call is about, or connects.
Follows(g) ==
  \/ g.op \in {"connect", "start"}
  \/ Top.op \notin {"connect", "start"} /\ (g.h = Top.h \/ Top.h = Root)

LEMMA LinkedCalls ==
  ASSUME stack \in Seq(Frames), Chained(stack), stack # <<>>, LowerLive,
         NEW f, NEW g, Invoke(f, g), Same(f, Top), Follows(g),
         Connecting(f) => g.op \in {"connect", "start"}, Made(f, g), Alive(f)', Alive(g)'
  PROVE  Chained(stack') /\ Lives'
<1> DEFINE n == Len(stack)
<1>1. /\ n \in Nat /\ n > 0 /\ Len(stack') = n + 1 /\ stack'[n] = f /\ stack'[n + 1] = g
      /\ DOMAIN stack' = 1 .. n + 1
      /\ \A i \in 1 .. n - 1 : stack'[i] = stack[i]
  BY CallsTo
<1>2. Top = stack[n] /\ DOMAIN stack = 1 .. n
  BY TopFrame
<1>3. PICK u : u = stack'
  OBVIOUS
<1>4. PICK t : t = [i \in 1 .. n |-> u[i]]
  OBVIOUS
<1>5. Len(t) = n /\ DOMAIN t = 1 .. n /\ t # <<>> /\ \A i \in 1 .. n : t[i] = u[i]
  <2>1. DOMAIN t = 1 .. n /\ \A i \in 1 .. n : t[i] = u[i]
    BY <1>4
  <2>2. n \in Nat /\ n > 0
    BY <1>1
  <2> HIDE DEF n
  <2>3. t \in [1 .. n -> Range(t)]
    BY <1>4, <2>1 DEF Range
  <2>4. t \in Seq(Range(t)) /\ Len(t) = n
    BY <2>2, <2>3
  <2> QED
    BY <2>1, <2>2, <2>4
<1>6. \A i \in 1 .. n - 1 : Like(t[i], stack[i]) /\ t[i] = stack[i]
  BY <1>1, <1>3, <1>5 DEF Like, Same
<1>7. t[n] = f
  BY <1>1, <1>3, <1>5
<1>8. Chained(t)
  <2>1. n <= Len(stack) /\ (t = <<>> <=> n = 0)
    BY <1>1, <1>5
  <2>2. Same(t[n], stack[n])
    BY <1>2, <1>7
  <2> HIDE DEF n
  <2> QED
    BY <1>1, <1>5, <1>6, <2>1, <2>2, ChainedTo
<1>9. ASSUME NEW i \in 1 .. n
      PROVE  Pair(t[i], g)
  <2>1. CASE i = n
    BY <1>7, <2>1 DEF Pair, Follows, Same
  <2>2. CASE i # n
    <3>1. i \in 1 .. n - 1 /\ i < n /\ n \in 1 .. n
      BY <1>1, <2>2
    <3>2. Pair(stack[i], Top)
      BY <1>2, <3>1 DEF Chained
    <3> QED
      BY <1>6, <3>1, <3>2 DEF Pair, Follows
  <2> QED
    BY <2>1, <2>2
<1>10. Chained(u)
  <2>1. (t = <<>> <=> n = 0) /\ Made(t[n], g)
    BY <1>1, <1>5, <1>7
  <2>2. DOMAIN u = 1 .. n + 1 /\ Len(u) = n + 1 /\ u[n + 1] = g
    BY <1>1, <1>3
  <2> HIDE DEF n
  <2> QED
    BY <1>1, <1>5, <1>8, <1>9, <2>1, <2>2, ChainedMore
<1>11. Lives'
  <2>1. ASSUME NEW i \in 1 .. n + 1, NEW e, e = stack'[i]
        PROVE  Alive(e)'
    <3>1. CASE i = n
      <4>1. e = f
        BY <1>1, <2>1, <3>1
      <4> QED
        BY <4>1
    <3>2. CASE i = n + 1
      <4>1. e = g
        BY <1>1, <2>1, <3>2
      <4> QED
        BY <4>1
    <3>3. CASE i # n /\ i # n + 1
      <4>1. i \in 1 .. n - 1
        BY <1>1, <3>3
      <4>2. e = stack[i]
        BY <1>1, <2>1, <4>1
      <4> QED
        BY <4>1, <4>2 DEF LowerLive
    <3> QED
      BY <3>1, <3>2, <3>3
  <2> QED
    BY <1>1, <2>1 DEF Lives
<1> QED
  BY <1>3, <1>10, <1>11

LEMMA LinkedReturns ==
  ASSUME stack \in Seq(Frames), Chained(stack), stack # <<>>, LowerLive,
         NEW status \in {"success", "error"}, Return(status)
  PROVE  Chained(stack') /\ Lives'
<1> DEFINE n == Len(stack)
<1>1. /\ n \in Nat /\ n > 0 /\ Len(stack') = n - 1 /\ DOMAIN stack' = 1 .. n - 1
      /\ \A i \in 1 .. n - 2 : stack'[i] = stack[i]
      /\ n > 1 => stack'[n - 1] = IF Top.callback THEN stack[n - 1]
                                  ELSE Told(stack[n - 1], status)
  <2>1. status \in Statuses
    BY DEF Statuses
  <2> QED
    BY <2>1, ReturnsTo
<1>2. stack' \in Seq(Frames)
  <2>1. \A f \in Frames : Told(f, status) \in Frames
    BY ToldFrame DEF Statuses
  <2> QED
    BY <2>1, Returning
<1>3. PICK t : t = stack'
  OBVIOUS
<1>4. ASSUME NEW i \in 1 .. n - 1
      PROVE  /\ Like(t[i], stack[i]) /\ t[i].drivers = stack[i].drivers
             /\ t[i].agent = stack[i].agent
  <2>1. stack[i] \in FrameType
    BY <1>4 DEF Frames
  <2>2. t[i] = stack[i] \/ t[i] = Told(stack[i], status)
    <3>1. CASE i = n - 1
      BY <1>1, <1>3, <1>4, <3>1
    <3>2. CASE i # n - 1
      <4>1. i \in 1 .. n - 2
        BY <1>1, <1>4, <3>2
      <4> QED
        BY <1>1, <1>3, <4>1
    <3> QED
      BY <3>1, <3>2
  <2>3. CASE t[i] = stack[i]
    BY <2>3 DEF Like, Same
  <2>4. CASE t[i] = Told(stack[i], status)
    BY <2>1, <2>4, ToldLike
  <2> QED
    BY <2>2, <2>3, <2>4
<1>5. Chained(t)
  <2>1. n - 1 \in Nat /\ n - 1 <= Len(stack) /\ (t = <<>> <=> n - 1 = 0)
        /\ DOMAIN t = 1 .. n - 1 /\ Len(t) = n - 1
    BY <1>1, <1>2, <1>3
  <2>2. \A i \in 1 .. (n - 1) - 1 : Like(t[i], stack[i])
    BY <1>1, <1>4
  <2>3. n - 1 > 0 => Same(t[n - 1], stack[n - 1])
    BY <1>1, <1>4 DEF Like
  <2>4. PICK m : m = n - 1
    OBVIOUS
  <2>5. /\ m \in Nat /\ m <= Len(stack) /\ (t = <<>> <=> m = 0) /\ DOMAIN t = 1 .. m /\ Len(t) = m
        /\ \A i \in 1 .. m - 1 : Like(t[i], stack[i])
        /\ m > 0 => Same(t[m], stack[m])
    BY <2>1, <2>2, <2>3, <2>4
  <2> QED
    BY <2>5, ChainedTo
<1>6. Lives'
  <2>1. ASSUME NEW i \in 1 .. n - 1, NEW e, e = stack'[i]
        PROVE  Alive(e)'
    <3>1. PICK d : d = stack[i]
      OBVIOUS
    <3>2. Alive(d)'
      BY <3>1 DEF LowerLive
    <3>3. Like(e, d) /\ e.drivers = d.drivers /\ e.agent = d.agent
      BY <1>3, <1>4, <2>1, <3>1
    <3> QED
      BY <3>2, <3>3 DEF Alive, Like, Same, Connecting, Asking, Removal
  <2> QED
    BY <1>1, <2>1 DEF Lives
<1> QED
  BY <1>3, <1>5, <1>6

-----------------------------------------------------------------------------
(************************* What is still to be started **********************)

\* The drivers that a call that connects asks, and what they are to reach.
Asked      == IF "load" \in scenario.callbacks THEN scenario.loaded ELSE bindings
Has(d, h)  == Managed(d, h) /\ (d = "bus" => \A k \in scenario.kids : Valid(k))
Done(d, h) == Supports(d, h) => Has(d, h)
Level(h)   == \A d \in Asked : Done(d, h)

\* In the calls s there is one above s[i] that still asks all drivers about h.
Awaited(s, i, h) ==
  \E j \in DOMAIN s : i < j /\ s[j].op = "connect" /\ s[j].h = h /\ s[j].at # "descend"

\* s[i] has asked all drivers; what it has still to look at; what it is about.
Resting(s, i) ==
  \/ s[i].op = "connect" /\ s[i].at = "descend"
  \/ Connecting(s[i]) /\ Removal(s[i]) /\ (i = Len(s) \/ s[i + 1].callback)

Waiting(f) == IF f.op = "connect" THEN Range(f.kids) ELSE {}
Family(h)  == {h} \cup (IF h = Root THEN Children ELSE {})

Begun(s, i, d) == i < Len(s) /\ s[i + 1].op = "start" /\ s[i + 1].agent = d

Tries(s, i) ==
  LET f == s[i] IN
  f.op = "connect" /\ f.at = "try" =>
    /\ \A d \in Asked : d \in Range(f.drivers) \/ Has(d, f.h) \/ Begun(s, i, d)
    /\ \A m \in DOMAIN f.drivers : m < f.index /\ f.drivers[m] \in Asked =>
         Done(f.drivers[m], f.h) \/ Awaited(s, i, f.h)

Rests(s, i) ==
  LET f == s[i] IN
  Resting(s, i) =>
    /\ \A g \in Family(f.h) \ Waiting(f) : Level(g) \/ Awaited(s, i, g)
    /\ f.h = Root /\ "bus" \in bindings => Done("bus", Root)

Claims(s, i) == Tries(s, i) /\ Rests(s, i)

\* A Start: it was asked for, and makes a child of a bus that is not yet done.
Starts(s) ==
  LET f == s[Len(s)] IN
  s # <<>> /\ f.op = "start" =>
    /\ f.at = "start" => Supports(f.agent, f.h)
    /\ f.at = "child" =>
         f.child \in scenario.kids /\ \A i \in DOMAIN s : Resting(s, i) => s[i].h # Root

Covered ==
  scenario.flaky = {} => \A s : s = stack => Starts(s) /\ \A i \in DOMAIN s : Claims(s, i)

Reaching == Linked /\ Covered

-----------------------------------------------------------------------------
(************* The calls that are below nothing that connects **************)

\* A call that has not asked a driver yet.
Early(s, i) ==
  IF s[i].op = "connect" THEN s[i].at = "collect" ELSE i # Len(s) /\ ~ s[i + 1].callback

LEMMA IdleCovers ==
  ASSUME NEW s, s = stack', s # <<>> => s[Len(s)].op # "start",
         \A i \in DOMAIN s : ~ Connecting(s[i]) \/ Early(s, i)
  PROVE  Covered'
<1>1. Starts(s)'
  BY DEF Starts
<1>2. ASSUME NEW i \in DOMAIN s
      PROVE  Claims(s, i)'
  <2>1. ~ Resting(s, i) /\ ~ (s[i].op = "connect" /\ s[i].at = "try")
    BY DEF Early, Resting, Connecting, Removal
  <2> QED
    BY <2>1 DEF Claims, Tries, Rests
<1> QED
  BY <1>1, <1>2 DEF Covered

Steady == UNCHANGED <<scenario, protocols, bindings>>

LEMMA LinkedStays ==
  ASSUME Linked, Steady, Chained(stack') /\ Lives'
  PROVE  Linked'
BY DEF Linked, Steady, Installed

LEMMA SteadyLives ==
  ASSUME Known, Linked, Steady
  PROVE  /\ stack \in Seq(Frames) /\ Chained(stack) /\ LowerLive
         /\ \A f : Alive(f) => Alive(f)'
<1>1. Grows /\ \A f : Alive(f) => Alive(f)'
  BY DEF Steady, Grows, Alive, Valid
<1> QED
  BY <1>1, LowerLives DEF Linked, Known, Typed

\* There are no calls that connect below one that neither connects nor starts.
LEMMA NoneConnect ==
  ASSUME Known, Ordered, Linked, stack # <<>>, Top.op \notin {"connect", "start"},
         NEW i \in 1 .. Len(stack) - 1
  PROVE  /\ stack[i] \in FrameType /\ ~ Connecting(stack[i]) /\ stack[i].op # "start"
<1>1. stack \in Seq(Frames) /\ Chained(stack) /\ Laid(stack)
  BY DEF Known, Typed, Linked, Ordered
<1>2. Len(stack) \in Nat /\ Top = stack[Len(stack)] /\ DOMAIN stack = 1 .. Len(stack)
  BY <1>1, TopFrame
<1>3. i \in DOMAIN stack /\ Len(stack) \in DOMAIN stack /\ i < Len(stack)
  BY <1>2
<1>4. stack[i] \in FrameType
  BY <1>1, <1>3 DEF Frames
<1>5. Pair(stack[i], Top)
  BY <1>1, <1>2, <1>3 DEF Chained
<1>6. Upon(stack[i], stack[i + 1])
  BY <1>1 DEF Laid
<1> QED
  BY <1>4, <1>5, <1>6 DEF Pair, Upon

LEMMA OtherReturns ==
  ASSUME Known, Ordered, Linked, stack # <<>>, Top.op \notin {"connect", "start"},
         NEW status \in {"success", "error"}, Return(status)
  PROVE  Covered'
<1> DEFINE n == Len(stack)
<1>1. PICK s : s = stack'
  OBVIOUS
<1>2. stack \in Seq(Frames) /\ status \in Statuses
  BY DEF Known, Typed, Statuses
<1>3. /\ n \in Nat /\ n > 0 /\ Len(s) = n - 1 /\ DOMAIN s = 1 .. n - 1
      /\ \A i \in 1 .. n - 2 : s[i] = stack[i]
      /\ n > 1 => s[n - 1] = stack[n - 1] \/ s[n - 1] = Told(stack[n - 1], status)
  BY <1>1, <1>2, ReturnsTo
<1>4. ASSUME NEW i \in 1 .. n - 1
      PROVE  ~ Connecting(s[i]) /\ s[i].op # "start"
  <2>1. stack[i] \in FrameType /\ ~ Connecting(stack[i]) /\ stack[i].op # "start"
    BY <1>4, NoneConnect
  <2>2. s[i] = stack[i] \/ s[i] = Told(stack[i], status)
    <3>1. CASE i = n - 1
      BY <1>3, <1>4, <3>1
    <3>2. CASE i # n - 1
      <4>1. i \in 1 .. n - 2
        BY <1>3, <1>4, <3>2
      <4> QED
        BY <1>3, <4>1
    <3> QED
      BY <3>1, <3>2
  <2> QED
    BY <2>1, <2>2, ToldIs DEF Connecting, Removal
<1>5. s # <<>> => s[Len(s)].op # "start"
  <2>1. s \in Seq(Frames)
    BY <1>1, <1>2, Returning, ToldFrame
  <2>2. s # <<>> => Len(s) \in 1 .. n - 1
    BY <1>3, <2>1
  <2> QED
    BY <1>4, <2>2
<1> HIDE DEF n
<1> QED
  BY <1>1, <1>3, <1>4, <1>5, IdleCovers

LEMMA OtherGoes ==
  ASSUME Known, Ordered, Linked, Steady, stack # <<>>, Top.op \in {"disconnect", "stop"},
         NEW f, GoOn(f), Same(f, Top)
  PROVE  Reaching'
<1> DEFINE n == Len(stack)
<1>1. PICK s : s = stack'
  OBVIOUS
<1>2. stack \in Seq(Frames) /\ Chained(stack) /\ LowerLive
  BY SteadyLives
<1>3. /\ n \in Nat /\ n > 0 /\ Len(s) = n /\ s[n] = f /\ DOMAIN s = 1 .. n
      /\ \A i \in 1 .. n - 1 : s[i] = stack[i]
  BY <1>1, <1>2, GoesTo
<1>4. ~ Connecting(f) /\ f.op # "start" /\ Alive(f)'
  BY DEF Same, Connecting, Removal, Alive, Asking
<1>5. Linked'
  BY <1>2, <1>4, LinkedGoes, LinkedStays
<1>6. ASSUME NEW i \in 1 .. n
      PROVE  ~ Connecting(s[i])
  <2>1. CASE i = n
    BY <1>3, <1>4, <2>1
  <2>2. CASE i # n
    <3>1. i \in 1 .. n - 1
      <4> HIDE DEF n
      <4> QED
        BY <1>3, <1>6, <2>2
    <3> QED
      BY <1>3, <3>1, NoneConnect
  <2> QED
    BY <2>1, <2>2
<1> HIDE DEF n
<1> QED
  BY <1>1, <1>3, <1>4, <1>5, <1>6, IdleCovers DEF Reaching

\* f asks a driver or removes, or connects again, by the call g.
Turns(f, g) ==
  \/ /\ g.op \in {"disconnect", "stop", "uninstall"} /\ (g.h = Top.h \/ Top.h = Root)
     /\ ~ Connecting(f) /\ ~ Connecting(g)
  \/ g.op = "connect" /\ g.at = "collect" /\ ~ g.callback /\ g.recursive /\ g.h = Top.h

LEMMA OtherCalls ==
  ASSUME Known, Ordered, Linked, Steady, stack # <<>>, Top.op \notin {"connect", "start"},
         NEW f, NEW g, Invoke(f, g), Same(f, Top), Alive(f)', Alive(g)',
         Turns(f, g)
  PROVE  Reaching'
<1> DEFINE n == Len(stack)
<1>1. PICK s : s = stack'
  OBVIOUS
<1>2. stack \in Seq(Frames) /\ Chained(stack) /\ LowerLive
  BY SteadyLives
<1>3. /\ n \in Nat /\ n > 0 /\ Len(s) = n + 1 /\ s[n] = f /\ s[n + 1] = g
      /\ DOMAIN s = 1 .. n + 1
      /\ \A i \in 1 .. n - 1 : s[i] = stack[i]
  BY <1>1, <1>2, CallsTo
<1>4. Follows(g) /\ Made(f, g) /\ (Connecting(f) => g.op = "connect") /\ g.op # "start"
  BY DEF Follows, Made, Same, Turns
<1>5. Linked'
  BY <1>2, <1>4, LinkedCalls, LinkedStays
<1>6. ASSUME NEW i \in 1 .. n + 1
      PROVE  ~ Connecting(s[i]) \/ Early(s, i)
  <2>1. CASE i = n
    BY <1>3, <2>1 DEF Early, Same, Turns
  <2>2. CASE i = n + 1
    BY <1>3, <2>2 DEF Early, Turns
  <2>3. CASE i # n /\ i # n + 1
    <3>1. i \in 1 .. n - 1
      BY <1>3, <1>6, <2>3
    <3> QED
      BY <1>3, <3>1, NoneConnect
  <2> QED
    BY <2>1, <2>2, <2>3
<1>7. s[Len(s)].op # "start"
  BY <1>3, <1>4
<1> HIDE DEF n
<1> QED
  BY <1>1, <1>3, <1>5, <1>6, <1>7, IdleCovers DEF Reaching

LEMMA OtherReaches ==
  ASSUME Known, Ordered, Linked, Steady, stack # <<>>, Top.op \notin {"connect", "start"},
         NEW status \in {"success", "error"}, Return(status)
  PROVE  Reaching'
<1>1. Covered'
  BY OtherReturns
<1>2. stack \in Seq(Frames) /\ Chained(stack) /\ LowerLive
  BY SteadyLives
<1>3. Linked'
  BY <1>2, LinkedReturns, LinkedStays
<1> QED
  BY <1>1, <1>3 DEF Reaching

LEMMA OtherEnds ==
  ASSUME Known, Ordered, Linked,
         \/ NotFound \/ Refused \/ Reinstalled \/ OpenDenied \/ OpenSucceeds \/ AllAsked
         \/ NoDriver \/ StopRefuses \/ BusStops \/ DiskStopped \/ FsStops
  PROVE  Reaching'
<1>1. stack # <<>> /\ Top.op \notin {"connect", "start"}
  BY DEF NotFound, Refused, Reinstalled, OpenDenied, OpenSucceeds, MayOpen, AllAsked, NoDriver,
         StopRefuses, BusStops, DiskStopped, FsStops, Stopping, Removing, At
<1>2. Steady
  BY DEF NotFound, Refused, Reinstalled, OpenDenied, OpenSucceeds, AllAsked, NoDriver,
         StopRefuses, BusStops, DiskStopped, FsStops, Steady, database
<1>3. PICK status \in {"success", "error"} : Return(status)
  <2>1. CASE DiskStopped
    <3>1. Top.op = "stop" /\ Top.at = "asked" /\ Return(Top.status)
      BY <2>1 DEF DiskStopped, Stopping, At
    <3>2. Top \in FrameType /\ Ready(Top)
      BY <1>1, OrderIs
    <3>3. Top.status \in {"success", "error"}
      BY <3>1, <3>2 DEF Ready, FrameType
    <3> QED
      BY <3>1, <3>3
  <2> QED
    BY <2>1 DEF NotFound, Refused, Reinstalled, OpenDenied, OpenSucceeds, AllAsked, NoDriver,
                StopRefuses, BusStops, FsStops
<1> QED
  BY <1>1, <1>2, <1>3, OtherReaches

LEMMA OtherGoesOn ==
  ASSUME Known, Ordered, Linked, CollectAgents \/ CollectChildren \/ DriverAsked \/ BusStoppedKid
  PROVE  Reaching'
<1>1. stack # <<>> /\ Top.op \in {"disconnect", "stop"} /\ Steady
  BY DEF CollectAgents, CollectChildren, DriverAsked, BusStoppedKid, Stopping, At, Steady, database
<1>2. Top \in FrameType
  BY <1>1, OrderIs
<1>3. \A any : Skip(any) => \E f : Same(f, Top) /\ GoOn(f)
  BY <1>2 DEF Skip, Same, FrameType
<1>4. (\E f : Same(f, Top) /\ GoOn(f)) \/ (\E status \in {"success", "error"} : Return(status))
  <2>1. CASE CollectAgents
    BY <1>2, <2>1 DEF CollectAgents, Same, FrameType
  <2>2. CASE CollectChildren
    <3>1. PICK f, any : /\ GoOn(f) \/ Skip(any)
                        /\ \E at, kids : f = [Top EXCEPT !.at = at, !.kids = kids]
      BY <2>2 DEF CollectChildren
    <3> QED
      BY <1>2, <1>3, <3>1 DEF Same, FrameType
  <2>3. CASE DriverAsked
    BY <1>3, <2>3 DEF DriverAsked
  <2>4. CASE BusStoppedKid
    <3>1. \/ \E status \in {"success", "error"} : Return(status)
          \/ \E any : GoOn([Top EXCEPT !.at = "stop", !.kids = Tail(@), !.any = any, !.status = ""])
      BY <2>4 DEF BusStoppedKid
    <3> QED
      BY <1>2, <3>1 DEF Same, FrameType
  <2> QED
    BY <2>1, <2>2, <2>3, <2>4
<1> QED
  BY <1>1, <1>4, OtherGoes, OtherReaches

LEMMA NewTree ==
  ASSUME NEW h \in Handles, Valid(h)'
  PROVE  LET g == WholeTree(h)
         IN  /\ g.op = "connect" /\ g.at = "collect" /\ ~ g.callback /\ g.recursive /\ g.h = h
             /\ Alive(g)'
<1>1. PICK g : g = WholeTree(h)
  OBVIOUS
<1>2. /\ g.op = "connect" /\ g.at = "collect" /\ g.callback = FALSE /\ g.recursive = TRUE
      /\ g.h = h /\ g.drivers = <<>>
  BY <1>1 DEF WholeTree, Connect, Call
<1>3. Range(g.drivers) = {}
  BY <1>2, NothingIn
<1>4. Alive(g)'
  BY <1>2, <1>3 DEF Alive, Asking, Removal
<1> QED
  BY <1>1, <1>2, <1>4

LEMMA FindsDriver ==
  ASSUME Known, Ordered, Linked, FindDriver \/ OpenFindDriver
  PROVE  Reaching'
<1>1. PICK a : Invoke([Top EXCEPT !.at = "asked"], Disconnect(Top.h, a, Null))
  BY DEF FindDriver, OpenFindDriver
<1>2. /\ stack # <<>> /\ Steady /\ Installed(Top.h, Top.p)
      /\ Top.op \in {"uninstall", "reinstall", "open"}
  BY DEF FindDriver, Walks, Removing, OpenFindDriver, MayOpen, At, Steady, database
<1>3. Top \in FrameType /\ Top.h \in Handles
  BY <1>2, OrderIs
<1>4. PICK f : f = [Top EXCEPT !.at = "asked"]
  OBVIOUS
<1>5. PICK g : g = Disconnect(Top.h, a, Null)
  OBVIOUS
<1>6. Same(f, Top) /\ f.at = "asked"
  BY <1>3, <1>4 DEF Same, FrameType
<1>7. g.op = "disconnect" /\ g.h = Top.h
  BY <1>5 DEF Disconnect, Call
<1>8. Valid(f.h)'
  BY <1>2, <1>6, HasValid DEF Same, Steady, Valid
<1>9. Alive(f)' /\ Alive(g)' /\ ~ Connecting(f) /\ ~ Connecting(g)
  BY <1>2, <1>6, <1>7, <1>8 DEF Alive, Asking, Connecting, Removal, Same
<1>10. Invoke(f, g) /\ Top.op \notin {"connect", "start"}
  BY <1>1, <1>2, <1>4, <1>5
<1>11. Turns(f, g)
  BY <1>7, <1>9 DEF Turns
<1> QED
  BY <1>2, <1>6, <1>9, <1>10, <1>11, OtherCalls

LEMMA ConnectsAgain ==
  ASSUME Known, Ordered, Linked, Refuse \/ (Unused /\ Reinstalls)
  PROVE  Reaching'
<1>1. PICK at : Invoke([Top EXCEPT !.at = at], WholeTree(Top.h))
  BY DEF Refuse, Reinstalls
<1>2. stack # <<>> /\ Steady /\ Removal(Top)
  BY DEF Refuse, Unused, Reinstalls, Walks, Removing, Steady, Removal
<1>3. Top \in FrameType /\ Top.h \in Handles
  BY <1>2, OrderIs
<1>4. Valid(Top.h)
  <2>1. CASE Walks
    BY <2>1, HasValid DEF Walks
  <2>2. CASE Top.at = "asked"
    <3>1. stack \in Seq(Frames)
      BY DEF Known, Typed
    <3>2. Len(stack) \in DOMAIN stack /\ Top = stack[Len(stack)]
      BY <1>2, <3>1, TopFrame
    <3> QED
      BY <1>2, <2>2, <3>2 DEF Linked, Lives, Alive, Asking
  <2> QED
    BY <2>1, <2>2 DEF Refuse, Unused
<1>5. PICK f : f = [Top EXCEPT !.at = at]
  OBVIOUS
<1>6. PICK h : h = Top.h
  OBVIOUS
<1>7. PICK g : g = WholeTree(h)
  OBVIOUS
<1>8. Same(f, Top)
  BY <1>3, <1>5 DEF Same, FrameType
<1>9. Valid(h)'
  BY <1>2, <1>4, <1>6 DEF Steady, Valid
<1>10. /\ g.op = "connect" /\ g.at = "collect" /\ ~ g.callback /\ g.recursive /\ g.h = h
       /\ Alive(g)'
  BY <1>3, <1>6, <1>7, <1>9, NewTree
<1>11. Alive(f)'
  <2>1. f.h = h /\ f.op # "connect" /\ f.op # "start"
    BY <1>2, <1>6, <1>8 DEF Same, Removal
  <2> QED
    BY <1>9, <2>1 DEF Alive
<1>12. Invoke(f, g)
  BY <1>1, <1>5, <1>6, <1>7
<1>13. Top.op \notin {"connect", "start"}
  BY <1>2 DEF Removal
<1>14. Turns(f, g)
  BY <1>6, <1>10 DEF Turns
<1> QED
  BY <1>2, <1>8, <1>10, <1>11, <1>12, <1>13, <1>14, OtherCalls

LEMMA AsksDriver ==
  ASSUME Known, Ordered, Linked, StopChildren \/ StopDriver \/ BusStopsKid \/ DiskStops
  PROVE  Reaching'
<1>1. stack # <<>> /\ Top.op \in {"disconnect", "stop"} /\ Steady
  BY DEF StopChildren, StopDriver, BusStopsKid, DiskStops, Stopping, At, Steady, database
<1>2. Top \in FrameType /\ Top.h \in Handles /\ Modest(Top)
  BY <1>1, OrderIs
<1>3. PICK at, g, h : /\ Invoke([Top EXCEPT !.at = at], g)
                      /\ h = Top.h \/ Top.h = Root
                      /\ (\E a, kids : g = Stop(a, h, kids)) \/ (\E p : g = Uninstall(h, p))
  <2>1. CASE StopChildren
    BY <2>1 DEF StopChildren
  <2>2. CASE StopDriver
    BY <2>2 DEF StopDriver
  <2>3. CASE BusStopsKid
    <3>1. /\ Invoke([Top EXCEPT !.at = "asked"], Uninstall(Head(Top.kids), Makes["bus"]))
          /\ Top.op = "stop" /\ Top.agent = "bus"
      BY <2>3 DEF BusStopsKid, Stopping, At
    <3>2. Top.h = Root
      BY <1>2, <3>1 DEF Modest
    <3> QED
      BY <3>1, <3>2
  <2>4. CASE DiskStops
    BY <2>4 DEF DiskStops
  <2> QED
    BY <2>1, <2>2, <2>3, <2>4
<1>4. g.op \in {"stop", "uninstall"} /\ g.h = h /\ g.at \in {"stop", "find"}
  <2>1. CASE \E a, kids : g = Stop(a, h, kids)
    BY <2>1 DEF Stop, Call
  <2>2. CASE \E p : g = Uninstall(h, p)
    BY <2>2 DEF Uninstall, Call
  <2> QED
    BY <1>3, <2>1, <2>2
<1>5. PICK f : f = [Top EXCEPT !.at = at]
  OBVIOUS
<1>6. Same(f, Top)
  BY <1>2, <1>5 DEF Same, FrameType
<1>7. ~ Connecting(f) /\ ~ Connecting(g) /\ ~ Asking(f) /\ ~ Asking(g)
  BY <1>1, <1>4, <1>6 DEF Asking, Connecting, Removal, Same
<1>8. f.op \notin {"connect", "start"} /\ g.op \notin {"connect", "start"}
  BY <1>1, <1>4, <1>6 DEF Same
<1>9. Alive(f)' /\ Alive(g)'
  BY <1>7, <1>8 DEF Alive
<1>10. Invoke(f, g) /\ Top.op \notin {"connect", "start"}
  BY <1>1, <1>3, <1>5
<1>11. Turns(f, g)
  BY <1>3, <1>4, <1>7 DEF Turns
<1> QED
  BY <1>1, <1>6, <1>9, <1>10, <1>11, OtherCalls

\* What waits for the removal, or for more than it, stays there.
LEMMA Removes ==
  ASSUME Known, Ordered, Linked, Unused, Uninstalls
  PROVE  Reaching'
<1> DEFINE n == Len(stack)
<1>1. /\ Top.op = "uninstall" /\ RemoveInterface(Top.h, Top.p) /\ Return("success")
      /\ scenario' = scenario /\ bindings' = bindings
      /\ stack # <<>> /\ Installed(Top.h, Top.p)
      /\ \A o \in Range(opens[<<Top.h, Top.p>>]) : o.how \notin {"driver", "child"}
  BY UnusedIs DEF Uninstalls
<1>2. /\ Tables /\ Lists /\ Parents /\ Top.h \in Handles /\ Top.p \in Protocols /\ Laid(stack)
      /\ stack \in Seq(Frames) /\ Chained(stack) /\ Lives
  BY <1>1, OrderIs DEF Known, Typed, Linked, Formed
<1>3. Covered'
  BY <1>1, OtherReturns
<1>4. PICK h : h = Top.h
  OBVIOUS
<1>5. PICK p : p = Top.p
  OBVIOUS
<1>6. /\ \A g \in Handles : \A q : Installed(g, q)' <=> Installed(g, q) /\ ~ (g = h /\ q = p)
      /\ \A g \in Handles : g # h => (Valid(g)' <=> Valid(g))
  BY <1>1, <1>2, <1>4, <1>5, RemovedIs
<1>7. /\ n \in Nat /\ n > 0 /\ Top = stack[n] /\ DOMAIN stack = 1 .. n
      /\ \A i \in 1 .. n : stack[i] \in Frames /\ stack[i] \in FrameType
  BY <1>1, <1>2, TopFrame DEF Frames
<1>8. ASSUME NEW i \in 1 .. n - 1, NEW e, e = stack[i], Asking(e)
      PROVE  Valid(e.h)'
  <2>1. i \in 1 .. n /\ n - 1 \in 1 .. n - 1 /\ n - 1 \in 1 .. n /\ n - 1 + 1 = n
    BY <1>7
  <2>2. Valid(e.h) /\ e.h \in Handles
    BY <1>2, <1>7, <1>8, <2>1 DEF Lives, Alive, FrameType
  <2>3. PICK f : f = stack[n - 1]
    OBVIOUS
  <2>4. Upon(f, Top) /\ Modest(f) /\ f \in FrameType
    BY <1>2, <1>7, <2>1, <2>3 DEF Laid
  <2>5. f.op = "stop"
        /\ \/ f.agent = "bus" /\ p = "block"
           \/ f.agent = "disk" /\ p = "volume"
    BY <1>1, <1>5, <2>4 DEF Upon
  <2>6. CASE f.agent = "bus"
    <3>1. StopsBus(f) /\ f.h = Root
      BY <2>4, <2>5, <2>6 DEF StopsBus, Modest
    <3>2. h # Root
      <4>1. n - 1 \in DOMAIN stack /\ n \in DOMAIN stack /\ n - 1 < n
        BY <1>7, <2>1
      <4> HIDE DEF n
      <4> QED
        BY <1>2, <1>4, <1>7, <2>3, <3>1, <4>1, AboveBus
    <3>3. i # n - 1
      BY <1>8, <2>3, <2>5 DEF Asking, Removal
    <3>4. Pair(e, f)
      <4>1. i \in DOMAIN stack /\ n - 1 \in DOMAIN stack /\ i < n - 1
        <5> HIDE DEF n
        <5> QED
          BY <1>7, <2>1, <3>3
      <4> QED
        BY <1>2, <1>8, <2>3, <4>1 DEF Chained
    <3>5. e.h = Root
      BY <2>5, <3>1, <3>4 DEF Pair
    <3> QED
      BY <1>6, <2>2, <3>2, <3>5
  <2>7. CASE f.agent = "disk"
    <3>1. p = "volume" /\ Installed(h, "volume")
      BY <1>1, <1>4, <1>5, <2>5, <2>7
    <3>2. h \in Handles /\ Installed(h, "block")
      BY <1>2, <1>4, <3>1, ManagedInstalled DEF Parents
    <3>3. Installed(h, "block")'
      BY <1>6, <3>1, <3>2
    <3>4. Valid(h)'
      BY <3>3, NothingIn DEF Installed, Valid
    <3> QED
      BY <1>6, <2>2, <3>4
  <2> QED
    BY <2>5, <2>6, <2>7
<1>9. LowerLive
  <2> SUFFICES ASSUME NEW i \in 1 .. Len(stack) - 1, NEW e, e = stack[i]
               PROVE  Alive(e)'
    BY DEF LowerLive
  <2>1. ~ Connecting(e) /\ e.op # "start"
    BY <1>1, NoneConnect
  <2>2. Asking(e) => Valid(e.h)'
    BY <1>8
  <2> QED
    BY <2>1, <2>2 DEF Alive, Connecting
<1>10. Chained(stack') /\ Lives'
  BY <1>1, <1>2, <1>9, LinkedReturns
<1>11. \A q : Installed(Root, q)' => q = "io"
  BY <1>6, Constants DEF Linked
<1>12. (scenario.loaded \subseteq bindings)'
  BY <1>1 DEF Linked
<1> QED
  BY <1>3, <1>10, <1>11, <1>12 DEF Linked, Reaching

-----------------------------------------------------------------------------
(**************** What keeps the claims of the calls below *****************)

\* What Tries and Rests ask of a frame.
Looks(f, g) ==
  /\ f.op = g.op /\ f.at = g.at /\ f.h = g.h
  /\ f.drivers = g.drivers /\ f.index = g.index /\ f.kids = g.kids

\* Nothing can be started that could not before, but for x.
Spares(x) ==
  /\ \A d \in Drivers, g \in Handles : g # x /\ Supports(d, g)' => Supports(d, g)
  /\ \A d \in Drivers, g \in Handles : Has(d, g) => Has(d, g)'
  /\ Asked' = Asked /\ Asked \subseteq Drivers

LEMMA LevelKept ==
  ASSUME NEW x, Spares(x), NEW g \in Handles, g # x
  PROVE  /\ \A d \in Drivers : Done(d, g) => Done(d, g)'
         /\ Level(g) => Level(g)'
<1>1. \A d \in Drivers : Done(d, g) => Done(d, g)'
  BY DEF Spares, Done
<1> QED
  BY <1>1 DEF Level, Spares

LEMMA ClaimsKept ==
  ASSUME NEW s, NEW t, NEW i, s[i] \in FrameType, Claims(s, i), Looks(t[i], s[i]),
         NEW x, Spares(x), Children \subseteq Handles,
         \A g : Awaited(s, i, g) => Awaited(t, i, g) \/ Level(g)',
         x \in Family(s[i].h) => Awaited(t, i, x),
         Resting(t, i) => /\ Resting(s, i) /\ Family(s[i].h)' \subseteq Family(s[i].h)
                          /\ s[i].h = Root =>
                                x # Root /\ ("bus" \in bindings' => "bus" \in bindings),
         \A d : Begun(s, i, d) => Begun(t, i, d) \/ Has(d, s[i].h)'
  PROVE  Claims(t, i)'
<1>1. PICK f : f = s[i]
  OBVIOUS
<1>2. PICK h : h = f.h
  OBVIOUS
<1>3. PICK e : e = t[i]
  OBVIOUS
<1>4. h \in Handles /\ f.drivers \in Seq(Drivers) /\ h \in Family(h)
  BY <1>1, <1>2 DEF FrameType, Family
<1>5. /\ e.op = f.op /\ e.at = f.at /\ e.h = h /\ e.drivers = f.drivers /\ e.index = f.index
      /\ e.kids = f.kids
  BY <1>1, <1>2, <1>3 DEF Looks
<1>6. Asked' = Asked /\ Asked \subseteq Drivers
  BY DEF Spares
<1>7. \A g : Awaited(s, i, g) => Awaited(t, i, g) \/ Level(g)'
  OBVIOUS
<1>8. Tries(t, i)'
  <2> SUFFICES ASSUME f.op = "connect", f.at = "try"
               PROVE  /\ \A d \in Asked : d \in Range(f.drivers) \/ Has(d, h)' \/ Begun(t, i, d)
                      /\ \A m \in DOMAIN f.drivers : m < f.index /\ f.drivers[m] \in Asked =>
                           Done(f.drivers[m], h)' \/ Awaited(t, i, h)
    BY <1>3, <1>5, <1>6 DEF Tries
  <2>1. ASSUME NEW d \in Asked
        PROVE  d \in Range(f.drivers) \/ Has(d, h)' \/ Begun(t, i, d)
    <3>1. d \in Range(f.drivers) \/ Has(d, h) \/ Begun(s, i, d)
      BY <1>1, <1>2 DEF Claims, Tries
    <3> QED
      BY <1>1, <1>2, <1>4, <1>6, <3>1 DEF Spares
  <2>2. ASSUME NEW m \in DOMAIN f.drivers, m < f.index, f.drivers[m] \in Asked
        PROVE  Done(f.drivers[m], h)' \/ Awaited(t, i, h)
    <3>1. Done(f.drivers[m], h) \/ Awaited(s, i, h)
      BY <1>1, <1>2, <2>2 DEF Claims, Tries
    <3>2. CASE Awaited(s, i, h)
      BY <1>6, <1>7, <2>2, <3>2 DEF Level
    <3>3. CASE Done(f.drivers[m], h) /\ h # x
      BY <1>4, <1>6, <2>2, <3>3, LevelKept
    <3>4. CASE h = x
      BY <1>1, <1>2, <1>4, <3>4
    <3> QED
      BY <3>1, <3>2, <3>3, <3>4
  <2> QED
    BY <2>1, <2>2
<1>9. Rests(t, i)'
  <2> SUFFICES ASSUME Resting(t, i)
               PROVE  /\ \A g \in Family(h)' \ Waiting(f) : Level(g)' \/ Awaited(t, i, g)
                      /\ h = Root /\ "bus" \in bindings' => Done("bus", Root)'
    <3>1. Waiting(e) = Waiting(f)
      BY <1>5 DEF Waiting
    <3> QED
      BY <1>3, <1>5, <3>1 DEF Rests
  <2>1. Resting(s, i) /\ Family(h)' \subseteq Family(h)
    BY <1>1, <1>2
  <2>2. ASSUME NEW g \in Family(h)', g \notin Waiting(f)
        PROVE  Level(g)' \/ Awaited(t, i, g)
    <3>1. g \in Family(h)
      BY <2>1
    <3>2. Level(g) \/ Awaited(s, i, g)
      BY <1>1, <1>2, <2>1, <2>2, <3>1 DEF Claims, Rests
    <3>3. g \in Handles
      BY <1>4, <3>1 DEF Family
    <3>4. CASE g # x
      BY <1>7, <3>2, <3>3, <3>4, LevelKept
    <3>5. CASE g = x
      BY <1>1, <1>2, <3>1, <3>5
    <3> QED
      BY <3>4, <3>5
  <2>3. ASSUME h = Root, "bus" \in bindings'
        PROVE  Done("bus", Root)'
    <3>1. x # Root /\ "bus" \in bindings
      BY <1>1, <1>2, <2>3
    <3>2. Done("bus", Root)
      BY <1>1, <1>2, <2>1, <2>3, <3>1 DEF Claims, Rests
    <3> QED
      BY <3>1, <3>2, LevelKept, Constants
  <2> QED
    BY <2>2, <2>3
<1> QED
  BY <1>8, <1>9 DEF Claims

\* The tables stay.
Still == UNCHANGED <<scenario, protocols, opens, bindings>>

LEMMA StillIs ==
  ASSUME Known, Linked, Still
  PROVE  /\ Spares(Null) /\ Steady /\ Asked \subseteq bindings /\ Asked' = Asked
         /\ \A d, g : (Supports(d, g)' <=> Supports(d, g)) /\ (Has(d, g)' <=> Has(d, g))
         /\ \A d, g : Done(d, g)' <=> Done(d, g)
         /\ \A g : (Level(g)' <=> Level(g)) /\ Family(g)' = Family(g)
         /\ Children' = Children
         /\ \A s, i : Claims(s, i)' <=> Claims(s, i)
<1>1. bindings \subseteq Drivers /\ scenario.loaded \subseteq bindings
  BY DEF Known, Typed, Linked
<1>2. scenario' = scenario /\ protocols' = protocols /\ opens' = opens /\ bindings' = bindings
  BY DEF Still
<1>3. Asked' = Asked /\ Asked \subseteq bindings
  BY <1>1, <1>2 DEF Asked
<1>4. \A d, g : Supports(d, g)' <=> Supports(d, g)
  BY <1>2 DEF Supports, OpenStatus, Installed, Manages, OpensOf, Some, Those
<1>5. \A d, g : Has(d, g)' <=> Has(d, g)
  BY <1>2 DEF Has, Managed, Valid
<1>6. \A d, g : Done(d, g)' <=> Done(d, g)
  BY <1>4, <1>5 DEF Done
<1>7. \A g : Level(g)' <=> Level(g)
  BY <1>3, <1>6 DEF Level
<1>8. Children' = Children
  BY <1>2 DEF Children
<1>9. \A g : Family(g)' = Family(g)
  BY <1>8 DEF Family
<1>10. ASSUME NEW s, NEW i
       PROVE  Claims(s, i)' <=> Claims(s, i)
  <2>1. Tries(s, i)' <=> Tries(s, i)
    BY <1>3, <1>5, <1>6 DEF Tries
  <2>2. Rests(s, i)' <=> Rests(s, i)
    BY <1>2, <1>6, <1>7, <1>9 DEF Rests
  <2> QED
    BY <2>1, <2>2 DEF Claims
<1> QED
  BY <1>1, <1>2, <1>3, <1>4, <1>5, <1>6, <1>7, <1>8, <1>9, <1>10 DEF Spares, Steady

\* The calls under way: who is there, and that a Start is the last one only.
LEMMA TheCalls ==
  ASSUME Known, Ordered, stack # <<>>, NEW s, s = stack
  PROVE  /\ s \in Seq(Frames) /\ Len(s) \in Nat /\ Len(s) > 0 /\ DOMAIN s = 1 .. Len(s)
         /\ Top = s[Len(s)] /\ Top \in FrameType /\ Top.h \in Handles
         /\ \A i \in DOMAIN s : s[i] \in FrameType
         /\ \A i \in DOMAIN s : \A d : Begun(s, i, d) => i + 1 = Len(s)
         /\ Children \subseteq Handles
<1>1. s \in Seq(Frames) /\ Laid(s)
  BY DEF Known, Typed, Ordered
<1>2. Len(s) \in Nat /\ Len(s) > 0 /\ DOMAIN s = 1 .. Len(s) /\ Top = s[Len(s)]
  BY <1>1, TopFrame
<1>3. \A i \in DOMAIN s : s[i] \in FrameType
  BY <1>1 DEF Frames
<1>4. ASSUME NEW i \in DOMAIN s, NEW d, Begun(s, i, d), i + 1 # Len(s)
      PROVE  FALSE
  <2>1. i + 1 \in 1 .. Len(s) - 1 /\ s[i + 1].op = "start"
    BY <1>2, <1>4 DEF Begun
  <2>2. Upon(s[i + 1], s[i + 1 + 1])
    BY <1>1, <2>1 DEF Laid
  <2> QED
    BY <2>1, <2>2 DEF Upon
<1>5. Len(s) \in DOMAIN s
  BY <1>2
<1>6. Top \in FrameType /\ Top.h \in Handles
  BY <1>2, <1>3, <1>5 DEF FrameType
<1>7. Children \subseteq Handles
  BY Constants DEF Children
<1> QED
  BY <1>1, <1>2, <1>3, <1>4, <1>6, <1>7

\* What a call that connects claims while it starts D and connects H.
Claim(f, D, H) ==
  /\ f.at = "try" =>
       /\ \A d \in Asked : d \in Range(f.drivers) \/ Has(d, f.h) \/ d \in D
       /\ \A m \in DOMAIN f.drivers : m < f.index /\ f.drivers[m] \in Asked =>
             Done(f.drivers[m], f.h)
  /\ f.at = "descend" =>
       /\ \A x \in Family(f.h) \ Range(f.kids) : Level(x) \/ x \in H
       /\ f.h = Root /\ "bus" \in bindings => Done("bus", Root)

LEMMA LastClaims ==
  ASSUME NEW s, NEW n \in Nat, DOMAIN s = 1 .. n, Len(s) = n, n > 0, s[n].op = "connect"
  PROVE  /\ Claims(s, n) <=> Claim(s[n], {}, {})
         /\ \A g : ~ Awaited(s, n, g)
<1>1. \A g : ~ Awaited(s, n, g)
  BY DEF Awaited
<1>2. \A d : ~ Begun(s, n, d)
  BY DEF Begun
<1>3. Resting(s, n) <=> s[n].at = "descend"
  BY DEF Resting, Removal
<1>4. Waiting(s[n]) = Range(s[n].kids)
  BY DEF Waiting
<1> QED
  BY <1>1, <1>2, <1>3, <1>4 DEF Claims, Claim, Tries, Rests

LEMMA LowerOne ==
  \A n \in Nat : \A j : j \in 1 .. n /\ j # n => j \in 1 .. n - 1
OBVIOUS

LEMMA ConnectGoesOn ==
  ASSUME Known, Ordered, Reaching, Still, stack # <<>>, Top.op = "connect",
         NEW f, GoOn(f), Same(f, Top), Range(f.drivers) \subseteq bindings,
         scenario.flaky = {} => /\ Claim(f, {}, {})
                                /\ f.at = "descend" => Top.at = "descend" \/ Level(Top.h)
  PROVE  Reaching'
<1>0. PICK n : n = Len(stack)
  OBVIOUS
<1>1. Linked /\ Covered
  BY DEF Reaching
<1>2. PICK s : s = stack
  OBVIOUS
<1>3. PICK t : t = stack'
  OBVIOUS
<1>4. /\ s \in Seq(Frames) /\ n \in Nat /\ n > 0 /\ DOMAIN s = 1 .. n /\ Len(s) = n
      /\ Top = s[n] /\ \A i \in DOMAIN s : s[i] \in FrameType
      /\ \A i \in DOMAIN s : \A d : Begun(s, i, d) => i + 1 = n
      /\ Children \subseteq Handles
  BY <1>0, <1>2, TheCalls
<1>5. /\ Len(t) = n /\ t[n] = f /\ DOMAIN t = 1 .. n
      /\ \A i \in 1 .. n - 1 : t[i] = s[i]
  BY <1>0, <1>2, <1>3, <1>4, GoesTo
<1>6. PICK h : h = Top.h
  OBVIOUS
<1>7. f.op = "connect" /\ f.h = h /\ f.callback = Top.callback
  BY <1>6 DEF Same
<1>8. Alive(f)'
  <2>1. Valid(h)
    <3>1. n \in DOMAIN stack /\ Top = stack[n]
      BY <1>2, <1>4
    <3> QED
      BY <1>1, <1>6, <3>1 DEF Linked, Lives, Alive, Connecting
  <2>2. Valid(h)' /\ bindings' = bindings
    BY <2>1 DEF Still, Valid
  <2> QED
    BY <1>7, <2>2 DEF Alive
<1>9. Linked'
  <2>1. stack \in Seq(Frames) /\ Chained(stack) /\ LowerLive /\ Steady
    BY <1>1, SteadyLives, StillIs
  <2> QED
    BY <1>1, <1>8, <2>1, LinkedGoes, LinkedStays
<1>10. ASSUME scenario.flaky = {}
       PROVE  Starts(t)' /\ \A i \in DOMAIN t : Claims(t, i)'
  <2>1. Starts(t)'
    BY <1>5, <1>7 DEF Starts
  <2>2. Claims(t, n)'
    <3>1. Claim(f, {}, {})
      BY <1>10
    <3>2. Claims(t, n)
      BY <1>4, <1>5, <1>7, <3>1, LastClaims
    <3> QED
      BY <1>1, <3>2, StillIs
  <2>3. ASSUME NEW i \in 1 .. n - 1
        PROVE  Claims(t, i)'
    <3>1. i \in DOMAIN s /\ i \in 1 .. n - 1
      BY <1>4
    <3>2. Claims(s, i)
      BY <1>1, <1>2, <1>10, <3>1 DEF Covered
    <3>3. Looks(t[i], s[i]) /\ t[i] = s[i]
      BY <1>5, <3>1 DEF Looks
    <3>4. Null \notin Family(s[i].h)
      BY <1>4, <3>1, Constants DEF Family, FrameType
    <3>5. ASSUME NEW g, Awaited(s, i, g)
          PROVE  Awaited(t, i, g) \/ Level(g)'
      <4>1. PICK j \in 1 .. n : i < j /\ s[j].op = "connect" /\ s[j].h = g /\ s[j].at # "descend"
        BY <1>4, <3>5 DEF Awaited
      <4>2. CASE j # n
        <5>1. j \in 1 .. n - 1
          BY <1>4, <4>1, <4>2
        <5>2. t[j] = s[j] /\ j \in DOMAIN t
          BY <1>5, <4>1, <5>1
        <5> QED
          BY <4>1, <5>2 DEF Awaited
      <4>3. CASE j = n /\ f.at # "descend"
        <5>1. j \in DOMAIN t /\ t[j] = f /\ h = g
          BY <1>4, <1>5, <1>6, <4>1, <4>3
        <5> QED
          BY <1>7, <4>1, <4>3, <5>1 DEF Awaited
      <4>4. CASE j = n /\ f.at = "descend"
        <5>1. Level(g)
          BY <1>4, <1>10, <4>1, <4>4
        <5> QED
          BY <1>1, <5>1, StillIs
      <4> QED
        BY <4>2, <4>3, <4>4
    <3>6. \A d : ~ Begun(s, i, d)
      <4>1. ASSUME NEW d, Begun(s, i, d)
            PROVE  FALSE
        <5>1. i + 1 = n /\ s[i + 1].op = "start"
          BY <1>4, <3>1, <4>1 DEF Begun
        <5> QED
          BY <1>4, <5>1
      <4> QED
        BY <4>1
    <3>7. Resting(t, i) => Resting(s, i)
      <4>1. i # n /\ i + 1 \in 1 .. n
        BY <1>4, <3>1
      <4>2. t[i + 1].callback = s[i + 1].callback
        <5>1. CASE i + 1 = n
          BY <1>4, <1>5, <1>7, <5>1
        <5>2. CASE i + 1 # n
          <6>1. i + 1 \in 1 .. n - 1
            BY <1>4, <4>1, <5>2
          <6> QED
            BY <1>5, <6>1
        <5> QED
          BY <5>1, <5>2
      <4> QED
        BY <1>4, <1>5, <3>3, <4>1, <4>2 DEF Resting
    <3>8. Spares(Null) /\ Family(s[i].h)' = Family(s[i].h) /\ bindings' = bindings /\ Null # Root
      BY <1>1, StillIs, Constants DEF Still
    <3> QED
      BY <1>4, <3>1, <3>2, <3>3, <3>4, <3>5, <3>6, <3>7, <3>8, ClaimsKept
  <2>4. ASSUME NEW i \in 1 .. n
        PROVE  Claims(t, i)'
    <3>1. i = n \/ i \in 1 .. n - 1
      BY <1>4
    <3> QED
      BY <2>2, <2>3, <3>1
  <2> QED
    BY <1>5, <2>1, <2>4
<1>11. Covered'
  BY <1>3, <1>10 DEF Covered, Still
<1> QED
  BY <1>9, <1>11 DEF Reaching

LEMMA TopClaims ==
  ASSUME Known, Ordered, Reaching, stack # <<>>
  PROVE  /\ Linked /\ Top \in FrameType /\ Top.h \in Handles /\ Alive(Top)
         /\ Asked \subseteq bindings /\ bindings \subseteq Drivers
         /\ Top.op = "connect" /\ scenario.flaky = {} => Claim(Top, {}, {})
<1>1. PICK s : s = stack
  OBVIOUS
<1>2. /\ s \in Seq(Frames) /\ Len(s) \in Nat /\ Len(s) > 0 /\ DOMAIN s = 1 .. Len(s)
      /\ Top = s[Len(s)] /\ Top \in FrameType /\ Top.h \in Handles
  BY <1>1, TheCalls
<1>3. Len(s) \in DOMAIN s
  BY <1>2
<1>4. Linked /\ Alive(Top)
  <2>1. Linked
    BY DEF Reaching
  <2> QED
    BY <1>1, <1>2, <1>3, <2>1 DEF Linked, Lives
<1>5. Asked \subseteq bindings /\ bindings \subseteq Drivers
  BY <1>4 DEF Asked, Linked, Known, Typed
<1>6. ASSUME Top.op = "connect", scenario.flaky = {}
      PROVE  Claim(Top, {}, {})
  <2>1. Claims(s, Len(s))
    BY <1>1, <1>3, <1>6 DEF Reaching, Covered
  <2> QED
    BY <1>2, <1>6, <2>1, LastClaims
<1> QED
  BY <1>2, <1>4, <1>5, <1>6

LEMMA CollectReaches ==
  ASSUME Known, Ordered, Reaching, CollectDrivers PROVE Reaching'
<1>1. stack # <<>> /\ Top.op = "connect" /\ Still /\ Top \in FrameType
  BY TopClaims DEF CollectDrivers, At, Still, database
<1>2. PICK f : f = [Top EXCEPT !.at = "sorted", !.drivers = BoundDrivers]
  OBVIOUS
<1>3. GoOn(f) /\ Same(f, Top) /\ f.at = "sorted" /\ f.drivers = BoundDrivers
  BY <1>1, <1>2 DEF CollectDrivers, Same, FrameType
<1>4. Range(BoundDrivers) \subseteq bindings
  <2> DEFINE S == {i \in DOMAIN Order : Order[i] \in bindings}
  <2>1. Order \in Seq(Drivers) /\ S \subseteq DOMAIN Order
    BY Constants DEF Order
  <2>2. \A i \in S : Order[i] \in bindings
    OBVIOUS
  <2>3. Range(Subsequence(Order, S)) = {Order[i] : i \in S}
    <3> HIDE DEF S
    <3> QED
      BY <2>1, PartOf
  <2> QED
    BY <2>2, <2>3 DEF BoundDrivers
<1>5. Claim(f, {}, {})
  BY <1>3 DEF Claim
<1> QED
  BY <1>1, <1>3, <1>4, <1>5, ConnectGoesOn

LEMMA CheckReaches ==
  ASSUME Known, Ordered, Reaching, CheckDrivers PROVE Reaching'
<1>1. stack # <<>> /\ Top.op = "connect" /\ Still
  BY DEF CheckDrivers, At, Still, database
<1>2. Top \in FrameType /\ Alive(Top) /\ Asked \subseteq bindings
  BY <1>1, TopClaims
<1>3. PICK at : /\ at = IF bindings \ Range(Top.drivers) # {} THEN "collect" ELSE "try"
                /\ GoOn([Top EXCEPT !.at = at, !.index = 1])
  BY DEF CheckDrivers
<1>4. PICK f : f = [Top EXCEPT !.at = at, !.index = 1]
  OBVIOUS
<1>5. /\ GoOn(f) /\ Same(f, Top) /\ f.at = at /\ f.drivers = Top.drivers /\ f.index = 1
  BY <1>2, <1>3, <1>4 DEF Same, FrameType
<1>6. Range(f.drivers) \subseteq bindings
  BY <1>1, <1>2, <1>5 DEF Alive
<1>7. Claim(f, {}, {})
  <2>1. f.drivers \in Seq(Drivers)
    BY <1>2, <1>5 DEF FrameType
  <2>2. \A m \in DOMAIN f.drivers : ~ (m < f.index)
    BY <1>5, <2>1
  <2>3. at = "try" => Asked \subseteq Range(f.drivers)
    BY <1>2, <1>3, <1>5
  <2> QED
    BY <1>3, <1>5, <2>2, <2>3 DEF Claim
<1>8. f.at # "descend"
  BY <1>3, <1>5
<1> QED
  BY <1>1, <1>5, <1>6, <1>7, <1>8, ConnectGoesOn

LEMMA PassReaches ==
  ASSUME Known, Ordered, Reaching, TryDriver, ~ Supports(Top.drivers[Top.index], Top.h)
  PROVE  Reaching'
<1>1. stack # <<>> /\ Top.op = "connect" /\ Top.at = "try" /\ Still
  BY DEF TryDriver, At, Still, database
<1>2. Top \in FrameType /\ Alive(Top) /\ (scenario.flaky = {} => Claim(Top, {}, {}))
  BY <1>1, TopClaims
<1>3. PICK f : f = [Top EXCEPT !.index = @ + 1, !.status = ""]
  OBVIOUS
<1>4. GoOn(f)
  BY <1>3 DEF TryDriver
<1>5. /\ Same(f, Top) /\ f.at = "try" /\ f.drivers = Top.drivers /\ f.index = Top.index + 1
      /\ f.h = Top.h /\ f.kids = Top.kids
  BY <1>1, <1>2, <1>3 DEF Same, FrameType
<1>6. Range(f.drivers) \subseteq bindings
  BY <1>1, <1>2, <1>5 DEF Alive
<1>7. ASSUME scenario.flaky = {}
      PROVE  Claim(f, {}, {})
  <2>1. Claim(Top, {}, {}) /\ Top.drivers \in Seq(Drivers) /\ Top.index \in Nat
    BY <1>2, <1>7 DEF FrameType
  <2>2. ASSUME NEW m \in DOMAIN f.drivers, m < f.index, f.drivers[m] \in Asked
        PROVE  Done(f.drivers[m], f.h)
    <3>1. m \in Nat /\ (m < Top.index \/ m = Top.index)
      BY <1>5, <2>1, <2>2
    <3>2. CASE m < Top.index
      BY <1>1, <1>5, <2>1, <2>2, <3>2 DEF Claim
    <3>3. CASE m = Top.index
      BY <1>5, <3>3 DEF Done
    <3> QED
      BY <3>1, <3>2, <3>3
  <2> QED
    BY <1>1, <1>5, <2>1, <2>2 DEF Claim
<1> QED
  BY <1>1, <1>4, <1>5, <1>6, <1>7, ConnectGoesOn

\* Every driver has been asked.
LEMMA TriedAll ==
  ASSUME Known, Ordered, Reaching, Tried, scenario.flaky = {}
  PROVE  Level(Top.h)
<1>1. stack # <<>> /\ Top.op = "connect" /\ Top.at = "try" /\ Top.index > Len(Top.drivers)
  BY DEF Tried, At
<1>2. Top \in FrameType /\ Claim(Top, {}, {})
  BY <1>1, TopClaims
<1>3. Top.drivers \in Seq(Drivers) /\ Top.index \in Nat
  BY <1>2 DEF FrameType
<1>4. ASSUME NEW d \in Asked
      PROVE  Done(d, Top.h)
  <2>1. CASE Has(d, Top.h)
    BY <2>1 DEF Done
  <2>2. CASE d \in Range(Top.drivers)
    <3>1. PICK m \in DOMAIN Top.drivers : Top.drivers[m] = d
      BY <2>2 DEF Range
    <3>2. m < Top.index
      BY <1>1, <1>3
    <3> QED
      BY <1>1, <1>2, <1>4, <3>1, <3>2 DEF Claim
  <2> QED
    BY <1>1, <1>2, <2>1, <2>2 DEF Claim
<1> QED
  BY <1>4 DEF Level

\* The notification function closes nothing, and when it loads drivers the bus
\* driver is there already.
Waking ==
  \A s \in Scenarios : "close" \notin s.callbacks /\ ("load" \in s.callbacks => "bus" \in s.loaded)

LEMMA BusAsked ==
  ASSUME Waking, Known
  PROVE  "bus" \in bindings => "bus" \in Asked
BY DEF Waking, Known, Typed, Asked

\* What is below a controller is there.
LEMMA FamilyIs ==
  ASSUME Known, Ordered, NEW h \in Handles
  PROVE  /\ Family(h) \subseteq Handles /\ \A k \in Children : Valid(k)
         /\ Family(h) = {h} \cup Range(ChildrenOf(h, Drivers))
<1>1. Tables /\ Sound
  BY OrderIs
<1>2. "bus" \in Drivers
  BY Constants
<1>3. Range(ChildrenOf(h, Drivers)) = IF h = Root THEN Children ELSE {}
  BY <1>1, <1>2, BusChildren, NothingIn
<1> QED
  BY <1>1, <1>3, Constants DEF Family, Sound, Parents, Children

LEMMA HeadOrTail ==
  ASSUME NEW T, NEW s \in Seq(T), s # <<>>
  PROVE  Head(s) \in T /\ Range(s) = {Head(s)} \cup Range(Tail(s))
<1>1. Head(s) = s[1] /\ s[1] \in T /\ 1 \in DOMAIN s /\ Len(s) \in Nat /\ DOMAIN s = 1 .. Len(s)
  OBVIOUS
<1>2. Len(Tail(s)) = Len(s) - 1 /\ Tail(s) \in Seq(T)
      /\ \A i \in 1 .. Len(s) - 1 : Tail(s)[i] = s[i + 1]
  OBVIOUS
<1>3. DOMAIN Tail(s) = 1 .. Len(s) - 1
  BY <1>2
<1>4. ASSUME NEW i \in DOMAIN s
      PROVE  s[i] = Head(s) \/ s[i] \in Range(Tail(s))
  <2>1. CASE i = 1
    BY <1>1, <2>1
  <2>2. CASE i # 1
    <3>1. i - 1 \in DOMAIN Tail(s) /\ i - 1 \in 1 .. Len(s) - 1 /\ (i - 1) + 1 = i
      BY <1>1, <1>3, <2>2
    <3>2. Tail(s)[i - 1] = s[i]
      BY <1>2, <3>1
    <3> QED
      BY <3>1, <3>2 DEF Range
  <2> QED
    BY <2>1, <2>2
<1>5. ASSUME NEW i \in DOMAIN Tail(s)
      PROVE  Tail(s)[i] \in Range(s)
  <2>1. i + 1 \in DOMAIN s /\ Tail(s)[i] = s[i + 1]
    BY <1>1, <1>2, <1>3
  <2> QED
    BY <2>1 DEF Range
<1> QED
  BY <1>1, <1>4, <1>5 DEF Range

LEMMA TriedGoesOn ==
  ASSUME Waking, Known, Ordered, Reaching, Tried, Top.recursive /\ Valid(Top.h)
  PROVE  Reaching'
<1>1. stack # <<>> /\ Top.op = "connect" /\ Still
  BY DEF Tried, At, Still, database
<1>2. Top \in FrameType /\ Alive(Top) /\ Top.h \in Handles
  BY <1>1, TopClaims
<1>3. PICK c : c = ChildrenOf(Top.h, Drivers)
  OBVIOUS
<1>4. PICK f : f = [Top EXCEPT !.at = "descend", !.status = "", !.index = 0, !.kids = c]
  OBVIOUS
<1>5. GoOn(f)
  BY <1>3, <1>4 DEF Tried
<1>6. Same(f, Top) /\ f.at = "descend" /\ f.drivers = Top.drivers /\ f.h = Top.h /\ f.kids = c
  BY <1>2, <1>4 DEF Same, FrameType
<1>7. Range(f.drivers) \subseteq bindings
  BY <1>1, <1>2, <1>6 DEF Alive
<1>8. ASSUME scenario.flaky = {}
      PROVE  Claim(f, {}, {}) /\ Level(Top.h)
  <2>1. Level(Top.h)
    BY <1>8, TriedAll
  <2>2. Family(f.h) = {f.h} \cup Range(f.kids)
    BY <1>2, <1>3, <1>6, FamilyIs
  <2>3. f.h = Root /\ "bus" \in bindings => Done("bus", Root)
    BY <1>6, <2>1, BusAsked DEF Level
  <2> QED
    BY <1>6, <2>1, <2>2, <2>3 DEF Claim
<1> QED
  BY <1>1, <1>5, <1>6, <1>7, <1>8, ConnectGoesOn

LEMMA DescendSkips ==
  ASSUME Known, Ordered, Reaching, Descend, ~ Valid(Head(Top.kids))
  PROVE  Reaching'
<1>1. stack # <<>> /\ Top.op = "connect" /\ Top.at = "descend" /\ Still /\ Top.kids # <<>>
  BY DEF Descend, At, Still, database
<1>2. /\ Top \in FrameType /\ Alive(Top) /\ Top.h \in Handles
      /\ scenario.flaky = {} => Claim(Top, {}, {})
  BY <1>1, TopClaims
<1>3. PICK f : f = [Top EXCEPT !.kids = Tail(@), !.status = ""]
  OBVIOUS
<1>4. GoOn(f)
  BY <1>3 DEF Descend
<1>5. /\ Same(f, Top) /\ f.at = "descend" /\ f.drivers = Top.drivers /\ f.h = Top.h
      /\ f.kids = Tail(Top.kids)
  BY <1>1, <1>2, <1>3 DEF Same, FrameType
<1>6. Range(f.drivers) \subseteq bindings
  BY <1>1, <1>2, <1>5 DEF Alive
<1>7. Range(Top.kids) \subseteq {Head(Top.kids)} \cup Range(f.kids)
  <2>1. PICK q : q = Top.kids
    OBVIOUS
  <2>2. q \in Seq(Kids) /\ q # <<>>
    BY <1>1, <1>2, <2>1 DEF FrameType
  <2> QED
    BY <1>5, <2>1, <2>2, HeadOrTail
<1>8. Head(Top.kids) \notin Family(f.h)
  <2>1. Valid(Top.h)
    BY <1>1, <1>2 DEF Alive, Connecting
  <2>2. \A k \in Children : Valid(k)
    BY <1>2, FamilyIs
  <2> QED
    BY <1>5, <2>1, <2>2 DEF Family
<1>9. scenario.flaky = {} => Claim(f, {}, {})
  BY <1>1, <1>2, <1>5, <1>7, <1>8 DEF Claim
<1> QED
  BY <1>1, <1>4, <1>5, <1>6, <1>9, ConnectGoesOn

LEMMA ConnectCallsOn ==
  ASSUME Known, Ordered, Reaching, Still, stack # <<>>, Top.op = "connect",
         NEW f, NEW g, Invoke(f, g), Same(f, Top), f.at = Top.at,
         Range(f.drivers) \subseteq bindings,
         ~ g.callback, Made(f, g), Alive(g)', g.op \in {"connect", "start"},
         g.op = "connect" => g.at = "collect",
         g.op = "start" => g.at = "start" /\ Supports(g.agent, g.h),
         NEW D, D = IF g.op = "start" THEN {g.agent} ELSE {},
         NEW H, H = IF g.op = "connect" THEN {g.h} ELSE {},
         scenario.flaky = {} => Claim(f, D, H)
  PROVE  Reaching'
<1>1. PICK n : n = Len(stack)
  OBVIOUS
<1>2. PICK s : s = stack
  OBVIOUS
<1>3. PICK t : t = stack'
  OBVIOUS
<1>4. /\ s \in Seq(Frames) /\ n \in Nat /\ n > 0 /\ DOMAIN s = 1 .. n /\ Len(s) = n
      /\ Top = s[n] /\ \A i \in DOMAIN s : s[i] \in FrameType
      /\ \A i \in DOMAIN s : \A d : Begun(s, i, d) => i + 1 = n
      /\ Children \subseteq Handles
  BY <1>1, <1>2, TheCalls
<1>5. /\ Len(t) = n + 1 /\ t[n] = f /\ t[n + 1] = g /\ DOMAIN t = 1 .. n + 1
      /\ \A i \in 1 .. n - 1 : t[i] = s[i]
  BY <1>1, <1>2, <1>3, <1>4, CallsTo
<1>6. PICK h : h = Top.h
  OBVIOUS
<1>7. f.op = "connect" /\ f.h = h /\ f.callback = Top.callback
  BY <1>6 DEF Same
<1>8. Linked /\ Covered
  BY DEF Reaching
<1>9. Alive(f)'
  <2>1. Valid(h)
    <3>1. Alive(Top)
      BY TopClaims
    <3> QED
      BY <1>6, <3>1 DEF Alive, Connecting
  <2>2. Valid(h)' /\ bindings' = bindings
    BY <2>1 DEF Still, Valid
  <2> QED
    BY <1>7, <2>2 DEF Alive
<1>10. Linked'
  <2>1. stack \in Seq(Frames) /\ Chained(stack) /\ LowerLive /\ Steady
    BY <1>8, SteadyLives, StillIs
  <2>2. Follows(g)
    BY DEF Follows
  <2>3. Chained(stack') /\ Lives'
    BY <1>9, <2>1, <2>2, LinkedCalls
  <2> QED
    BY <1>8, <2>1, <2>3, LinkedStays
<1>11. ASSUME scenario.flaky = {}
       PROVE  Starts(t)' /\ \A i \in DOMAIN t : Claims(t, i)'
  <2>1. Starts(t)'
    <3>1. g.op = "start" => g.at = "start" /\ Supports(g.agent, g.h)'
      BY <1>8, StillIs
    <3> QED
      BY <1>5, <3>1 DEF Starts
  <2>2. Claims(t, n)
    <3>1. Claim(f, D, H)
      BY <1>11
    <3>2. \A d \in D : Begun(t, n, d)
      BY <1>4, <1>5 DEF Begun
    <3>3. \A x \in H : Awaited(t, n, x)
      <4>1. n + 1 \in DOMAIN t /\ n < n + 1
        BY <1>4, <1>5
      <4> QED
        BY <1>5, <4>1 DEF Awaited
    <3>4. Tries(t, n)
      BY <1>5, <3>1, <3>2 DEF Tries, Claim
    <3>5. Rests(t, n)
      <4>1. Resting(t, n) => f.at = "descend"
        BY <1>5, <1>7 DEF Resting, Removal
      <4>2. Waiting(f) = Range(f.kids)
        BY <1>7 DEF Waiting
      <4> QED
        BY <1>5, <3>1, <3>3, <4>1, <4>2 DEF Rests, Claim
    <3> QED
      BY <3>4, <3>5 DEF Claims
  <2>3. Claims(t, n + 1)
    BY <1>5 DEF Claims, Tries, Rests, Resting, Removal
  <2>4. ASSUME NEW i \in 1 .. n - 1
        PROVE  Claims(t, i)'
    <3>1. i \in DOMAIN s /\ i \in 1 .. n - 1
      BY <1>4
    <3>2. Claims(s, i)
      BY <1>2, <1>8, <1>11, <3>1 DEF Covered
    <3>3. Looks(t[i], s[i]) /\ t[i] = s[i]
      BY <1>5, <3>1 DEF Looks
    <3>4. Null \notin Family(s[i].h)
      BY <1>4, <3>1, Constants DEF Family, FrameType
    <3>5. ASSUME NEW x, Awaited(s, i, x)
          PROVE  Awaited(t, i, x)
      <4>1. PICK j \in 1 .. n : i < j /\ s[j].op = "connect" /\ s[j].h = x /\ s[j].at # "descend"
        BY <1>4, <3>5 DEF Awaited
      <4>2. CASE j # n
        <5>1. j \in 1 .. n - 1
          BY <1>4, <4>2, LowerOne
        <5>2. t[j] = s[j] /\ j \in DOMAIN t
          <6>1. j \in 1 .. n + 1
            BY <1>4, <4>1
          <6> QED
            BY <1>5, <5>1, <6>1
        <5> QED
          BY <4>1, <5>2 DEF Awaited
      <4>3. CASE j = n
        <5>1. j \in DOMAIN t /\ t[j] = f /\ h = x
          BY <1>4, <1>5, <1>6, <4>1, <4>3
        <5> QED
          BY <1>4, <1>7, <4>1, <4>3, <5>1 DEF Awaited
      <4> QED
        BY <4>2, <4>3
    <3>6. \A d : ~ Begun(s, i, d)
      <4>1. ASSUME NEW d, Begun(s, i, d)
            PROVE  FALSE
        <5>1. i + 1 = n /\ s[i + 1].op = "start"
          BY <1>4, <3>1, <4>1 DEF Begun
        <5> QED
          BY <1>4, <5>1
      <4> QED
        BY <4>1
    <3>7. Resting(t, i) => Resting(s, i)
      <4>1. i # n + 1 /\ i + 1 \in 1 .. n
        BY <1>4, <3>1
      <4>2. t[i + 1].callback = s[i + 1].callback
        <5>1. CASE i + 1 = n
          BY <1>4, <1>5, <1>7, <5>1
        <5>2. CASE i + 1 # n
          <6>1. i + 1 \in 1 .. n - 1
            BY <1>4, <4>1, <5>2
          <6> QED
            BY <1>5, <6>1
        <5> QED
          BY <5>1, <5>2
      <4> QED
        BY <1>4, <1>5, <3>3, <4>1, <4>2 DEF Resting
    <3>8. Spares(Null) /\ Family(s[i].h)' = Family(s[i].h) /\ bindings' = bindings /\ Null # Root
      BY <1>8, StillIs, Constants DEF Still
    <3> QED
      BY <1>4, <3>1, <3>2, <3>3, <3>4, <3>5, <3>6, <3>7, <3>8, ClaimsKept
  <2>5. ASSUME NEW i \in 1 .. n + 1
        PROVE  Claims(t, i)'
    <3>1. i = n \/ i = n + 1 \/ i \in 1 .. n - 1
      BY <1>4
    <3> QED
      BY <1>8, <2>2, <2>3, <2>4, <3>1, StillIs
  <2> QED
    BY <1>5, <2>1, <2>5
<1>12. Covered'
  BY <1>3, <1>11 DEF Covered, Still
<1> QED
  BY <1>10, <1>12 DEF Reaching

LEMMA Together ==
  ASSUME NEW T, NEW u \in Seq(T), NEW v \in Seq(T)
  PROVE  /\ u \o v \in Seq(T) /\ Len(u \o v) = Len(u) + Len(v)
         /\ \A i \in 1 .. Len(u) + Len(v) :
              (u \o v)[i] = IF i <= Len(u) THEN u[i] ELSE v[i - Len(u)]
OBVIOUS

LEMMA AllButOne ==
  ASSUME NEW T, NEW q \in Seq(T), NEW m \in Nat, m > 0, m <= Len(q)
  PROVE  RemoveAt(q, m) \in Seq(T) /\ Range(q) = {q[m]} \cup Range(RemoveAt(q, m))
<1>1. RemoveAt(q, m) = SubSeq(q, 1, m - 1) \o SubSeq(q, m + 1, Len(q))
  BY DEF RemoveAt
<1>2. PICK r : r = RemoveAt(q, m)
  OBVIOUS
<1>3. /\ r \in Seq(T) /\ Len(r) = Len(q) - 1 /\ Len(q) \in Nat
      /\ \A i \in 1 .. Len(q) - 1 : r[i] = IF i < m THEN q[i] ELSE q[i + 1]
  <2>1. PICK u : u = SubSeq(q, 1, m - 1)
    OBVIOUS
  <2>2. PICK v : v = SubSeq(q, m + 1, Len(q))
    OBVIOUS
  <2>3. u \in Seq(T) /\ Len(u) = m - 1 /\ \A i \in 1 .. m - 1 : u[i] = q[i]
    BY <2>1
  <2>4. v \in Seq(T) /\ Len(v) = Len(q) - m /\ \A i \in 1 .. Len(q) - m : v[i] = q[m + i]
    BY <2>2
  <2>5. r = u \o v
    BY <1>1, <1>2, <2>1, <2>2
  <2>6. /\ r \in Seq(T) /\ Len(r) = Len(u) + Len(v)
        /\ \A i \in 1 .. Len(u) + Len(v) : r[i] = IF i <= Len(u) THEN u[i] ELSE v[i - Len(u)]
    BY <2>3, <2>4, <2>5, Together
  <2>7. ASSUME NEW i \in 1 .. Len(q) - 1
        PROVE  r[i] = IF i < m THEN q[i] ELSE q[i + 1]
    <3>1. i \in 1 .. Len(u) + Len(v)
      BY <2>3, <2>4
    <3>2. CASE i < m
      <4>1. i \in 1 .. m - 1 /\ i <= Len(u)
        BY <2>3, <3>2
      <4> QED
        BY <2>3, <2>6, <3>1, <3>2, <4>1
    <3>3. CASE ~ (i < m)
      <4>1. i - (m - 1) \in 1 .. Len(q) - m /\ ~ (i <= Len(u)) /\ m + (i - (m - 1)) = i + 1
        BY <2>3, <3>3
      <4>2. r[i] = v[i - (m - 1)]
        BY <2>3, <2>6, <3>1, <4>1
      <4>3. v[i - (m - 1)] = q[i + 1]
        BY <2>4, <4>1
      <4> QED
        BY <3>3, <4>2, <4>3
    <3> QED
      BY <3>2, <3>3
  <2>8. Len(q) \in Nat
    OBVIOUS
  <2>9. Len(r) = Len(q) - 1
    BY <2>3, <2>4, <2>6, <2>8
  <2> QED
    BY <2>6, <2>7, <2>8, <2>9
<1>4. DOMAIN r = 1 .. Len(q) - 1 /\ DOMAIN q = 1 .. Len(q)
  BY <1>3
<1>5. ASSUME NEW i \in DOMAIN q
      PROVE  i = m \/ q[i] \in Range(r)
  <2>1. CASE i < m
    <3>1. i \in DOMAIN r /\ r[i] = q[i]
      BY <1>3, <1>4, <2>1
    <3> QED
      BY <3>1 DEF Range
  <2>2. CASE i > m
    <3>1. i - 1 \in DOMAIN r /\ i - 1 \in 1 .. Len(q) - 1 /\ ~ (i - 1 < m) /\ (i - 1) + 1 = i
      BY <1>3, <1>4, <2>2
    <3>2. r[i - 1] = q[i]
      BY <1>3, <3>1
    <3> QED
      BY <3>1, <3>2 DEF Range
  <2>3. i = m \/ i < m \/ i > m
    BY <1>3, <1>4
  <2> QED
    BY <2>1, <2>2, <2>3
<1>6. ASSUME NEW i \in DOMAIN r
      PROVE  r[i] \in Range(q)
  <2>1. i \in DOMAIN q /\ i + 1 \in DOMAIN q /\ r[i] \in {q[i], q[i + 1]}
    BY <1>3, <1>4
  <2> QED
    BY <2>1 DEF Range
<1>7. m \in DOMAIN q
  BY <1>3
<1> QED
  BY <1>2, <1>3, <1>5, <1>6, <1>7 DEF Range

LEMMA TryStarts ==
  ASSUME Known, Ordered, Reaching, TryDriver, Supports(Top.drivers[Top.index], Top.h)
  PROVE  Reaching'
<1>1. stack # <<>> /\ Top.op = "connect" /\ Top.at = "try" /\ Top.index <= Len(Top.drivers) /\ Still
  BY DEF TryDriver, At, Still, database
<1>2. /\ Top \in FrameType /\ Alive(Top) /\ Top.h \in Handles /\ Asked \subseteq bindings
      /\ Top \in Frames /\ (scenario.flaky = {} => Claim(Top, {}, {}))
  BY <1>1, TopClaims, TheTop
<1>3. PICK q : q = Top.drivers
  OBVIOUS
<1>4. PICK m : m = Top.index
  OBVIOUS
<1>5. PICK d : d = q[m]
  OBVIOUS
<1>6. PICK h : h = Top.h
  OBVIOUS
<1>7. PICK f : f = [Top EXCEPT !.drivers = RemoveAt(@, Top.index), !.index = FromTheFirst]
  OBVIOUS
<1>8. PICK g : g = Start(d, h)
  OBVIOUS
<1>9. Invoke(f, g)
  <2>1. PICK e : e = Top.drivers[Top.index]
    OBVIOUS
  <2>2. Invoke([Top EXCEPT !.drivers = RemoveAt(@, Top.index), !.index = FromTheFirst],
               Start(e, Top.h))
    BY <2>1 DEF TryDriver
  <2>3. e = d
    BY <1>3, <1>4, <1>5, <2>1
  <2> QED
    BY <1>6, <1>7, <1>8, <2>2, <2>3
<1>10. q \in Seq(Drivers) /\ m \in Nat /\ m > 0 /\ m <= Len(q)
  BY <1>1, <1>2, <1>3, <1>4 DEF FrameType, Frames, Formed
<1>11. /\ Same(f, Top) /\ f.at = "try" /\ f.h = h /\ f.op = "connect" /\ f.kids = Top.kids
       /\ f.drivers = RemoveAt(q, m) /\ f.index = 1
  <2>1. f = [Top EXCEPT !.drivers = RemoveAt(q, m), !.index = 1]
    BY <1>3, <1>4, <1>7 DEF FromTheFirst
  <2>2. PICK r : r = RemoveAt(q, m)
    OBVIOUS
  <2>3. f = [Top EXCEPT !.drivers = r, !.index = 1]
    BY <2>1, <2>2
  <2> QED
    BY <1>1, <1>2, <1>6, <2>2, <2>3 DEF Same, FrameType
<1>12. RemoveAt(q, m) \in Seq(Drivers) /\ Range(q) = {d} \cup Range(RemoveAt(q, m))
  BY <1>5, <1>10, AllButOne
<1>13. g.op = "start" /\ g.at = "start" /\ g.agent = d /\ g.h = h /\ ~ g.callback
  BY <1>8 DEF Start, Call
<1>14. d \in bindings /\ Range(f.drivers) \subseteq bindings
  BY <1>1, <1>2, <1>3, <1>11, <1>12 DEF Alive
<1>15. Made(f, g) /\ Alive(g)'
  <2>1. ~ Connecting(g) /\ ~ Asking(g) /\ g.agent \in bindings'
    BY <1>1, <1>13, <1>14 DEF Connecting, Asking, Removal, Still
  <2> QED
    BY <1>11, <1>13, <2>1 DEF Made, Alive
<1>16. Supports(g.agent, g.h)
  BY <1>3, <1>4, <1>5, <1>6, <1>13
<1>17. ASSUME scenario.flaky = {}
       PROVE  Claim(f, {d}, {})
  <2>1. Claim(Top, {}, {})
    BY <1>2, <1>17
  <2>2. \A i \in DOMAIN f.drivers : ~ (i < f.index)
    BY <1>11, <1>12
  <2>3. \A e \in Asked : e \in Range(q) \/ Has(e, h)
    BY <1>1, <1>3, <1>6, <2>1 DEF Claim
  <2> QED
    BY <1>11, <1>12, <2>2, <2>3 DEF Claim
<1> QED
  BY <1>1, <1>9, <1>11, <1>13, <1>14, <1>15, <1>16, <1>17, ConnectCallsOn

LEMMA DescendCalls ==
  ASSUME Known, Ordered, Reaching, Descend, Valid(Head(Top.kids))
  PROVE  Reaching'
<1>1. stack # <<>> /\ Top.op = "connect" /\ Top.at = "descend" /\ Still /\ Top.kids # <<>>
  BY DEF Descend, At, Still, database
<1>2. /\ Top \in FrameType /\ Alive(Top) /\ Top.h \in Handles
      /\ scenario.flaky = {} => Claim(Top, {}, {})
  BY <1>1, TopClaims
<1>3. PICK k : k = Head(Top.kids)
  OBVIOUS
<1>4. PICK f : f = [Top EXCEPT !.kids = Tail(@), !.status = ""]
  OBVIOUS
<1>5. PICK g : g = WholeTree(k)
  OBVIOUS
<1>6. Invoke(f, g)
  BY <1>3, <1>4, <1>5 DEF Descend
<1>7. /\ Same(f, Top) /\ f.at = "descend" /\ f.drivers = Top.drivers /\ f.h = Top.h
      /\ f.kids = Tail(Top.kids)
  BY <1>1, <1>2, <1>4 DEF Same, FrameType
<1>8. Range(f.drivers) \subseteq bindings
  BY <1>1, <1>2, <1>7 DEF Alive
<1>9. k \in Handles /\ Range(Top.kids) \subseteq {k} \cup Range(f.kids)
  <2>1. PICK q : q = Top.kids
    OBVIOUS
  <2>2. q \in Seq(Kids) /\ q # <<>>
    BY <1>1, <1>2, <2>1 DEF FrameType
  <2> QED
    BY <1>3, <1>7, <2>1, <2>2, HeadOrTail, Constants
<1>10. Valid(k)'
  BY <1>1, <1>3 DEF Still, Valid
<1>11. /\ g.op = "connect" /\ g.at = "collect" /\ ~ g.callback
       /\ g.recursive /\ g.h = k /\ Alive(g)'
  BY <1>5, <1>9, <1>10, NewTree
<1>12. Made(f, g)
  BY <1>1, <1>7, <1>11 DEF Made, Removal, Same
<1>13. scenario.flaky = {} => Claim(f, {}, {k})
  BY <1>1, <1>2, <1>7, <1>9 DEF Claim
<1> QED
  BY <1>1, <1>6, <1>7, <1>8, <1>11, <1>12, <1>13, ConnectCallsOn

\* What is left of the calls when the last one returns.
LEMMA Remaining ==
  ASSUME Known, Ordered, stack # <<>>, NEW status \in {"success", "error"}, Return(status),
         NEW s, s = stack, NEW t, t = stack', NEW n, n = Len(s)
  PROVE  /\ n \in Nat /\ n > 0 /\ Len(t) = n - 1 /\ DOMAIN t = 1 .. n - 1
         /\ \A i \in 1 .. n - 1 : i \in DOMAIN s /\ s[i] \in FrameType /\ s[i].h \in Handles
         /\ \A i \in 1 .. n - 2 : t[i] = s[i]
         /\ \A i \in 1 .. n - 1 : Looks(t[i], s[i]) /\ Like(t[i], s[i])
         /\ Len(t) > 0 => t[Len(t)].op # "start"
<1>1. /\ s \in Seq(Frames) /\ n \in Nat /\ n > 0 /\ DOMAIN s = 1 .. n
      /\ \A i \in DOMAIN s : s[i] \in FrameType
  BY TheCalls
<1>2. /\ Len(t) = n - 1 /\ DOMAIN t = 1 .. n - 1
      /\ \A i \in 1 .. n - 2 : t[i] = s[i]
      /\ n > 1 => t[n - 1] = s[n - 1] \/ t[n - 1] = Told(s[n - 1], status)
  BY <1>1, ReturnsTo DEF Statuses
<1>3. ASSUME NEW i \in 1 .. n - 1
      PROVE  /\ i \in DOMAIN s /\ s[i] \in FrameType /\ s[i].h \in Handles
             /\ Looks(t[i], s[i]) /\ Like(t[i], s[i])
  <2>1. i \in DOMAIN s /\ s[i] \in FrameType /\ s[i].h \in Handles
    <3>1. i \in DOMAIN s
      BY <1>1
    <3>2. s[i] \in FrameType
      BY <1>1, <3>1
    <3> QED
      BY <3>1, <3>2 DEF FrameType
  <2>2. t[i] = s[i] \/ t[i] = Told(s[i], status)
    <3>1. CASE i = n - 1
      BY <1>1, <1>2, <1>3, <3>1
    <3>2. CASE i # n - 1
      <4>1. i \in 1 .. n - 2
        BY <1>1, <1>3, <3>2
      <4> QED
        BY <1>2, <4>1
    <3> QED
      BY <3>1, <3>2
  <2>3. CASE t[i] = s[i]
    BY <2>1, <2>3 DEF Looks, Like, Same
  <2>4. CASE t[i] = Told(s[i], status)
    BY <2>1, <2>4, ToldLike DEF Looks, Like, Same
  <2> QED
    BY <2>1, <2>2, <2>3, <2>4
<1>4. ASSUME Len(t) > 0
      PROVE  t[Len(t)].op # "start"
  <2>1. n - 1 \in 1 .. n - 1 /\ Len(t) = n - 1
    BY <1>1, <1>2, <1>4
  <2>2. Like(t[n - 1], s[n - 1])
    BY <1>3, <2>1
  <2>3. Laid(s)
    BY DEF Ordered
  <2>4. Upon(s[n - 1], s[n - 1 + 1])
    BY <2>1, <2>3 DEF Laid
  <2> QED
    BY <2>1, <2>2, <2>4 DEF Upon, Like, Same
<1> QED
  BY <1>1, <1>2, <1>3, <1>4

\* Of a call that was resting before, because of who called the next one, too.
LEMMA RestedBefore ==
  ASSUME Known, Ordered, Linked, stack # <<>>, NEW status \in {"success", "error"}, Return(status),
         NEW s, s = stack, NEW t, t = stack', NEW n, n = Len(s),
         NEW i \in 1 .. n - 1, Resting(t, i)
  PROVE  \/ Resting(s, i)
         \/ /\ i = n - 1 /\ Connecting(s[i]) /\ Removal(s[i])
            /\ Top.op = "connect" => Top.recursive /\ Top.h = s[i].h
<1>1. /\ n \in Nat /\ n > 0 /\ Len(t) = n - 1 /\ DOMAIN t = 1 .. n - 1
      /\ i \in DOMAIN s /\ Looks(t[i], s[i])
      /\ \A j \in 1 .. n - 1 : Like(t[j], s[j])
  BY Remaining
<1>2. CASE s[i].op = "connect"
  BY <1>1, <1>2 DEF Resting, Looks, Removal
<1>3. CASE s[i].op # "connect"
  <2>1. Connecting(s[i]) /\ Removal(s[i]) /\ (i = Len(t) \/ t[i + 1].callback)
    BY <1>1, <1>3 DEF Resting, Looks, Removal, Connecting
  <2>2. CASE i # n - 1
    <3>1. i + 1 \in 1 .. n - 1
      BY <1>1, <2>2
    <3>2. t[i + 1].callback = s[i + 1].callback
      BY <1>1, <3>1 DEF Like, Same
    <3> QED
      BY <1>1, <2>1, <2>2, <3>2 DEF Resting
  <2>3. CASE i = n - 1
    <3>1. s[i + 1] = Top /\ i \in 1 .. Len(s) - 1
      <4>1. Top = s[Len(s)]
        BY TheCalls
      <4> QED
        BY <1>1, <2>3, <4>1
    <3>2. Made(s[i], Top)
      BY <3>1 DEF Linked, Chained
    <3>3. CASE Top.callback
      BY <2>1, <3>1, <3>3 DEF Resting
    <3>4. CASE ~ Top.callback
      BY <2>1, <2>3, <3>2, <3>4 DEF Made
    <3> QED
      BY <3>3, <3>4
  <2> QED
    BY <2>2, <2>3
<1> QED
  BY <1>2, <1>3

LEMMA ConnectReturns ==
  ASSUME Waking, Known, Ordered, Reaching, Tried \/ Descended, Return("success")
  PROVE  Reaching'
<1>1. stack # <<>> /\ Top.op = "connect" /\ Still
  BY DEF Tried, Descended, At, Still, database
<1>2. PICK n : n = Len(stack)
  OBVIOUS
<1>3. PICK s : s = stack
  OBVIOUS
<1>4. PICK t : t = stack'
  OBVIOUS
<1>5. Linked /\ Covered
  BY DEF Reaching
<1>6. /\ n \in Nat /\ n > 0 /\ Len(t) = n - 1 /\ DOMAIN t = 1 .. n - 1
      /\ \A i \in 1 .. n - 1 : i \in DOMAIN s /\ s[i] \in FrameType /\ s[i].h \in Handles
      /\ \A i \in 1 .. n - 1 : Looks(t[i], s[i]) /\ Like(t[i], s[i])
      /\ Len(t) > 0 => t[Len(t)].op # "start"
  BY <1>1, <1>2, <1>3, <1>4, Remaining
<1>7. /\ DOMAIN s = 1 .. n /\ Top = s[n] /\ Children \subseteq Handles
      /\ \A i \in DOMAIN s : \A d : Begun(s, i, d) => i + 1 = n
  BY <1>1, <1>2, <1>3, TheCalls
<1>8. Linked'
  <2>1. stack \in Seq(Frames) /\ Chained(stack) /\ LowerLive /\ Steady
    BY <1>1, <1>5, SteadyLives, StillIs
  <2> QED
    BY <1>1, <1>5, <2>1, LinkedReturns, LinkedStays
<1>9. ASSUME scenario.flaky = {}
      PROVE  Starts(t)' /\ \A i \in DOMAIN t : Claims(t, i)'
  <2>1. Starts(t)'
    <3>1. t # <<>> => Len(t) > 0
      <4>1. t \in Seq(Frames)
        <5>1. \A f \in Frames : Told(f, "success") \in Frames
          BY ToldFrame DEF Statuses
        <5> QED
          BY <1>1, <1>4, <5>1, TheTop, Returning
      <4> QED
        BY <4>1
    <3> QED
      BY <1>6, <3>1 DEF Starts
  <2>2. PICK h : h = Top.h
    OBVIOUS
  <2>3. Top.at # "descend" => Level(h)
    <3>1. Tried \/ Top.at = "descend"
      BY DEF Descended, At
    <3> QED
      BY <1>9, <2>2, <3>1, TriedAll
  <2>4. Claim(Top, {}, {}) /\ Alive(Top)
    BY <1>1, <1>9, TopClaims
  <2>5. ASSUME NEW i \in 1 .. n - 1
        PROVE  Claims(t, i)'
    <3>1. PICK f : f = s[i]
      OBVIOUS
    <3>2. Claims(s, i)
      <4>1. i \in DOMAIN s
        BY <1>6
      <4> QED
        BY <1>3, <1>5, <1>9, <4>1 DEF Covered
    <3>3. Null \notin Family(f.h)
      BY <1>6, <1>7, <3>1, Constants DEF Family
    <3>4. ASSUME NEW x, Awaited(s, i, x)
          PROVE  Awaited(t, i, x) \/ Level(x)'
      <4>1. PICK j \in 1 .. n : i < j /\ s[j].op = "connect" /\ s[j].h = x /\ s[j].at # "descend"
        BY <1>7, <3>4 DEF Awaited
      <4>2. CASE j # n
        <5>1. j \in 1 .. n - 1
          BY <1>6, <4>2, LowerOne
        <5>2. Looks(t[j], s[j]) /\ j \in DOMAIN t
          BY <1>6, <5>1
        <5> QED
          BY <4>1, <5>2 DEF Awaited, Looks
      <4>3. CASE j = n
        <5>1. Level(x)
          BY <1>7, <2>2, <2>3, <4>1, <4>3
        <5> QED
          BY <1>1, <1>5, <5>1, StillIs
      <4> QED
        BY <4>2, <4>3
    <3>5. \A d : ~ Begun(s, i, d)
      <4>1. ASSUME NEW d, Begun(s, i, d)
            PROVE  FALSE
        <5>1. i + 1 = n /\ s[i + 1].op = "start"
          BY <1>6, <1>7, <4>1 DEF Begun
        <5> QED
          BY <1>1, <1>7, <5>1
      <4> QED
        BY <4>1
    <3>6. Spares(Null) /\ Family(f.h)' = Family(f.h) /\ bindings' = bindings /\ Null # Root
      BY <1>1, <1>5, StillIs, Constants DEF Still
    <3>7. CASE Resting(t, i) => Resting(s, i)
      BY <1>6, <1>7, <3>1, <3>2, <3>3, <3>4, <3>5, <3>6, <3>7, ClaimsKept
    <3>8. CASE Resting(t, i) /\ ~ Resting(s, i)
      <4>1. Removal(f) /\ Top.recursive /\ f.h = h
        BY <1>1, <1>2, <1>3, <1>4, <1>5, <2>2, <3>1, <3>8, RestedBefore
      <4>2. Valid(Top.h)
        BY <1>1, <2>4 DEF Alive, Connecting
      <4>3. Top.at = "descend" /\ Top.kids = <<>>
        <5>1. CASE Tried
          <6>1. GoOn([Top EXCEPT !.at = "descend", !.status = "", !.index = 0,
                                 !.kids = ChildrenOf(Top.h, Drivers)])
            BY <4>1, <4>2, <5>1 DEF Tried
          <6>2. Len(t) = n
            BY <1>1, <1>2, <1>4, <6>1, GoesTo, TheTop
          <6> QED
            BY <1>6, <6>2
        <5>2. CASE Descended
          BY <5>2 DEF Descended, At
        <5> QED
          BY <5>1, <5>2
      <4>4. Range(Top.kids) = {}
        BY <4>3, NothingIn
      <4>5. /\ \A x \in Family(h) : Level(x)
            /\ h = Root /\ "bus" \in bindings => Done("bus", Root)
        BY <2>2, <2>4, <4>3, <4>4 DEF Claim
      <4>6. PICK e : e = t[i]
        OBVIOUS
      <4>7. e.op = f.op /\ e.h = h
        BY <1>6, <3>1, <4>1, <4>6 DEF Looks
      <4>8. Claims(t, i)
        BY <4>1, <4>5, <4>6, <4>7 DEF Claims, Tries, Rests, Removal
      <4> QED
        BY <1>1, <1>5, <4>8, StillIs
    <3> QED
      BY <3>7, <3>8
  <2> QED
    BY <1>6, <2>1, <2>5
<1>10. Covered'
  BY <1>1, <1>4, <1>9 DEF Covered, Still
<1> QED
  BY <1>8, <1>10 DEF Reaching

-----------------------------------------------------------------------------
(************************* Who can be started, and where ********************)

\* A driver can open p of h.
Free(h, p) ==
  Installed(h, p) /\ \A o \in Range(opens[<<h, p>>]) : o.how \notin {"driver", "exclusive"}

LEMMA ManagerIs ==
  ASSUME Tables, Lists, NEW d \in Drivers, NEW h \in Handles
  PROVE  Manages(d, h) <=> Managed(d, h)
<1>1. \A o : o \in Range(OpensOf(h)) <=>
        \E p \in Protocols : Installed(h, p) /\ o \in Range(opens[<<h, p>>])
  BY AllOpens
<1>2. Manages(d, h) => Managed(d, h)
  BY ManagesIs
<1>3. ASSUME Managed(d, h)
      PROVE  Manages(d, h)
  <2>1. Installed(h, Uses[d]) /\ Uses[d] \in Protocols
    BY <1>3, ManagedInstalled, MayBeThere
  <2>2. PICK o : o = Manager(d, h)
    OBVIOUS
  <2>3. o \in Range(OpensOf(h))
    BY <1>1, <1>3, <2>1, <2>2 DEF Managed
  <2>4. o.agent = d /\ o.how = "driver"
    BY <2>2 DEF Manager, Open
  <2> QED
    BY <2>3, <2>4 DEF Manages
<1> QED
  BY <1>2, <1>3

LEMMA FreeIs ==
  ASSUME Tables, NEW d \in Drivers, NEW h \in Handles
  PROVE  OpenStatus(h, Uses[d], Manager(d, h)) = "success" <=> Free(h, Uses[d])
<1>1. PICK p : p = Uses[d]
  OBVIOUS
<1>2. PICK s : s = opens[<<h, p>>]
  OBVIOUS
<1>3. PICK o : o = Manager(d, h)
  OBVIOUS
<1>4. s \in Seq(OpenType)
  <2>1. p \in Protocols
    BY <1>1, MayBeThere
  <2> QED
    BY <1>2, <2>1 DEF Tables, OpensTyped
<1>5. /\ Some(s, "driver") <=> \E e \in Range(s) : e.how = "driver"
      /\ Some(s, "exclusive") <=> \E e \in Range(s) : e.how = "exclusive"
  BY <1>4, ThoseAre
<1>6. o.how = "driver"
  BY <1>3 DEF Manager, Open
<1>7. OpenStatus(h, p, o) = "success" <=>
        Installed(h, p) /\ o \notin Range(s) /\ ~ Some(s, "driver") /\ ~ Some(s, "exclusive")
  BY <1>2, <1>6 DEF OpenStatus
<1>8. Free(h, p) <=> Installed(h, p) /\ \A e \in Range(s) : e.how \notin {"driver", "exclusive"}
  BY <1>2 DEF Free
<1> QED
  BY <1>1, <1>3, <1>5, <1>6, <1>7, <1>8

LEMMA SupportsIs ==
  Tables /\ Lists =>
    \A d \in Drivers, h \in Handles :
      Supports(d, h) <=> Free(h, Uses[d]) \/ (d = "bus" /\ Managed("bus", h))
<1> SUFFICES ASSUME Tables, Lists, NEW d \in Drivers, NEW h \in Handles
             PROVE  Supports(d, h) <=> Free(h, Uses[d]) \/ (d = "bus" /\ Managed("bus", h))
  OBVIOUS
<1>1. Manages(d, h) <=> Managed(d, h)
  BY ManagerIs
<1>2. OpenStatus(h, Uses[d], Open(d, h, "driver")) = "success" <=> Free(h, Uses[d])
  BY FreeIs DEF Manager
<1> QED
  BY <1>1, <1>2 DEF Supports

LEMMA SupportsNext ==
  (Tables /\ Lists =>
     \A d \in Drivers, h \in Handles :
       Supports(d, h) <=> Free(h, Uses[d]) \/ (d = "bus" /\ Managed("bus", h)))'
BY SupportsIs, PTL

\* No open goes away.
OpensGrow ==
  \A g \in Handles, p \in Protocols : Range(opens[<<g, p>>]) \subseteq Range(opens'[<<g, p>>])

\* More opens, and interfaces of x only.
LEMMA MoreSpares ==
  ASSUME Known, Ordered, Tables', Lists', Linked, OpensGrow, Grows,
         scenario' = scenario, bindings' = bindings,
         NEW x, \A g \in Handles, p \in Protocols : g # x /\ Installed(g, p)' => Installed(g, p),
         Managed("bus", Root)' => Supports("bus", Root)
  PROVE  Spares(x)
<1>1. Tables /\ Lists
  BY OrderIs
<1>2. \A d \in Drivers : Uses[d] \in Protocols
  BY MayBeThere, Constants
<1>3. \A g \in Handles, p \in Protocols : g # x /\ Free(g, p)' => Free(g, p)
  BY DEF Free, OpensGrow
<1>4. \A g \in Handles : Managed("bus", g)' => g = Root
  <2> SUFFICES ASSUME NEW g \in Handles, Managed("bus", g)'
               PROVE  g = Root
    OBVIOUS
  <2>1. Installed(g, "io")'
    <3>1. "io" \in Protocols /\ Uses["bus"] = "io"
      BY Constants DEF Protocols
    <3>2. PICK o : o \in Range(opens'[<<g, "io">>])
      BY <3>1 DEF Managed
    <3>3. opens'[<<g, "io">>] # <<>>
      BY <3>2, NothingIn
    <3> QED
      BY <3>1, <3>3 DEF Lists
  <2> QED
    BY <2>1 DEF Lists
<1>5. ASSUME NEW d \in Drivers, NEW g \in Handles, g # x, Supports(d, g)'
      PROVE  Supports(d, g)
  <2>1. (Free(g, Uses[d]) \/ (d = "bus" /\ Managed("bus", g)))'
    BY <1>5, SupportsNext
  <2>2. CASE Free(g, Uses[d])'
    BY <1>1, <1>2, <1>3, <1>5, <2>2, SupportsIs
  <2>3. CASE d = "bus" /\ Managed("bus", g)'
    BY <1>4, <2>3
  <2> QED
    BY <2>1, <2>2, <2>3
<1>6. \A d \in Drivers, g \in Handles : Managed(d, g) => Managed(d, g)'
  BY <1>2 DEF Managed, OpensGrow
<1>7. scenario.kids \subseteq Handles
  BY ConstantsAssumption, Constants DEF Known, Typed, ScenarioType
<1>8. \A d \in Drivers, g \in Handles : Has(d, g) => Has(d, g)'
  BY <1>6, <1>7 DEF Has, Grows
<1>9. Asked' = Asked /\ Asked \subseteq Drivers
  BY DEF Asked, Linked, Known, Typed
<1> QED
  BY <1>5, <1>8, <1>9 DEF Spares

-----------------------------------------------------------------------------
(************************* While a driver is started ************************)

\* The call that starts a driver, and what it is called by.
LEMMA Launched ==
  ASSUME Known, Ordered, Linked, stack # <<>>, Top.op = "start",
         NEW s, s = stack, NEW n, n = Len(s), NEW h, h = Top.h
  PROVE  /\ s \in Seq(Frames) /\ n \in Nat /\ n > 1 /\ DOMAIN s = 1 .. n /\ Top = s[n]
         /\ \A i \in 1 .. n - 1 : i \in DOMAIN s /\ s[i] \in FrameType /\ s[i].h \in Handles
         /\ s[n - 1].op = "connect" /\ s[n - 1].at = "try" /\ s[n - 1].index = 1 /\ s[n - 1].h = h
         /\ h \in Handles /\ Valid(h) /\ Top.agent \in bindings /\ Top.agent \in Drivers
         /\ \A i \in 1 .. n - 1 : \A d : Begun(s, i, d) => i = n - 1 /\ d = Top.agent
<1>1. /\ s \in Seq(Frames) /\ n \in Nat /\ n > 0 /\ DOMAIN s = 1 .. n /\ Top = s[n] /\ h \in Handles
      /\ \A i \in DOMAIN s : s[i] \in FrameType
      /\ \A i \in DOMAIN s : \A d : Begun(s, i, d) => i + 1 = n
  BY TheCalls
<1>2. Chained(s) /\ Lives
  BY DEF Linked
<1>3. n > 1
  <2>1. s # <<>> /\ (n = 1 => s[1].op = "start")
    BY <1>1
  <2> QED
    BY <1>1, <1>2, <2>1 DEF Chained
<1>4. n - 1 \in 1 .. Len(s) - 1 /\ n - 1 \in DOMAIN s /\ n \in DOMAIN s /\ n - 1 + 1 = n
  BY <1>1, <1>3
<1>5. Made(s[n - 1], Top)
  BY <1>1, <1>2, <1>4 DEF Chained
<1>6. s[n - 1].op = "connect" /\ s[n - 1].at = "try" /\ s[n - 1].index = 1 /\ s[n - 1].h = h
  BY <1>5 DEF Made
<1>7. Alive(s[n - 1]) /\ Alive(Top)
  BY <1>1, <1>2, <1>4 DEF Lives
<1>8. Valid(h) /\ Top.agent \in bindings
  BY <1>6, <1>7 DEF Alive, Connecting
<1>9. Top.agent \in Drivers
  BY <1>8 DEF Known, Typed
<1>10. ASSUME NEW i \in 1 .. n - 1
       PROVE  i \in DOMAIN s /\ s[i] \in FrameType /\ s[i].h \in Handles
  <2>1. i \in DOMAIN s
    BY <1>1
  <2>2. s[i] \in FrameType
    BY <1>1, <2>1
  <2> QED
    BY <2>1, <2>2 DEF FrameType
<1>11. ASSUME NEW i \in 1 .. n - 1, NEW d, Begun(s, i, d)
       PROVE  i = n - 1 /\ d = Top.agent
  <2>1. i + 1 = n
    BY <1>1, <1>10, <1>11
  <2>2. s[i + 1].agent = d
    BY <1>11 DEF Begun
  <2> QED
    BY <1>1, <2>1, <2>2
<1> QED
  BY <1>1, <1>3, <1>6, <1>8, <1>9, <1>10, <1>11

\* Nothing that the calls below claim is lost, but for x.
Bears(s, n, x) ==
  /\ Spares(x)
  /\ \A i \in 1 .. n - 1 : \A e : e = s[i] /\ Resting(s, i) =>
       Family(e.h)' \subseteq Family(e.h) /\ (e.h = Root => x # Root)

\* Nothing is removed, and what is there belongs where it is.
Builds ==
  /\ Grows /\ bindings' = bindings /\ scenario' = scenario
  /\ \A p : Installed(Root, p)' => p = "io"

LEMMA StartGoesOn ==
  ASSUME Known, Ordered, Reaching, Builds, stack # <<>>, Top.op = "start",
         NEW f, GoOn(f), Same(f, Top), f.agent = Top.agent, f.at # "start",
         NEW s, s = stack, NEW n, n = Len(s), NEW x,
         scenario.flaky = {} =>
           /\ Bears(s, n, x)
           /\ \A i \in 1 .. n - 1 : Connecting(s[i]) => x \notin Family(s[i].h)
           /\ f.at = "child" =>
                f.child \in scenario.kids /\ \A i \in 1 .. n - 1 : Resting(s, i) => s[i].h # Root
  PROVE  Reaching'
<1>1. Linked /\ Covered
  BY DEF Reaching
<1>2. PICK h : h = Top.h
  OBVIOUS
<1>3. PICK t : t = stack'
  OBVIOUS
<1>4. /\ s \in Seq(Frames) /\ n \in Nat /\ n > 1 /\ DOMAIN s = 1 .. n /\ Top = s[n]
      /\ \A i \in 1 .. n - 1 : i \in DOMAIN s /\ s[i] \in FrameType /\ s[i].h \in Handles
      /\ Top.agent \in bindings
      /\ \A i \in 1 .. n - 1 : \A d : Begun(s, i, d) => i = n - 1 /\ d = Top.agent
  BY <1>1, <1>2, Launched
<1>5. /\ Len(t) = n /\ t[n] = f /\ DOMAIN t = 1 .. n
      /\ \A i \in 1 .. n - 1 : t[i] = s[i]
  BY <1>3, <1>4, GoesTo
<1>6. f.op = "start" /\ f.callback = Top.callback
  BY DEF Same
<1>7. Linked'
  <2>1. LowerLive
    BY <1>1, <1>4, LowerLives DEF Builds, Linked
  <2>2. Alive(f)'
    BY <1>4, <1>6 DEF Alive, Connecting, Asking, Removal, Builds
  <2>3. Chained(stack') /\ Lives'
    BY <1>1, <1>4, <2>1, <2>2, LinkedGoes DEF Linked
  <2> QED
    BY <1>1, <2>3 DEF Linked, Builds
<1>8. \A i \in 1 .. n - 1 : Resting(t, i) => Resting(s, i)
  <2> SUFFICES ASSUME NEW i \in 1 .. n - 1, Resting(t, i)
               PROVE  Resting(s, i)
    OBVIOUS
  <2>1. i # n /\ i + 1 \in 1 .. n
    BY <1>4
  <2>2. t[i] = s[i]
    BY <1>5
  <2>3. t[i + 1].callback = s[i + 1].callback
    <3>1. CASE i + 1 = n
      BY <1>4, <1>5, <1>6, <3>1
    <3>2. CASE i + 1 # n
      <4>1. i + 1 \in 1 .. n - 1
        BY <1>4, <2>1, <3>2, LowerOne
      <4> QED
        BY <1>5, <4>1
    <3> QED
      BY <3>1, <3>2
  <2> QED
    BY <1>4, <1>5, <2>1, <2>2, <2>3 DEF Resting
<1>9. ASSUME scenario.flaky = {}
      PROVE  Starts(t)' /\ \A i \in DOMAIN t : Claims(t, i)'
  <2>1. Starts(t)'
    <3>1. f.at = "child" =>
            f.child \in scenario'.kids /\ \A i \in 1 .. n - 1 : Resting(s, i) => s[i].h # Root
      BY <1>9 DEF Builds
    <3>2. ~ Resting(t, n)
      BY <1>5, <1>6 DEF Resting, Connecting, Removal
    <3>3. ASSUME f.at = "child", NEW i \in DOMAIN t, Resting(t, i)
          PROVE  t[i].h # Root
      <4>1. i \in 1 .. n - 1
        BY <1>4, <1>5, <3>2, <3>3, LowerOne
      <4> QED
        BY <1>5, <1>8, <3>1, <3>3, <4>1
    <3> QED
      BY <1>5, <3>1, <3>3 DEF Starts
  <2>2. Claims(t, n)'
    BY <1>5, <1>6 DEF Claims, Tries, Rests, Resting, Connecting, Removal
  <2>3. ASSUME NEW i \in 1 .. n - 1
        PROVE  Claims(t, i)'
    <3>1. PICK e : e = s[i]
      OBVIOUS
    <3>2. t[i] = e /\ e \in FrameType /\ e.h \in Handles
      BY <1>4, <1>5, <3>1
    <3>3. CASE ~ Connecting(e)
      BY <3>2, <3>3 DEF Claims, Tries, Rests, Resting, Connecting
    <3>4. CASE Connecting(e)
      <4>1. Claims(s, i)
        <5>1. i \in DOMAIN s
          BY <1>4
        <5> QED
          BY <1>1, <1>9, <5>1 DEF Covered
      <4>2. Looks(t[i], s[i])
        BY <3>1, <3>2 DEF Looks
      <4>3. ASSUME NEW g, Awaited(s, i, g)
            PROVE  Awaited(t, i, g)
        <5>1. PICK j \in 1 .. n : i < j /\ s[j].op = "connect" /\ s[j].h = g /\ s[j].at # "descend"
          BY <1>4, <4>3 DEF Awaited
        <5>2. j # n
          BY <1>4, <5>1
        <5>3. j \in 1 .. n - 1
          BY <1>4, <5>2, LowerOne
        <5>4. t[j] = s[j] /\ j \in DOMAIN t
          BY <1>5, <5>1, <5>3
        <5> QED
          BY <5>1, <5>4 DEF Awaited
      <4>4. ASSUME NEW d, Begun(s, i, d)
            PROVE  Begun(t, i, d)
        <5>1. i = n - 1 /\ d = Top.agent
          BY <1>4, <4>4
        <5>2. i + 1 = n /\ i < n
          BY <1>4, <5>1
        <5> QED
          BY <1>5, <1>6, <5>1, <5>2 DEF Begun
      <4>5. x \notin Family(e.h) /\ Spares(x)
        BY <1>9, <3>1, <3>4 DEF Bears
      <4>6. Resting(t, i) => /\ Resting(s, i) /\ Family(e.h)' \subseteq Family(e.h)
                             /\ e.h = Root => x # Root
                             /\ bindings' = bindings
        BY <1>8, <1>9, <3>1 DEF Bears, Builds
      <4>7. Children \subseteq Handles
        BY Constants DEF Children
      <4> QED
        BY <3>1, <3>2, <4>1, <4>2, <4>3, <4>4, <4>5, <4>6, <4>7, ClaimsKept
    <3> QED
      BY <3>3, <3>4
  <2>4. ASSUME NEW i \in 1 .. n
        PROVE  Claims(t, i)'
    <3>1. CASE i = n
      BY <2>2, <3>1
    <3>2. CASE i # n
      <4>1. i \in 1 .. n - 1
        BY <1>4, <3>2, LowerOne
      <4> QED
        BY <2>3, <4>1
    <3> QED
      BY <3>1, <3>2
  <2> QED
    BY <1>5, <2>1, <2>4
<1>10. Covered'
  BY <1>3, <1>9 DEF Covered, Builds
<1> QED
  BY <1>7, <1>10 DEF Reaching

LEMMA LaunchReturns ==
  ASSUME Known, Ordered, Reaching, Builds, stack # <<>>, Top.op = "start",
         NEW status \in {"success", "error"}, Return(status),
         NEW s, s = stack, NEW n, n = Len(s), NEW h, h = Top.h, NEW d, d = Top.agent,
         NEW x \in {Null, h}, x = h => h # Root,
         scenario.flaky = {} => Bears(s, n, x) /\ Has(d, h)'
  PROVE  Reaching'
<1>1. Linked /\ Covered
  BY DEF Reaching
<1>2. PICK t : t = stack'
  OBVIOUS
<1>3. /\ s \in Seq(Frames) /\ n \in Nat /\ n > 1 /\ DOMAIN s = 1 .. n /\ Top = s[n]
      /\ \A i \in 1 .. n - 1 : i \in DOMAIN s /\ s[i] \in FrameType /\ s[i].h \in Handles
      /\ s[n - 1].op = "connect" /\ s[n - 1].at = "try" /\ s[n - 1].index = 1 /\ s[n - 1].h = h
      /\ \A i \in 1 .. n - 1 : \A a : Begun(s, i, a) => i = n - 1 /\ a = d
  BY <1>1, Launched
<1>4. /\ Len(t) = n - 1 /\ DOMAIN t = 1 .. n - 1
      /\ \A i \in 1 .. n - 1 : Looks(t[i], s[i])
      /\ Len(t) > 0 => t[Len(t)].op # "start"
  BY <1>2, Remaining
<1>5. Linked'
  <2>1. LowerLive
    BY <1>1, <1>3, LowerLives DEF Builds, Linked
  <2>2. Chained(stack') /\ Lives'
    BY <1>1, <1>3, <2>1, LinkedReturns DEF Linked
  <2> QED
    BY <1>1, <2>2 DEF Linked, Builds
<1>6. ASSUME NEW i \in 1 .. n - 1, Resting(t, i)
      PROVE  Resting(s, i)
  <2>1. Resting(s, i) \/ (i = n - 1 /\ Removal(s[i]))
    BY <1>1, <1>2, <1>6, RestedBefore
  <2> QED
    BY <1>3, <2>1 DEF Removal
<1>7. ASSUME scenario.flaky = {}
      PROVE  Starts(t)' /\ \A i \in DOMAIN t : Claims(t, i)'
  <2>1. Starts(t)'
    BY <1>3, <1>4 DEF Starts
  <2>2. Spares(x) /\ Has(d, h)'
    BY <1>7 DEF Bears
  <2>3. Claims(t, n - 1)'
    <3>1. PICK m : m = n - 1
      OBVIOUS
    <3>2. PICK e : e = s[m]
      OBVIOUS
    <3>3. PICK g : g = t[m]
      OBVIOUS
    <3>4. m \in 1 .. n - 1 /\ m \in DOMAIN s
      BY <1>3, <3>1
    <3>5. e.op = "connect" /\ e.at = "try" /\ e.index = 1 /\ e.h = h /\ e \in FrameType
      BY <1>3, <3>1, <3>2, <3>4
    <3>6. g.op = "connect" /\ g.at = "try" /\ g.index = 1 /\ g.h = h /\ g.drivers = e.drivers
      BY <1>4, <3>2, <3>3, <3>4, <3>5 DEF Looks
    <3>7. Claims(s, m)
      BY <1>1, <1>7, <3>4 DEF Covered
    <3>8. \A a \in Asked : a \in Range(e.drivers) \/ Has(a, h) \/ Begun(s, m, a)
      BY <3>2, <3>5, <3>7 DEF Claims, Tries
    <3>9. \A a \in Asked : a \in Range(e.drivers) \/ Has(a, h)'
      <4>1. \A a : Begun(s, m, a) => a = d
        BY <1>3, <3>4
      <4>2. h \in Handles
        BY <3>5 DEF FrameType
      <4> QED
        BY <2>2, <3>8, <4>1, <4>2 DEF Spares
    <3>10. \A i \in DOMAIN e.drivers : ~ (i < 1)
      <4>1. e.drivers \in Seq(Drivers)
        BY <3>5 DEF FrameType
      <4> QED
        BY <4>1
    <3>11. Tries(t, m)'
      BY <2>2, <3>3, <3>6, <3>9, <3>10 DEF Tries, Spares
    <3>12. Rests(t, m)'
      BY <3>3, <3>6 DEF Rests, Resting, Removal
    <3> QED
      BY <3>1, <3>11, <3>12 DEF Claims
  <2>4. ASSUME NEW i \in 1 .. n - 1, i # n - 1
        PROVE  Claims(t, i)'
    <3>1. PICK e : e = s[i]
      OBVIOUS
    <3>2. Looks(t[i], s[i]) /\ e \in FrameType /\ e.h \in Handles /\ i \in DOMAIN s
      BY <1>3, <1>4, <3>1
    <3>3. Claims(s, i)
      BY <1>1, <1>7, <3>2 DEF Covered
    <3>4. ASSUME NEW g, Awaited(s, i, g)
          PROVE  Awaited(t, i, g)
      <4>1. PICK j \in 1 .. n : i < j /\ s[j].op = "connect" /\ s[j].h = g /\ s[j].at # "descend"
        BY <1>3, <3>4 DEF Awaited
      <4>2. j # n
        BY <1>3, <4>1
      <4>3. j \in 1 .. n - 1
        BY <1>3, <4>2, LowerOne
      <4>4. Looks(t[j], s[j]) /\ j \in DOMAIN t
        BY <1>4, <4>3
      <4> QED
        BY <4>1, <4>4 DEF Awaited, Looks
    <3>5. Awaited(t, i, h)
      <4>1. n - 1 \in 1 .. n - 1 /\ i < n - 1
        BY <1>3, <2>4
      <4>2. Looks(t[n - 1], s[n - 1]) /\ n - 1 \in DOMAIN t
        BY <1>4, <4>1
      <4> QED
        BY <1>3, <4>1, <4>2 DEF Awaited, Looks
    <3>6. x \in Family(e.h) => Awaited(t, i, x)
      <4>1. Null \notin Family(e.h)
        BY <3>2, Constants DEF Family, Children
      <4> QED
        BY <3>5, <4>1
    <3>7. \A a : ~ Begun(s, i, a)
      BY <1>3, <2>4
    <3>8. Resting(t, i) => /\ Resting(s, i) /\ Family(e.h)' \subseteq Family(e.h)
                           /\ e.h = Root => x # Root
                           /\ bindings' = bindings
      BY <1>6, <1>7, <3>1 DEF Bears, Builds
    <3>9. Children \subseteq Handles
      BY Constants DEF Children
    <3> QED
      BY <2>2, <3>1, <3>2, <3>3, <3>4, <3>6, <3>7, <3>8, <3>9, ClaimsKept
  <2> QED
    BY <1>4, <2>1, <2>3, <2>4
<1>8. Covered'
  BY <1>2, <1>7 DEF Covered, Builds
<1> QED
  BY <1>5, <1>8 DEF Reaching

LEMMA WasSupported ==
  ASSUME Reaching, stack # <<>>, Top.op = "start", Top.at = "start", scenario.flaky = {},
         Known, Ordered
  PROVE  Supports(Top.agent, Top.h)
<1>1. PICK s : s = stack
  OBVIOUS
<1>2. Starts(s) /\ s # <<>>
  BY <1>1 DEF Reaching, Covered
<1>3. Top = s[Len(s)]
  BY <1>1, TheCalls
<1> QED
  BY <1>2, <1>3 DEF Starts

\* Tables and lists as they are after the step.
LEMMA AfterStep ==
  ASSUME Known', Ordered'
  PROVE  Tables' /\ Lists' /\ Parents'
BY DEF Known, Typed, Ordered

\* Nothing changes but the calls.
LEMMA StillBears ==
  ASSUME Known, Linked, Still, NEW s, NEW n
  PROVE  Builds /\ Bears(s, n, Null)
<1>1. Spares(Null) /\ \A g : Family(g)' = Family(g)
  BY StillIs
<1>2. Bears(s, n, Null)
  BY <1>1, Constants DEF Bears
<1>3. Builds
  BY DEF Still, Builds, Grows, Linked, Valid, Installed
<1> QED
  BY <1>2, <1>3

LEMMA StartFailsReaches ==
  ASSUME Known, Ordered, Reaching, StartFails PROVE Reaching'
<1>1. /\ stack # <<>> /\ Top.op = "start" /\ Top.at = "start" /\ Still /\ Return("error")
      /\ \/ OpenStatus(Top.h, Uses[Top.agent], Manager(Top.agent, Top.h)) = "error"
         \/ Top.agent \in scenario.flaky
  BY DEF StartFails, Still, database
<1>2. PICK s : s = stack
  OBVIOUS
<1>3. PICK n : n = Len(s)
  OBVIOUS
<1>4. PICK h : h = Top.h
  OBVIOUS
<1>5. PICK d : d = Top.agent
  OBVIOUS
<1>6. Linked /\ d \in Drivers /\ h \in Handles /\ Tables /\ Lists
  <2>1. Linked
    BY DEF Reaching
  <2> QED
    BY <1>1, <1>2, <1>3, <1>4, <1>5, <2>1, Launched, OrderIs
<1>7. scenario.flaky # {}
  <2> SUFFICES ASSUME scenario.flaky = {} PROVE FALSE
    OBVIOUS
  <2>1. OpenStatus(h, Uses[d], Manager(d, h)) = "error"
    BY <1>1, <1>4, <1>5
  <2>2. Supports(d, h)
    BY <1>1, <1>4, <1>5, WasSupported
  <2>3. CASE OpenStatus(h, Uses[d], Manager(d, h)) = "success"
    BY <2>1, <2>3
  <2>4. CASE OpenStatus(h, Uses[d], Manager(d, h)) # "success"
    <3>1. Manages(d, h)
      BY <2>2, <2>4 DEF Supports, Manager
    <3>2. Managed(d, h)
      BY <1>6, <3>1, ManagerIs
    <3>3. Installed(h, Uses[d])
      BY <1>6, <3>2, ManagedInstalled
    <3>4. PICK o : o = Manager(d, h)
      OBVIOUS
    <3>5. o.how = "driver" /\ o \in Range(opens[<<h, Uses[d]>>])
      BY <3>2, <3>4 DEF Managed, Manager, Open
    <3>6. OpenStatus(h, Uses[d], o) = "already"
      BY <3>3, <3>5 DEF OpenStatus
    <3> QED
      BY <2>1, <3>4, <3>6
  <2> QED
    BY <2>3, <2>4
<1>8. Builds
  BY <1>1, <1>6, StillBears
<1>9. PICK x : x = Null
  OBVIOUS
<1>10. x \in {Null, h} /\ (x = h => h # Root)
  BY <1>6, <1>9, Constants
<1> QED
  BY <1>1, <1>2, <1>3, <1>4, <1>5, <1>7, <1>8, <1>10, LaunchReturns

LEMMA DiskGivesUpReaches ==
  ASSUME Known, Ordered, Reaching, DiskGivesUp PROVE Reaching'
<1>1. /\ stack # <<>> /\ Top.op = "start" /\ Return("error") /\ "disk" \in scenario.flaky
      /\ Steady
  BY DEF DiskGivesUp, Starting, At, Steady
<1>2. PICK s : s = stack
  OBVIOUS
<1>3. PICK n : n = Len(s)
  OBVIOUS
<1>4. PICK h : h = Top.h
  OBVIOUS
<1>5. PICK d : d = Top.agent
  OBVIOUS
<1>6. Linked
  BY DEF Reaching
<1>7. h \in Handles
  BY <1>1, <1>2, <1>3, <1>4, <1>5, <1>6, Launched
<1>8. Builds
  BY <1>1, <1>6 DEF Steady, Builds, Grows, Linked, Valid, Installed
<1>9. PICK x : x = Null
  OBVIOUS
<1>10. x \in {Null, h} /\ (x = h => h # Root)
  BY <1>7, <1>9, Constants
<1>11. scenario.flaky # {}
  BY <1>1
<1> QED
  BY <1>1, <1>2, <1>3, <1>4, <1>5, <1>8, <1>10, <1>11, LaunchReturns

\* The bus driver has found all its devices.
LEMMA BusStartedReaches ==
  ASSUME Known, Ordered, Reaching, BusStarted PROVE Reaching'
<1>1. /\ stack # <<>> /\ Top.op = "start" /\ Top.at = "enumerate" /\ Top.agent = "bus"
      /\ Return("success") /\ Still /\ \A k \in scenario.kids : Valid(k)
  BY DEF BusStarted, Starting, At, Still, database
<1>2. PICK s : s = stack
  OBVIOUS
<1>3. PICK n : n = Len(s)
  OBVIOUS
<1>4. PICK h : h = Top.h
  OBVIOUS
<1>5. Linked
  BY DEF Reaching
<1>6. h \in Handles
  BY <1>1, <1>2, <1>3, <1>4, <1>5, Launched
<1>7. Builds /\ Bears(s, n, Null)
  BY <1>1, <1>5, StillBears
<1>8. Has("bus", h)'
  <2>1. Managed("bus", h)
    BY <1>1, <1>4, AboveTop DEF Above
  <2>2. Has("bus", h)
    BY <1>1, <2>1 DEF Has
  <2> QED
    BY <1>1, <1>5, <2>2, StillIs
<1>9. PICK x : x = Null
  OBVIOUS
<1>10. x \in {Null, h} /\ (x = h => h # Root)
  BY <1>6, <1>9, Constants
<1> QED
  BY <1>1, <1>2, <1>3, <1>4, <1>7, <1>8, <1>9, <1>10, LaunchReturns

\* A driver opens what it uses.
LEMMA OpeningBears ==
  ASSUME Known, Ordered, Reaching, Known', Ordered', NEW d \in Drivers, OpenByDriver(d),
         protocols' = protocols, scenario' = scenario, bindings' = bindings,
         NEW s, s = stack, NEW n, n = Len(s), NEW h, h = Top.h
  PROVE  /\ Builds /\ stack # <<>> /\ Top.op = "start" /\ Top.agent = d /\ h \in Handles
         /\ scenario.flaky = {} => Bears(s, n, Null)
         /\ Managed(d, h)'
<1>1. /\ stack # <<>> /\ Top.op = "start" /\ Top.at = "start" /\ Top.agent = d
      /\ h \in Handles /\ Managed(d, h)'
  BY DriverOpened
<1>2. Linked /\ OpensTyped
  BY OrderIs DEF Reaching
<1>3. Builds
  BY <1>2 DEF Builds, Grows, Linked, Valid, Installed
<1>4. PICK p : p = Uses[d]
  OBVIOUS
<1>5. PICK o : o = Manager(d, h)
  OBVIOUS
<1>6. p \in Protocols /\ o \in Openings(h, p)
  BY <1>1, <1>4, <1>5, MayBeThere
<1>7. opens' = [opens EXCEPT ![<<h, p>>] = Opened(h, p, o)]
  BY <1>4, <1>5 DEF OpenByDriver
<1>8. /\ Range(opens'[<<h, p>>]) \in {Range(opens[<<h, p>>]), Range(opens[<<h, p>>]) \cup {o}}
      /\ OnlyThose(h, p)
  BY <1>1, <1>2, <1>6, <1>7, OpensOnce DEF OnlyThose
<1>9. OpensGrow
  <2> SUFFICES ASSUME NEW g \in Handles, NEW q \in Protocols
               PROVE  Range(opens[<<g, q>>]) \subseteq Range(opens'[<<g, q>>])
    BY DEF OpensGrow
  <2>1. CASE g = h /\ q = p
    BY <1>8, <2>1
  <2>2. CASE g # h \/ q # p
    BY <1>8, <2>2 DEF OnlyThose
  <2> QED
    BY <2>1, <2>2
<1>10. Children' = Children
  <2>1. CASE h = Root /\ p = "io"
    <3>1. \A k : Child(k) # o
      BY <1>5 DEF Child, Manager, Open
    <3> QED
      BY <1>8, <2>1, <3>1 DEF Children
  <2>2. CASE h # Root \/ p # "io"
    BY <1>1, <1>6, <1>8, <2>2, OthersManaged
  <2> QED
    BY <2>1, <2>2
<1>11. ASSUME scenario.flaky = {}, Managed("bus", Root)'
       PROVE  Supports("bus", Root)
  <2>1. CASE h = Root /\ p = "io"
    <3>1. d = "bus"
      BY <1>4, <2>1, Constants
    <3> QED
      BY <1>1, <1>11, <2>1, <3>1, WasSupported
  <2>2. CASE h # Root \/ p # "io"
    <3>1. Managed("bus", Root)
      BY <1>1, <1>6, <1>8, <1>11, <2>2, OthersManaged, Constants
    <3> QED
      BY <3>1, SupportsIs, OrderIs, Constants
  <2> QED
    BY <2>1, <2>2
<1>12. ASSUME scenario.flaky = {}
       PROVE  Bears(s, n, Null)
  <2>1. Tables' /\ Lists'
    BY AfterStep
  <2>2. Grows /\ \A g \in Handles, q \in Protocols : Installed(g, q)' => Installed(g, q)
    BY <1>3 DEF Builds, Installed
  <2>3. PICK x : x = Null
    OBVIOUS
  <2>4. Spares(x)
    BY <1>2, <1>9, <1>11, <1>12, <2>1, <2>2, MoreSpares
  <2>5. \A g : Family(g)' = Family(g)
    BY <1>10 DEF Family
  <2> QED
    BY <2>3, <2>4, <2>5, Constants DEF Bears
<1> QED
  BY <1>1, <1>3, <1>12

LEMMA DriverStartsReaches ==
  ASSUME Known, Ordered, Reaching, Known', Ordered', BusStarts \/ DiskStarts PROVE Reaching'
<1>1. PICK d \in Drivers, at \in {"enumerate", "make"} :
                               /\ OpenByDriver(d)
                               /\ GoOn([Top EXCEPT !.at = at])
                               /\ protocols' = protocols /\ scenario' = scenario
                               /\ bindings' = bindings
  <2>1. CASE BusStarts
    BY <2>1, Constants DEF BusStarts
  <2>2. CASE DiskStarts
    BY <2>2, Constants DEF DiskStarts
  <2> QED
    BY <2>1, <2>2
<1>2. PICK s : s = stack
  OBVIOUS
<1>3. PICK n : n = Len(s)
  OBVIOUS
<1>4. PICK h : h = Top.h
  OBVIOUS
<1>5. /\ Builds /\ stack # <<>> /\ Top.op = "start" /\ h \in Handles
      /\ scenario.flaky = {} => Bears(s, n, Null)
  BY <1>1, <1>2, <1>3, <1>4, OpeningBears
<1>6. PICK f : f = [Top EXCEPT !.at = at]
  OBVIOUS
<1>7. Top \in FrameType
  BY <1>5, OrderIs
<1>8. Same(f, Top) /\ f.agent = Top.agent /\ f.at = at
  BY <1>6, <1>7 DEF Same, FrameType
<1>9. GoOn(f) /\ f.at # "start" /\ f.at # "child"
  BY <1>1, <1>6, <1>8
<1>10. \A i \in 1 .. n - 1 : Null \notin Family(s[i].h)
  <2>1. \A i \in 1 .. n - 1 : s[i].h \in Handles
    BY <1>2, <1>3, <1>4, <1>5, Launched DEF Reaching
  <2> QED
    BY <2>1, Constants DEF Family, Children
<1> QED
  BY <1>2, <1>3, <1>5, <1>8, <1>9, <1>10, StartGoesOn

LEMMA FsStartsReaches ==
  ASSUME Known, Ordered, Reaching, Known', Ordered', FsStarts PROVE Reaching'
<1>1. /\ OpenByDriver("fs") /\ "fs" \in Drivers /\ Return("success")
      /\ protocols' = protocols /\ scenario' = scenario /\ bindings' = bindings
  BY Constants DEF FsStarts
<1>2. PICK s : s = stack
  OBVIOUS
<1>3. PICK n : n = Len(s)
  OBVIOUS
<1>4. PICK h : h = Top.h
  OBVIOUS
<1>5. /\ Builds /\ stack # <<>> /\ Top.op = "start" /\ Top.agent = "fs" /\ h \in Handles
      /\ scenario.flaky = {} => Bears(s, n, Null)
      /\ Managed("fs", h)'
  BY <1>1, <1>2, <1>3, <1>4, OpeningBears
<1>6. Has("fs", h)'
  BY <1>5 DEF Has
<1>7. PICK x : x = Null
  OBVIOUS
<1>8. x \in {Null, h} /\ (x = h => h # Root)
  BY <1>5, <1>7, Constants
<1> QED
  BY <1>1, <1>2, <1>3, <1>4, <1>5, <1>6, <1>7, <1>8, LaunchReturns

\* An interface is installed while a driver starts.
LEMMA InstallBears ==
  ASSUME Known, Ordered, Linked, Known', Ordered', NEW x \in Handles, x # Root,
         NEW p \in Protocols \ {"io"}, Install(x, p), ~ Installed(x, p),
         scenario' = scenario, bindings' = bindings
  PROVE  /\ Builds /\ Spares(x) /\ opens' = opens /\ \A g : Family(g)' = Family(g)
         /\ \A d, g : Managed(d, g)' <=> Managed(d, g)
<1>1. Tables /\ Lists
  BY OrderIs
<1>2. /\ opens' = opens
      /\ \A g \in Handles : \A q : Installed(g, q)' <=> Installed(g, q) \/ (g = x /\ q = p)
      /\ \A g \in Handles : Valid(g)' <=> Valid(g) \/ g = x
  BY <1>1, InstallIs
<1>3. Grows /\ OpensGrow
  BY <1>2 DEF Grows, OpensGrow
<1>4. Builds
  BY <1>2, <1>3, Constants DEF Builds, Linked
<1>5. \A g : Family(g)' = Family(g)
  BY <1>2 DEF Family, Children
<1>6. \A d, g : Managed(d, g)' <=> Managed(d, g)
  BY <1>2 DEF Managed
<1>7. Managed("bus", Root)' => Supports("bus", Root)
  BY <1>1, <1>6, SupportsIs, Constants
<1>8. \A g \in Handles, q \in Protocols : g # x /\ Installed(g, q)' => Installed(g, q)
  BY <1>2
<1>9. Tables' /\ Lists'
  BY AfterStep
<1>10. Spares(x)
  BY <1>3, <1>7, <1>8, <1>9, MoreSpares
<1> QED
  BY <1>2, <1>4, <1>5, <1>6, <1>10

LEMMA DiskMakesVolumeReaches ==
  ASSUME Known, Ordered, Reaching, Known', Ordered', DiskMakesVolume PROVE Reaching'
<1>1. /\ stack # <<>> /\ Top.op = "start" /\ Top.at = "make" /\ Top.agent = "disk"
      /\ Install(Top.h, "volume") /\ Return("success")
      /\ scenario' = scenario /\ bindings' = bindings
  BY Constants DEF DiskMakesVolume, Starting, At
<1>2. PICK s : s = stack
  OBVIOUS
<1>3. PICK n : n = Len(s)
  OBVIOUS
<1>4. PICK h : h = Top.h
  OBVIOUS
<1>5. Linked /\ h \in Handles /\ Lists
  <2>1. Linked
    BY DEF Reaching
  <2> QED
    BY <1>1, <1>2, <1>3, <1>4, <2>1, Launched, OrderIs
<1>6. Managed("disk", h) /\ ~ Installed(h, "volume")
  BY <1>1, <1>4, AboveTop DEF Above
<1>7. h # Root
  <2>1. Installed(h, "block")
    BY <1>5, <1>6, ManagedInstalled
  <2> QED
    BY <1>5, <2>1 DEF Linked
<1>8. /\ Builds /\ Spares(h) /\ \A g : Family(g)' = Family(g)
      /\ Managed("disk", h)'
  <2>1. "volume" \in Protocols \ {"io"}
    BY DEF Protocols
  <2> QED
    BY <1>1, <1>4, <1>5, <1>6, <1>7, <2>1, InstallBears
<1>9. Has("disk", h)'
  BY <1>8 DEF Has
<1>10. Bears(s, n, h)
  BY <1>7, <1>8 DEF Bears
<1> QED
  BY <1>1, <1>2, <1>3, <1>4, <1>7, <1>8, <1>9, <1>10, LaunchReturns

LEMMA BusMakesKidReaches ==
  ASSUME Known, Ordered, Reaching, Known', Ordered', NEW k \in Kids, BusMakesKid(k)
  PROVE  Reaching'
<1>1. /\ stack # <<>> /\ Top.op = "start" /\ Top.at = "enumerate" /\ Top.agent = "bus"
      /\ k \in scenario.kids /\ ~ Valid(k) /\ Install(k, "block")
      /\ GoOn([Top EXCEPT !.at = "child", !.child = k])
      /\ scenario' = scenario /\ bindings' = bindings
  BY Constants DEF BusMakesKid, Starting, At
<1>2. PICK s : s = stack
  OBVIOUS
<1>3. PICK n : n = Len(s)
  OBVIOUS
<1>4. PICK h : h = Top.h
  OBVIOUS
<1>5. PICK f : f = [Top EXCEPT !.at = "child", !.child = k]
  OBVIOUS
<1>6. Top \in FrameType /\ Tables /\ Lists /\ Parents
  BY <1>1, OrderIs
<1>7. /\ GoOn(f) /\ Same(f, Top) /\ f.agent = Top.agent /\ f.at = "child" /\ f.child = k
  BY <1>1, <1>5, <1>6 DEF Same, FrameType
<1>8. Linked /\ Covered
  BY DEF Reaching
<1>9. /\ n \in Nat /\ n > 1 /\ \A i \in 1 .. n - 1 : i \in DOMAIN s /\ s[i].h \in Handles
      /\ h \in Handles /\ "bus" \in bindings
  BY <1>1, <1>2, <1>3, <1>4, <1>8, Launched
<1>10. k \in Handles /\ k # Root /\ "block" \in Protocols \ {"io"} /\ ~ Installed(k, "block")
  BY <1>1, HasValid, Constants DEF Protocols
<1>11. Builds /\ Spares(k) /\ \A g : Family(g)' = Family(g)
  BY <1>1, <1>8, <1>10, InstallBears
<1>12. Bears(s, n, k)
  BY <1>10, <1>11 DEF Bears
<1>13. ASSUME NEW i \in 1 .. n - 1, Connecting(s[i])
       PROVE  k \notin Family(s[i].h)
  <2>1. Alive(s[i])
    BY <1>2, <1>8, <1>9 DEF Linked, Lives
  <2>2. Valid(s[i].h)
    BY <1>13, <2>1 DEF Alive
  <2>3. k \notin Children
    BY <1>1, <1>6 DEF Parents
  <2> QED
    BY <1>1, <2>2, <2>3 DEF Family
<1>14. ASSUME scenario.flaky = {}, NEW i \in 1 .. n - 1, Resting(s, i)
       PROVE  s[i].h # Root
  <2> SUFFICES ASSUME s[i].h = Root PROVE FALSE
    OBVIOUS
  <2>1. Claims(s, i)
    BY <1>2, <1>8, <1>9, <1>14 DEF Covered
  <2>2. Done("bus", Root)
    BY <1>9, <1>14, <2>1 DEF Claims, Rests
  <2>3. h = Root /\ Managed("bus", h)
    <3>1. Managed("bus", h)
      BY <1>1, <1>4, AboveTop DEF Above
    <3> QED
      BY <1>6, <1>9, <3>1, ManagedInstalled
  <2>4. Supports("bus", Root)
    BY <1>6, <2>3, SupportsIs, Constants
  <2> QED
    BY <1>1, <2>2, <2>4 DEF Done, Has
<1> QED
  BY <1>1, <1>2, <1>3, <1>7, <1>11, <1>12, <1>13, <1>14, StartGoesOn

LEMMA BusOpensForKidReaches ==
  ASSUME Known, Ordered, Reaching, Known', Ordered', BusOpensForKid PROVE Reaching'
<1>1. /\ stack # <<>> /\ Top.op = "start" /\ Top.at = "child" /\ Top.agent = "bus"
      /\ opens' = [opens EXCEPT ![<<Top.h, "io">>] =
                     Append(opens[<<Top.h, "io">>], Child(Top.child))]
      /\ GoOn([Top EXCEPT !.at = "enumerate", !.child = Null])
      /\ protocols' = protocols /\ scenario' = scenario /\ bindings' = bindings
  BY DEF BusOpensForKid, Starting, At
<1>2. PICK s : s = stack
  OBVIOUS
<1>3. PICK n : n = Len(s)
  OBVIOUS
<1>4. PICK h : h = Top.h
  OBVIOUS
<1>5. PICK f : f = [Top EXCEPT !.at = "enumerate", !.child = Null]
  OBVIOUS
<1>6. PICK k : k = Top.child
  OBVIOUS
<1>7. PICK o : o = Child(k)
  OBVIOUS
<1>8. /\ Top \in FrameType /\ Formed(Top) /\ Above(Top) /\ Tables /\ OpensTyped /\ Lists /\ Parents
      /\ "io" \in Protocols
  BY <1>1, OrderIs, AboveTop DEF Protocols
<1>9. /\ GoOn(f) /\ Same(f, Top) /\ f.agent = Top.agent /\ f.at = "enumerate"
  BY <1>1, <1>5, <1>8 DEF Same, FrameType
<1>10. Linked /\ Covered
  BY DEF Reaching
<1>11. /\ n \in Nat /\ n > 1 /\ \A i \in 1 .. n - 1 : i \in DOMAIN s /\ s[i].h \in Handles
       /\ h \in Handles /\ DOMAIN s = 1 .. n /\ Top = s[n] /\ s \in Seq(Frames)
  BY <1>1, <1>2, <1>3, <1>4, <1>10, Launched
<1>12. k \in Kids /\ Managed("bus", h)
  BY <1>1, <1>4, <1>6, <1>8 DEF Formed, Above
<1>13. h = Root
  BY <1>8, <1>11, <1>12, ManagedInstalled
<1>14. o \in Openings(h, "io") /\ o.how = "child"
  BY <1>7, <1>11, <1>12, MayBeThere DEF Child, Open
<1>15. opens' = [opens EXCEPT ![<<h, "io">>] = Append(opens[<<h, "io">>], o)]
  BY <1>1, <1>4, <1>6, <1>7
<1>16. Range(opens'[<<h, "io">>]) = Range(opens[<<h, "io">>]) \cup {o}
  <2>1. h \in Handles /\ OpensTyped /\ "io" \in Protocols /\ o \in Openings(h, "io")
    BY <1>8, <1>11, <1>14
  <2> QED
    BY <1>15, <2>1, OneIn
<1>17. OnlyThose(h, "io")
  <2>1. \A g \in Handles, q \in Protocols :
          g # h \/ q # "io" => <<g, q>> # <<h, "io">> /\ <<g, q>> \in Handles \X Protocols
    OBVIOUS
  <2> QED
    BY <1>8, <1>15, <2>1 DEF OpensTyped, OnlyThose
<1>18. OpensGrow
  <2> SUFFICES ASSUME NEW g \in Handles, NEW q \in Protocols
               PROVE  Range(opens[<<g, q>>]) \subseteq Range(opens'[<<g, q>>])
    BY DEF OpensGrow
  <2>1. CASE g = h /\ q = "io"
    BY <1>16, <2>1
  <2>2. CASE g # h \/ q # "io"
    BY <1>17, <2>2 DEF OnlyThose
  <2> QED
    BY <2>1, <2>2
<1>19. Builds
  BY <1>1, <1>10 DEF Builds, Grows, Linked, Valid, Installed
<1>20. Supports("bus", Root)
  BY <1>8, <1>12, <1>13, SupportsIs, Constants
<1>21. PICK x : x = Null
  OBVIOUS
<1>22. Spares(x)
  <2>1. Tables' /\ Lists'
    BY AfterStep
  <2>2. Grows /\ \A g \in Handles, q \in Protocols : Installed(g, q)' => Installed(g, q)
    BY <1>1, <1>19 DEF Builds, Installed
  <2> QED
    BY <1>1, <1>10, <1>18, <1>20, <2>1, <2>2, MoreSpares
<1>23. ASSUME scenario.flaky = {}, NEW i \in 1 .. n - 1, Resting(s, i)
       PROVE  s[i].h # Root
  <2>1. Starts(s) /\ s # <<>> /\ i \in DOMAIN s
    BY <1>1, <1>2, <1>10, <1>11, <1>23 DEF Covered
  <2> QED
    BY <1>1, <1>3, <1>11, <1>23, <2>1 DEF Starts
<1>24. ASSUME scenario.flaky = {}
       PROVE  Bears(s, n, x)
  <2>1. ASSUME NEW i \in 1 .. n - 1, NEW e, e = s[i], Resting(s, i)
        PROVE  Family(e.h)' \subseteq Family(e.h) /\ e.h # Root
    <3>1. e.h # Root
      BY <1>23, <1>24, <2>1
    <3> QED
      BY <3>1 DEF Family
  <2> QED
    BY <1>22, <2>1 DEF Bears
<1>25. \A i \in 1 .. n - 1 : x \notin Family(s[i].h)
  BY <1>11, <1>21, Constants DEF Family, Children
<1> QED
  BY <1>1, <1>2, <1>3, <1>9, <1>19, <1>24, <1>25, StartGoesOn

-----------------------------------------------------------------------------
(*************************** Calls from outside *****************************)

\* The program, or the notification function, makes a call.
LEMMA BeginReaches ==
  ASSUME Known, Ordered, Reaching, NEW op, NEW f \in FrameType, Begin(op, f),
         \/ f.op = "connect" /\ f.at = "collect" /\ Alive(f)
         \/ stack = <<>> /\ f.op \notin {"connect", "start"}
             /\ f.at \in {"find", "open", "agents", "next"}
  PROVE  Reaching'
<1>1. Linked /\ Covered /\ Still
  BY DEF Reaching, Begin, Still, database
<1>2. PICK s : s = stack
  OBVIOUS
<1>3. PICK t : t = stack'
  OBVIOUS
<1>4. PICK m : m = Len(s)
  OBVIOUS
<1>5. PICK g : g = Marked(f, s # <<>>)
  OBVIOUS
<1>6. /\ m \in Nat /\ Len(t) = m + 1 /\ DOMAIN t = 1 .. m + 1 /\ t[m + 1] = g
      /\ \A i \in 1 .. m : t[i] = s[i]
      /\ s \in Seq(Frames) /\ DOMAIN s = 1 .. m /\ (s = <<>> <=> m = 0)
  <2>1. stack \in Seq(Frames)
    BY DEF Known, Typed
  <2> QED
    BY <1>2, <1>3, <1>4, <1>5, <2>1, BeginsTo
<1>7. /\ g.op = f.op /\ g.at = f.at /\ g.h = f.h /\ g.drivers = f.drivers /\ g.agent = f.agent
      /\ g.callback = (s # <<>>) /\ g.op # "start"
  BY <1>5, MarkedIs
<1>8. Alive(g)'
  <2>1. CASE f.op = "connect" /\ Alive(f)
    <3>1. Alive(f)'
      BY <1>1, <2>1 DEF Still, Alive, Valid
    <3> QED
      BY <1>7, <2>1, <3>1 DEF Alive, Connecting
  <2>2. CASE f.op \notin {"connect", "start"} /\ f.at \in {"find", "open", "agents", "next"}
    BY <1>7, <2>2 DEF Alive, Connecting, Asking
  <2> QED
    BY <2>1, <2>2
<1>9. Linked'
  <2>1. \A i \in 1 .. m : t[i] = s[i] /\ Pair(s[i], g)
    <3>1. m > 0 => g.op = "connect"
      BY <1>2, <1>6, <1>7
    <3>2. ASSUME NEW i \in 1 .. m PROVE Pair(s[i], g)
      <4>1. g.op = "connect"
        BY <1>6, <3>1
      <4> QED
        BY <4>1 DEF Pair
    <3> QED
      BY <1>6, <3>2
  <2>2. IF m > 0 THEN Made(s[m], g) ELSE g.op # "start"
    <3>1. m > 0 => s # <<>>
      BY <1>2, <1>6
    <3>2. m > 0 => g.callback = TRUE
      BY <1>7, <3>1
    <3>3. m > 0 => Made(s[m], g)
      BY <1>7, <3>2 DEF Made
    <3> QED
      BY <1>7, <3>3
  <2>3. Chained(s)
    BY <1>1, <1>2 DEF Linked
  <2>4. Chained(t)
    BY <1>6, <2>1, <2>2, <2>3, ChainedMore
  <2>5. Steady /\ \A e : Alive(e) => Alive(e)'
    BY <1>1, StillIs, SteadyLives
  <2>6. Lives'
    <3>1. ASSUME NEW i \in 1 .. m + 1, NEW e, e = t[i]
          PROVE  Alive(e)'
      <4>1. CASE i = m + 1
        BY <1>6, <1>8, <3>1, <4>1
      <4>2. CASE i # m + 1
        <5>1. i \in 1 .. m
          BY <1>6, <4>2
        <5>2. Alive(s[i])
          BY <1>1, <1>2, <1>6, <5>1 DEF Linked, Lives
        <5> QED
          BY <1>6, <2>5, <3>1, <5>1, <5>2
      <4> QED
        BY <4>1, <4>2
    <3> QED
      BY <1>3, <1>6, <3>1 DEF Lives
  <2> QED
    BY <1>1, <1>3, <2>4, <2>5, <2>6, LinkedStays
<1>10. Covered'
  <2>1. CASE f.op = "connect" /\ f.at = "collect"
    <3>1. ASSUME scenario.flaky = {}
          PROVE  Starts(t)' /\ \A i \in DOMAIN t : Claims(t, i)'
      <4>1. Starts(t)'
        BY <1>6, <1>7 DEF Starts
      <4>2. Claims(t, m + 1)'
        BY <1>6, <1>7, <2>1 DEF Claims, Tries, Rests, Resting, Removal
      <4>3. ASSUME NEW i \in 1 .. m
            PROVE  Claims(t, i)'
        <5>1. PICK e : e = s[i]
          OBVIOUS
        <5>2. e \in FrameType /\ e.h \in Handles /\ t[i] = e
          <6>1. e \in FrameType
            BY <1>6, <5>1 DEF Frames
          <6> QED
            BY <1>6, <5>1, <6>1 DEF FrameType
        <5>3. Claims(s, i)
          BY <1>1, <1>2, <1>6, <3>1 DEF Covered
        <5>4. Looks(t[i], s[i])
          BY <5>1, <5>2 DEF Looks
        <5>5. ASSUME NEW x, Awaited(s, i, x)
              PROVE  Awaited(t, i, x)
          <6>1. PICK j \in 1 .. m :
                  i < j /\ s[j].op = "connect" /\ s[j].h = x /\ s[j].at # "descend"
            BY <1>6, <5>5 DEF Awaited
          <6>2. t[j] = s[j] /\ j \in 1 .. m + 1
            BY <1>6, <6>1
          <6> QED
            BY <1>6, <6>1, <6>2 DEF Awaited
        <5>6. ASSUME NEW d, Begun(s, i, d)
              PROVE  Begun(t, i, d)
          <6>1. i < m /\ s[i + 1].op = "start" /\ s[i + 1].agent = d
            BY <1>4, <5>6 DEF Begun
          <6>2. i + 1 \in 1 .. m /\ i < m + 1
            BY <1>6, <6>1
          <6> QED
            BY <1>6, <6>1, <6>2 DEF Begun
        <5>7. Resting(t, i) => Resting(s, i)
          <6>1. CASE i = m
            BY <1>4, <1>6, <5>1, <5>2, <6>1 DEF Resting
          <6>2. CASE i # m
            <7>1. i + 1 \in 1 .. m /\ i # m + 1
              BY <1>6, <6>2
            <7>2. t[i + 1] = s[i + 1]
              BY <1>6, <7>1
            <7> QED
              BY <1>6, <5>1, <5>2, <7>1, <7>2 DEF Resting
          <6> QED
            BY <6>1, <6>2
        <5>8. Null \notin Family(e.h) /\ Children \subseteq Handles
          BY <5>2, Constants DEF Family, Children
        <5>9. Spares(Null) /\ Family(e.h)' = Family(e.h) /\ bindings' = bindings /\ Null # Root
          BY <1>1, StillIs, Constants DEF Still
        <5> QED
          BY <5>1, <5>2, <5>3, <5>4, <5>5, <5>6, <5>7, <5>8, <5>9, ClaimsKept
      <4>4. ASSUME NEW i \in 1 .. m + 1
            PROVE  Claims(t, i)'
        <5>1. i = m + 1 \/ i \in 1 .. m
          BY <1>6
        <5> QED
          BY <4>2, <4>3, <5>1
      <4> QED
        BY <1>6, <4>1, <4>4
    <3> QED
      BY <1>1, <1>3, <3>1 DEF Covered, Still
  <2>2. CASE stack = <<>> /\ f.op \notin {"connect", "start"}
             /\ f.at \in {"find", "open", "agents", "next"}
    <3>1. m = 0
      BY <1>2, <1>6, <2>2
    <3>2. DOMAIN t = {1} /\ t[1] = g /\ Len(t) = 1
      BY <1>6, <3>1
    <3>3. ~ Connecting(g)
      BY <1>7, <2>2 DEF Connecting
    <3> QED
      BY <1>3, <1>7, <3>2, <3>3, IdleCovers
  <2> QED
    BY <2>1, <2>2
<1> QED
  BY <1>9, <1>10 DEF Reaching

\* The tables change between two steps of the calls.
LEMMA BetweenReaches ==
  ASSUME Known, Ordered, Reaching, stack' = stack, stack # <<>> => Top.op # "start",
         Grows, scenario' = scenario, \A p : Installed(Root, p)' => p = "io",
         NEW x, stack # <<>> /\ scenario.flaky = {} =>
                  /\ Spares(x) /\ Children' = Children
                  /\ "bus" \in bindings' => "bus" \in bindings
                  /\ x \in {Null, Root} /\ (x = Root => ~ Valid(Root))
  PROVE  Reaching'
<1>1. PICK s : s = stack
  OBVIOUS
<1>2. /\ stack' = s /\ s \in Seq(Frames) /\ \A i \in DOMAIN s : s[i] \in FrameType
      /\ \A i \in DOMAIN s : s[i].h \in Handles
  <2>1. s \in Seq(Frames) /\ \A i \in DOMAIN s : s[i] \in FrameType
    BY <1>1 DEF Known, Typed, Frames
  <2> QED
    BY <1>1, <2>1 DEF FrameType
<1>3. Linked /\ Covered
  BY DEF Reaching
<1>4. Linked'
  <2>1. \A i \in DOMAIN s : \A e : e = s[i] => Alive(e)'
    BY <1>1, <1>2, <1>3, GrowsLive DEF Linked, Lives
  <2>2. Lives'
    BY <1>2, <2>1 DEF Lives
  <2> QED
    BY <1>2, <1>3, <2>2 DEF Linked, Grows
<1>5. CASE s = <<>>
  <2>1. DOMAIN s = {}
    BY <1>5
  <2>2. Covered'
    BY <1>2, <1>5, <2>1, IdleCovers
  <2> QED
    BY <1>4, <2>2 DEF Reaching
<1>6. CASE s # <<>>
  <2>1. ASSUME scenario.flaky = {}
        PROVE  Starts(s)' /\ \A i \in DOMAIN s : Claims(s, i)'
    <3>1. Top = s[Len(s)]
      BY <1>1, <1>6, TheCalls
    <3>2. Starts(s)'
      BY <1>1, <1>6, <3>1 DEF Starts
    <3>3. ASSUME NEW i \in DOMAIN s
          PROVE  Claims(s, i)'
      <4>1. PICK e : e = s[i]
        OBVIOUS
      <4>2. CASE ~ Connecting(e)
        BY <4>1, <4>2 DEF Claims, Tries, Rests, Resting, Connecting
      <4>3. CASE Connecting(e)
        <5>1. Valid(e.h) /\ e.h \in Handles
          BY <1>1, <1>2, <1>3, <4>1, <4>3 DEF Linked, Lives, Alive
        <5>2. x \notin Family(e.h) /\ Children \subseteq Handles
          BY <1>1, <1>6, <2>1, <5>1, Constants DEF Family, Children
        <5>3. Family(e.h)' = Family(e.h)
          BY <1>1, <1>6, <2>1 DEF Family
        <5>4. Claims(s, i) /\ Looks(s[i], s[i])
          BY <1>1, <1>3, <2>1 DEF Covered, Looks
        <5>5. e.h = Root => x # Root /\ ("bus" \in bindings' => "bus" \in bindings)
          BY <1>1, <1>6, <2>1, <5>1
        <5>6. Spares(x) /\ e \in FrameType
          BY <1>1, <1>2, <1>6, <2>1, <4>1
        <5> QED
          BY <4>1, <5>2, <5>3, <5>4, <5>5, <5>6, ClaimsKept
      <4> QED
        BY <4>2, <4>3
    <3> QED
      BY <3>2, <3>3
  <2>2. Covered'
    BY <1>2, <2>1 DEF Covered
  <2> QED
    BY <1>4, <2>2 DEF Reaching
<1> QED
  BY <1>5, <1>6

LEMMA CallsReach ==
  ASSUME Harmless, Known, Ordered, Reaching,
         \/ \E h \in Handles, recursive \in BOOLEAN : CallConnect(h, recursive)
         \/ \E h \in Handles, agent \in Drivers \cup {""}, child \in Kids \cup {Null} :
              CallDisconnect(h, agent, child)
         \/ CallUninstall
         \/ \E h \in Handles, p \in Protocols : CallReinstall(h, p) \/ CallExclusive(h, p)
  PROVE  Reaching'
<1>1. CASE \E h \in Handles, recursive \in BOOLEAN : CallConnect(h, recursive)
  <2>1. PICK h \in Handles, recursive \in BOOLEAN : CallConnect(h, recursive)
    BY <1>1
  <2>2. PICK f : f = Connect(h, recursive)
    OBVIOUS
  <2>3. Begin("connect", f) /\ Valid(h)
    BY <2>1, <2>2 DEF CallConnect
  <2>4. f \in FrameType
    BY <2>2, NewFrames DEF Frames
  <2>5. f.op = "connect" /\ f.at = "collect" /\ f.h = h /\ f.drivers = <<>>
    BY <2>2 DEF Connect, Call
  <2>6. Alive(f)
    BY <2>3, <2>5, NothingIn DEF Alive
  <2> QED
    BY <2>3, <2>4, <2>5, <2>6, BeginReaches
<1>2. CASE \E h \in Handles, agent \in Drivers \cup {""}, child \in Kids \cup {Null} :
             CallDisconnect(h, agent, child)
  <2>1. PICK h \in Handles, agent \in Drivers \cup {""}, child \in Kids \cup {Null} :
          CallDisconnect(h, agent, child)
    BY <1>2
  <2>2. PICK f : f = Disconnect(h, agent, child)
    OBVIOUS
  <2>3. Begin("disconnect", f)
    BY <2>1, <2>2 DEF CallDisconnect
  <2>4. f \in FrameType
    BY <2>2, NewFrames DEF Frames
  <2>5. f.op = "disconnect" /\ f.at \in {"agents", "next"}
    BY <2>2 DEF Disconnect, Call
  <2> QED
    BY <2>3, <2>4, <2>5, CallsBegin, BeginReaches
<1>3. CASE CallUninstall
  <2>1. PICK f : f = Uninstall(Root, "io")
    OBVIOUS
  <2>2. Begin("uninstall", f)
    BY <1>3, <2>1 DEF CallUninstall
  <2>3. f \in FrameType
    BY <2>1, NewFrames, Constants DEF Frames, Protocols
  <2>4. f.op = "uninstall" /\ f.at = "find"
    BY <2>1 DEF Uninstall, Call
  <2> QED
    BY <2>2, <2>3, <2>4, CallsBegin, BeginReaches
<1>4. CASE \E h \in Handles, p \in Protocols : CallReinstall(h, p) \/ CallExclusive(h, p)
  <2>1. PICK h \in Handles, p \in Protocols : CallReinstall(h, p) \/ CallExclusive(h, p)
    BY <1>4
  <2>2. PICK f : /\ f \in {Reinstall(h, p), Exclusive(h, p)}
                 /\ \E op \in {"reinstall", "exclusive"} : Begin(op, f)
    <3>1. CASE CallReinstall(h, p)
      BY <3>1 DEF CallReinstall
    <3>2. CASE CallExclusive(h, p)
      BY <3>2 DEF CallExclusive
    <3> QED
      BY <2>1, <3>1, <3>2
  <2>5. PICK op \in {"reinstall", "exclusive"} : Begin(op, f)
    BY <2>2
  <2>3. f \in FrameType
    BY <2>2, NewFrames DEF Frames
  <2>4. f.op \in {"reinstall", "open"} /\ f.at \in {"find", "open"}
    BY <2>2 DEF Reinstall, Exclusive, Call
  <2> QED
    BY <2>5, <2>3, <2>4, CallsBegin, BeginReaches
<1> QED
  BY <1>1, <1>2, <1>3, <1>4

\* What may happen while calls are under way.
LEMMA Interrupts ==
  ASSUME Known, Ordered, NEW op, MayCall(op)
  PROVE  stack # <<>> => Top.op # "start" /\ op \in scenario.callbacks
<1> SUFFICES ASSUME stack # <<>>
             PROVE  Top.op # "start" /\ op \in scenario.callbacks
  OBVIOUS
<1>1. PICK s : s = stack
  OBVIOUS
<1>2. Top = s[Len(s)] /\ Len(s) \in DOMAIN s
  BY <1>1, TheCalls
<1>3. Interruptible /\ op \in scenario.callbacks
  BY DEF MayCall
<1> QED
  BY <1>1, <1>2, <1>3 DEF Interruptible

LEMMA CallInstallReaches ==
  ASSUME Known, Ordered, Reaching, Known', Ordered', CallInstall PROVE Reaching'
<1>1. /\ MayCall("install") /\ ~ Installed(Root, "io") /\ Install(Root, "io")
      /\ stack' = stack /\ scenario' = scenario /\ bindings' = bindings
  BY DEF CallInstall
<1>2. Tables /\ Lists /\ Root \in Handles /\ "io" \in Protocols /\ Linked
  BY OrderIs, Constants DEF Protocols, Reaching
<1>3. /\ opens' = opens
      /\ \A g \in Handles : \A q : Installed(g, q)' <=> Installed(g, q) \/ (g = Root /\ q = "io")
      /\ \A g \in Handles : Valid(g)' <=> Valid(g) \/ g = Root
  BY <1>1, <1>2, InstallIs
<1>4. Grows /\ OpensGrow /\ Children' = Children
  BY <1>1, <1>3 DEF Grows, OpensGrow, Children
<1>5. \A p : Installed(Root, p)' => p = "io"
  BY <1>2, <1>3 DEF Linked
<1>6. ~ Valid(Root)
  <2> SUFFICES ASSUME Valid(Root) PROVE FALSE
    OBVIOUS
  <2>1. PICK q : q = protocols[Root]
    OBVIOUS
  <2>2. q \in Seq(Protocols) /\ q # <<>>
    BY <1>2, <2>1 DEF Tables, Valid
  <2>3. 1 \in DOMAIN q
    BY <2>2
  <2>4. Installed(Root, q[1])
    BY <2>1, <2>3 DEF Installed, Range
  <2> QED
    BY <1>1, <1>2, <2>4 DEF Linked
<1>7. PICK x : x = Root
  OBVIOUS
<1>8. Spares(x)
  <2>1. Tables' /\ Lists'
    BY AfterStep
  <2>2. Managed("bus", Root)' => Supports("bus", Root)
    <3>1. Managed("bus", Root)' <=> Managed("bus", Root)
      BY <1>3 DEF Managed
    <3> QED
      BY <1>2, <3>1, SupportsIs, Constants
  <2>3. \A g \in Handles, p \in Protocols : g # x /\ Installed(g, p)' => Installed(g, p)
    BY <1>3, <1>7
  <2> QED
    BY <1>1, <1>2, <1>4, <2>1, <2>2, <2>3, MoreSpares
<1>9. stack # <<>> => Top.op # "start"
  BY <1>1, Interrupts
<1> QED
  BY <1>1, <1>4, <1>5, <1>6, <1>7, <1>8, <1>9, BetweenReaches

LEMMA CallGetReaches ==
  ASSUME Known, Ordered, Reaching, Known', Ordered', NEW h \in Handles, NEW p \in Protocols,
         CallGet(h, p)
  PROVE  Reaching'
<1>1. PICK o : o = Open("core", Null, "get")
  OBVIOUS
<1>2. /\ MayCall("get") /\ opens' = [opens EXCEPT ![<<h, p>>] = Opened(h, p, o)]
      /\ protocols' = protocols /\ stack' = stack /\ scenario' = scenario /\ bindings' = bindings
  BY <1>1 DEF CallGet
<1>3. Tables /\ OpensTyped /\ Lists /\ o \in Openings(h, p) /\ Linked
  BY <1>1, OrderIs, MayBeThere DEF Reaching
<1>4. /\ Range(opens'[<<h, p>>]) \in {Range(opens[<<h, p>>]), Range(opens[<<h, p>>]) \cup {o}}
      /\ OnlyThose(h, p)
  BY <1>2, <1>3, OpensOnce DEF OnlyThose
<1>5. OpensGrow
  <2> SUFFICES ASSUME NEW g \in Handles, NEW q \in Protocols
               PROVE  Range(opens[<<g, q>>]) \subseteq Range(opens'[<<g, q>>])
    BY DEF OpensGrow
  <2>1. CASE g = h /\ q = p
    BY <1>4, <2>1
  <2>2. CASE g # h \/ q # p
    BY <1>4, <2>2 DEF OnlyThose
  <2> QED
    BY <2>1, <2>2
<1>6. \A d : Manager(d, h) # o /\ Child(d) # o
  BY <1>1 DEF Manager, Child, Open
<1>7. Children' = Children
  <2>1. CASE h = Root /\ p = "io"
    BY <1>4, <1>6, <2>1 DEF Children
  <2>2. CASE h # Root \/ p # "io"
    BY <1>4, <2>2, OthersManaged
  <2> QED
    BY <2>1, <2>2
<1>8. Managed("bus", Root)' => Managed("bus", Root)
  <2>1. CASE h = Root /\ p = "io"
    BY <1>4, <1>6, <2>1, Constants DEF Managed
  <2>2. CASE h # Root \/ p # "io"
    BY <1>4, <2>2, OthersManaged, Constants
  <2> QED
    BY <2>1, <2>2
<1>9. Grows /\ (\A g, q : Installed(g, q)' <=> Installed(g, q))
  BY <1>2 DEF Grows, Valid, Installed
<1>10. PICK x : x = Null
  OBVIOUS
<1>11. Spares(x)
  <2>1. Tables' /\ Lists'
    BY AfterStep
  <2>2. Managed("bus", Root)' => Supports("bus", Root)
    BY <1>3, <1>8, SupportsIs, Constants
  <2> QED
    BY <1>2, <1>3, <1>5, <1>9, <2>1, <2>2, MoreSpares
<1>12. stack # <<>> => Top.op # "start"
  BY <1>2, Interrupts
<1>13. \A q : Installed(Root, q)' => q = "io"
  BY <1>3, <1>9 DEF Linked
<1> QED
  BY <1>2, <1>7, <1>9, <1>10, <1>11, <1>12, <1>13, Constants, BetweenReaches

LEMMA StaysReaches ==
  ASSUME Known, Ordered, Reaching, Still, stack' = stack,
         stack # <<>> => Top.op # "start"
  PROVE  Reaching'
<1>1. Linked
  BY DEF Reaching
<1>2. Spares(Null) /\ Children' = Children
  BY <1>1, StillIs
<1>3. Grows /\ \A q : Installed(Root, q)' => q = "io"
  BY <1>1 DEF Grows, Still, Valid, Installed, Linked
<1>4. PICK x : x = Null
  OBVIOUS
<1>5. x # Root /\ scenario' = scenario /\ bindings' = bindings
  BY <1>4, Constants DEF Still
<1> QED
  BY <1>2, <1>3, <1>4, <1>5, BetweenReaches

LEMMA CallLoadReaches ==
  ASSUME Waking, Known, Ordered, Reaching, NEW d \in Drivers, CallLoad(d) PROVE Reaching'
<1>1. /\ MayCall("load") /\ bindings' = bindings \cup {d} /\ stack' = stack
      /\ scenario' = scenario /\ protocols' = protocols /\ opens' = opens
  BY DEF CallLoad, database
<1>2. Linked /\ scenario \in Scenarios
  BY DEF Reaching, Known, Typed
<1>3. Grows /\ \A q : Installed(Root, q)' => q = "io"
  BY <1>1, <1>2 DEF Grows, Valid, Installed, Linked
<1>4. PICK x : x = Null
  OBVIOUS
<1>5. stack # <<>> => Top.op # "start" /\ "load" \in scenario.callbacks
  BY <1>1, Interrupts
<1>6. ASSUME stack # <<>>
      PROVE  Spares(x) /\ Children' = Children /\ "bus" \in bindings
  <2>1. "load" \in scenario.callbacks /\ "bus" \in bindings
    BY <1>2, <1>5, <1>6 DEF Waking, Linked
  <2>2. Asked' = Asked /\ Asked \subseteq Drivers
    BY <1>1, <1>2, <2>1 DEF Asked, Linked, Known, Typed
  <2>3. \A a, g : Supports(a, g)' <=> Supports(a, g)
    BY <1>1 DEF Supports, OpenStatus, Installed, Manages, OpensOf, Some, Those
  <2>4. \A a, g : Has(a, g)' <=> Has(a, g)
    BY <1>1 DEF Has, Managed, Valid
  <2>5. Children' = Children
    BY <1>1 DEF Children
  <2> QED
    BY <2>1, <2>2, <2>3, <2>4, <2>5 DEF Spares
<1>7. x # Root
  BY <1>4, Constants
<1> QED
  BY <1>1, <1>3, <1>4, <1>5, <1>6, <1>7, BetweenReaches

LEMMA CallCloseReaches ==
  ASSUME Waking, Known, Ordered, Reaching, NEW h, NEW p, CallClose(h, p) PROVE Reaching'
<1>1. /\ MayCall("close") /\ stack' = stack
      /\ scenario' = scenario /\ protocols' = protocols /\ bindings' = bindings
  BY DEF CallClose
<1>2. Linked /\ scenario \in Scenarios
  BY DEF Reaching, Known, Typed
<1>3. Grows /\ \A q : Installed(Root, q)' => q = "io"
  BY <1>1, <1>2 DEF Grows, Valid, Installed, Linked
<1>4. stack = <<>>
  BY <1>1, <1>2, Interrupts DEF Waking
<1> QED
  BY <1>1, <1>3, <1>4, BetweenReaches

LEMMA CallSomethingReaches ==
  ASSUME Harmless, Waking, Known, Ordered, Reaching, Known', Ordered', CallSomething
  PROVE  Reaching'
<1>1. CASE CallLocate
  <2>1. MayCall("locate") /\ Still /\ stack' = stack
    BY <1>1 DEF CallLocate, Still, database
  <2> QED
    BY <2>1, Interrupts, StaysReaches
<1>2. CASE \E h \in Handles, p \in Protocols :
             CallReinstall(h, p) \/ CallExclusive(h, p) \/ CallGet(h, p) \/ CallClose(h, p)
  BY <1>2, CallsReach, CallGetReaches, CallCloseReaches
<1> QED
  BY <1>1, <1>2, CallsReach, CallInstallReaches, CallLoadReaches DEF CallSomething

LEMMA StepsReach ==
  ASSUME Waking, Known, Ordered, Reaching, Known', Ordered', Step PROVE Reaching'
<1>1. Linked
  BY DEF Reaching
<1>2. CASE NotFound \/ FindDriver \/ Refuse \/ Refused \/ Reinstalled
           \/ (Unused /\ (Uninstalls \/ Reinstalls))
  BY <1>1, <1>2, OtherEnds, FindsDriver, ConnectsAgain, Removes
<1>3. CASE OpenDenied \/ OpenFindDriver \/ OpenSucceeds
  BY <1>1, <1>3, OtherEnds, FindsDriver
<1>4. CASE CollectAgents \/ AllAsked \/ NoDriver \/ CollectChildren
           \/ StopChildren \/ StopDriver \/ DriverAsked
  BY <1>1, <1>4, OtherEnds, OtherGoesOn, AsksDriver
<1>5. CASE CollectDrivers \/ CheckDrivers
  BY <1>5, CollectReaches, CheckReaches
<1>6. CASE TryDriver
  BY <1>6, TryStarts, PassReaches
<1>7. CASE Tried
  <2>1. CASE Top.recursive /\ Valid(Top.h)
    BY <1>7, <2>1, TriedGoesOn
  <2>2. CASE ~ (Top.recursive /\ Valid(Top.h))
    <3>1. Return("success")
      BY <1>7, <2>2 DEF Tried
    <3> QED
      BY <1>7, <3>1, ConnectReturns
  <2> QED
    BY <2>1, <2>2
<1>8. CASE Descend
  BY <1>8, DescendSkips, DescendCalls
<1>9. CASE Descended
  <2>1. Return("success")
    BY <1>9 DEF Descended
  <2> QED
    BY <1>9, <2>1, ConnectReturns
<1>10. CASE \/ StartFails \/ BusStarts \/ (\E k \in Kids : BusMakesKid(k)) \/ BusOpensForKid
            \/ BusStarted \/ DiskStarts \/ DiskMakesVolume \/ DiskGivesUp \/ FsStarts
  BY <1>10, StartFailsReaches, DriverStartsReaches, BusMakesKidReaches, BusOpensForKidReaches,
     BusStartedReaches, DiskMakesVolumeReaches, DiskGivesUpReaches, FsStartsReaches
<1>11. CASE \/ StopRefuses \/ BusStopsKid \/ BusStoppedKid \/ BusStops \/ DiskStops
            \/ DiskStopped \/ FsStops
  BY <1>1, <1>11, OtherEnds, OtherGoesOn, AsksDriver
<1> QED
  BY <1>2, <1>3, <1>4, <1>5, <1>6, <1>7, <1>8, <1>9, <1>10, <1>11 DEF Step

LEMMA StutterReaches ==
  ASSUME Known, Ordered, Reaching, UNCHANGED vars PROVE Reaching'
<1>1. Linked /\ Covered /\ Still /\ stack' = stack
  BY DEF Reaching, vars, database, Still
<1>2. Linked'
  <2>1. Lives'
    BY <1>1 DEF Linked, Lives, Still, Alive, Valid
  <2> QED
    BY <1>1, <2>1 DEF Linked, Still, Installed
<1>3. Covered'
  <2>1. \A d, h : Supports(d, h)' <=> Supports(d, h)
    BY <1>1, StillIs
  <2>2. \A s : Starts(s)' <=> Starts(s)
    BY <1>1, <2>1 DEF Starts, Still
  <2>3. \A s, i : Claims(s, i)' <=> Claims(s, i)
    BY <1>1, StillIs
  <2> QED
    BY <1>1, <2>2, <2>3 DEF Covered, Still
<1> QED
  BY <1>2, <1>3 DEF Reaching

LEMMA InitReaches ==
  ASSUME Init PROVE Reaching
<1>1. /\ protocols = [h \in Handles |-> IF h = Root THEN <<"io">> ELSE <<>>]
      /\ stack = <<>> /\ bindings = scenario.loaded
  BY DEF Init
<1>2. DOMAIN stack = {}
  BY <1>1
<1>3. Lives /\ Chained(stack)
  <2>1. Len(stack) = 0
    BY <1>1
  <2> QED
    BY <1>1, <1>2, <2>1 DEF Lives, Chained
<1>4. \A p : Installed(Root, p) => p = "io"
  <2>1. Range(<<"io">>) = {"io"}
    BY DEF Range
  <2> QED
    BY <1>1, <2>1, Constants DEF Installed
<1>5. Covered
  BY <1>1, <1>2 DEF Covered, Starts
<1> QED
  BY <1>1, <1>3, <1>4, <1>5 DEF Reaching, Linked

LEMMA ReachingStays ==
  ASSUME Harmless, Waking, Known, Ordered, Reaching, Known', Ordered', [Next]_vars
  PROVE  Reaching'
BY CallSomethingReaches, StepsReach, StutterReaches DEF Next

\* What the calls under way have reached so far and who still asks the drivers
\* about it: the inductive invariant of ReconnectedHolds.
THEOREM ReachingAlways == Harmless /\ Waking => (Spec => []Reaching)
<1> SUFFICES ASSUME Harmless, Waking PROVE Spec => []Reaching
  OBVIOUS
<1>1. Init => Reaching
  BY InitReaches
<1>2. Known /\ Ordered /\ Reaching /\ Known' /\ Ordered' /\ [Next]_vars => Reaching'
  BY ReachingStays
<1> QED
  BY <1>1, <1>2, KnownAlways, OrderedAlways, PTL DEF Spec

\* When a recursive ConnectController is done, or an uninstall or reinstall has
\* connected again what it had disconnected, every driver that was loaded at
\* first and supports the controller or one below it manages it
\* (CoreConnectController, CoreUninstallProtocolInterface,
\* CoreReinstallProtocolInterface), provided that the notification function
\* neither disconnects, removes nor closes anything, and that when it loads
\* drivers, the bus driver is there already.
THEOREM ReconnectedHolds == Harmless /\ Waking => (Spec => []Reconnected)
<1> SUFFICES ASSUME Harmless, Waking PROVE Spec => []Reconnected
  OBVIOUS
<1>1. Known /\ Ordered /\ Reaching => Reconnected
  <2> SUFFICES ASSUME Known, Ordered, Reaching, stack # <<>>, scenario.flaky = {},
                      \/ Top.at \in {"refused", "moved"}
                      \/ Top.op = "connect" /\ Top.at = "descend" /\ Top.kids = <<>>
               PROVE  FullyConnected(Top.h)
    BY DEF Reconnected
  <2>1. PICK s : s = stack
    OBVIOUS
  <2>2. PICK n : n = Len(s)
    OBVIOUS
  <2>3. n \in DOMAIN s /\ Top = s[n] /\ Top.h \in Handles
    BY <2>1, <2>2, TheCalls
  <2>4. PICK f : f = Top
    OBVIOUS
  <2>5. Formed(f) /\ Tables /\ Lists
    BY <2>4, OrderIs
  <2>6. Resting(s, n) /\ Waiting(f) = {}
    <3>1. CASE f.at \in {"refused", "moved"}
      <4>1. Removal(f) /\ Connecting(f)
        BY <2>5, <3>1 DEF Formed, Removal, Connecting
      <4> QED
        BY <2>2, <2>3, <2>4, <4>1 DEF Resting, Waiting, Removal
    <3>2. CASE f.op = "connect" /\ f.at = "descend" /\ f.kids = <<>>
      BY <2>3, <2>4, <3>2, NothingIn DEF Resting, Waiting
    <3> QED
      BY <2>4, <3>1, <3>2
  <2>7. Claims(s, n)
    BY <2>1, <2>3 DEF Reaching, Covered
  <2>8. \A g : ~ Awaited(s, n, g)
    <3>1. s \in Seq(Frames)
      BY <2>1 DEF Known, Typed
    <3>2. \A j \in DOMAIN s : ~ (n < j)
      BY <2>2, <3>1
    <3> QED
      BY <3>2 DEF Awaited
  <2>9. \A g \in Family(f.h) : Level(g)
    BY <2>3, <2>4, <2>6, <2>7, <2>8 DEF Claims, Rests
  <2>10. Tree(f.h) = Family(f.h) /\ Family(f.h) \subseteq Handles
    BY <2>3, <2>4, FamilyIs DEF Tree
  <2>11. scenario.loaded \subseteq Asked /\ Asked \subseteq Drivers
    BY DEF Reaching, Linked, Asked, Known, Typed
  <2>12. ASSUME NEW g \in Tree(f.h), NEW d \in scenario.loaded, Supports(d, g)
         PROVE  Manages(d, g)
    <3>1. Has(d, g)
      BY <2>9, <2>10, <2>11, <2>12 DEF Level, Done
    <3>2. g \in Handles /\ d \in Drivers
      BY <2>10, <2>11
    <3> QED
      BY <2>5, <3>1, <3>2, ManagerIs DEF Has
  <2> QED
    BY <2>4, <2>12 DEF FullyConnected
<1> QED
  BY <1>1, ReachingAlways, OrderedAlways, KnownAlways, PTL
=============================================================================
