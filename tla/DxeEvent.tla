------------------------------ MODULE DxeEvent ------------------------------
(***************************************************************************)
(* Events, timers and task priority levels of the DXE core,                *)
(* MdeModulePkg/Core/Dxe/Event.  There is one processor.  The timer        *)
(* interrupt comes between any two steps while interrupts are enabled; an  *)
(* event's notification function runs, before the call that unmasks it     *)
(* returns, when the current TPL falls below the event's.                  *)
(*                                                                         *)
(* The processor's stack is a sequence of frames; the last one runs.  What *)
(* is done at TPL_HIGH_LEVEL under the event lock, with interrupts off, is *)
(* one action.  A tick is the unit of time.                                *)
(*                                                                         *)
(* Abstracted: protocol notifications, runtime events, what notification   *)
(* functions do besides calling the event services; an interrupt after     *)
(* RestoreTPL in the interrupt handler and before its return counts as one *)
(* after its return.                                                       *)
(***************************************************************************)
EXTENDS Integers, Sequences, SequencesExt, Subsequences

CONSTANTS
  Events,     \* the events that are created
  NotifyTpl,  \* the level each one's function runs at
  Signals,    \* those of type EVT_NOTIFY_SIGNAL
  Waits,      \* those of type EVT_NOTIFY_WAIT
  Timers,     \* those of type EVT_TIMER
  Group,      \* the EventGroup of each
  NoGroup,    \* that of an event without one
  Delays,     \* TriggerTime of SetTimer
  Uses,       \* <<who, call, event>>: which calls the code of Base and the
              \* functions of the events make
  MaxTime,    \* bound: the number of ticks
  CheckTimer, \* mEfiCheckTimerEvent
  Base        \* the code that runs at TPL_APPLICATION

Application == 4
Callback    == 8
Notify      == 16
TimerLevel  == 30 \* TPL_HIGH_LEVEL - 1
High        == 31
Levels      == {Application, Callback, Notify, TimerLevel, High}

Calls == {"create", "signal", "check", "close", "cancel", "relative",
          "periodic", "raise"}
All   == Events \cup {CheckTimer}

ASSUME ConstantsAssumption ==
  /\ CheckTimer \notin Events /\ Base \notin All
  /\ NotifyTpl \in [Events -> {Callback, Notify}]
  /\ Signals \subseteq Events /\ Waits \subseteq Events \ Signals
  /\ Timers \subseteq Events
  /\ Delays \subseteq Nat /\ MaxTime \in Nat
  /\ Uses \subseteq (Events \cup {Base}) \X Calls \X Events

VARIABLES
  stack,      \* the frames of the processor's stack
  tpl,        \* gEfiCurrentTpl
  interrupts, \* whether the processor takes interrupts
  queue,      \* gEventQueue, a queue for each level
  pending,    \* gEventPending, the levels whose bit is set
  count,      \* SignalCount of each event
  life,       \* "none", "open", then "closed" and its memory freed
  registered, \* gEventSignalQueue, but for the event of CheckTimer
  armed,      \* mEfiTimerList
  trigger,    \* Timer.TriggerTime of each event
  period,     \* Timer.Period of each event
  now         \* mEfiSystemTime

processor == <<stack, tpl, interrupts>>
notifying == <<queue, pending, count>>
timing    == <<armed, trigger, period>>
vars      == <<processor, notifying, life, registered, timing, now>>
-----------------------------------------------------------------------------
(********************************* Frames *********************************)

\* at: where the frame goes on.  tpl: the level it keeps, or goes back to.
\* time: its TriggerTime or SystemTime.
Frame(at, level, e, time) == [at |-> at, tpl |-> level, event |-> e, time |-> time]

Top == stack[Len(stack)]
Callers(f) == Append(Front(stack), f)

Goto(f)      == stack' = Callers(f)
Call(f, g)   == stack' = Append(Callers(f), g)
Return       == stack' = Front(stack)
At(label)    == Top.at = label

\* A list without the elements of S.
Without(s, S) == Subsequence(s, {i \in DOMAIN s : s[i] \notin S})

\* CoreAcquireEventLock ... CoreReleaseEventLock: what is between them is done
\* at TPL_HIGH_LEVEL; CoreRestoreTpl is what is left of it.
Restore(level) == Frame("restore", level, CheckTimer, 0)
Locked         == tpl' = High /\ interrupts' = FALSE

LevelOf(e) == IF e = CheckTimer THEN TimerLevel ELSE NotifyTpl[e]
IsSignal(e) == e = CheckTimer \/ e \in Signals

(***************************** CoreNotifyEvent *****************************)

\* The events of s that are notified at a level.
OfLevel(s, level) == Subsequence(s, {i \in DOMAIN s : LevelOf(s[i]) = level})

\* Mutant: an event that is queued is queued again.
EnqueueTwice(level, s) == queue[level] \o OfLevel(s, level)

\* The queue of a level once the events of s, which has each of them once, were
\* queued in turn: one that is queued already moves to the end.
Enqueue(level, s) == Without(queue[level], ToSet(s)) \o OfLevel(s, level)

NotifyEvents(s) ==
  /\ queue' = [level \in Levels |-> Enqueue(level, s)]
  /\ pending' = pending \cup {LevelOf(s[i]) : i \in DOMAIN s}

Grouped(e) == e \in Signals /\ Group[e] # NoGroup

\* All members of the event's group are queued with it.
Members(e) == IF Grouped(e)
              THEN Subsequence(registered, {i \in DOMAIN registered :
                                              Group[registered[i]] = Group[e]})
              ELSE IF IsSignal(e) THEN <<e>> ELSE <<>>

\* Mutant: an event that is signalled already is signalled again.
SignalEveryTime(e) ==
  /\ count' = [count EXCEPT ![e] = @ + 1]
  /\ NotifyEvents(Members(e))

\* CoreSignalEvent where releasing the lock unmasks nothing.
Signal(e) ==
  /\ count' = [count EXCEPT ![e] = 1]
  /\ NotifyEvents(IF count[e] = 0 THEN Members(e) ELSE <<>>)
-----------------------------------------------------------------------------
(***************************** CoreRestoreTpl ******************************)

Highest(S) == CHOOSE p \in S : \A q \in S : q <= p

\* Mutant: events of the level itself are dispatched too.
UnmaskedOrEqual(level) == {p \in pending : p >= level}

Unmasked(level) == {p \in pending : p > level}

\* The highest bit of gEventPending becomes the current level; builds that do
\* not read it twice are modelled.
RestoreDispatch ==
  /\ At("restore") /\ Unmasked(Top.tpl) # {}
  /\ tpl' = Highest(pending) /\ interrupts' = TRUE
  /\ Call(Top, Frame("dispatch", Highest(pending), CheckTimer, 0))
  /\ UNCHANGED <<notifying, life, registered, timing, now>>

\* Nothing is pending above the new level.  Where interrupts are on, one can
\* come before the new level is set.
RestoreDone ==
  /\ At("restore") /\ Unmasked(Top.tpl) = {} /\ interrupts
  /\ Goto([Top EXCEPT !.at = "lower"])
  /\ UNCHANGED <<tpl, interrupts, notifying, life, registered, timing, now>>

RestoreLower ==
  /\ At("lower") \/ (At("restore") /\ Unmasked(Top.tpl) = {} /\ ~interrupts)
  /\ tpl' = Top.tpl /\ interrupts' = TRUE
  /\ Return
  /\ UNCHANGED <<notifying, life, registered, timing, now>>

RestoreTpl == RestoreDispatch \/ RestoreDone \/ RestoreLower

(************************ CoreDispatchEventNotifies ************************)

\* Mutant: SignalCount is not cleared before the function runs.
ClearedLate(e) == count

\* A WAIT type event is only cleared by CheckEvent.
Cleared(e) == IF IsSignal(e) THEN [count EXCEPT ![e] = 0] ELSE count

DispatchNext ==
  /\ At("dispatch") /\ queue[Top.tpl] # <<>>
  /\ LET e == Head(queue[Top.tpl]) IN
       /\ queue' = [queue EXCEPT ![Top.tpl] = Tail(@)]
       /\ count' = Cleared(e)
       /\ Call([Top EXCEPT !.at = "notify", !.event = e], Restore(Top.tpl))
  /\ Locked
  /\ UNCHANGED <<pending, life, registered, timing, now>>

\* The function of the event is called.
DispatchNotify ==
  /\ At("notify")
  /\ Call([Top EXCEPT !.at = "dispatch"],
          Frame(IF Top.event = CheckTimer THEN "timers" ELSE "code",
                LevelOf(Top.event), Top.event, 0))
  /\ UNCHANGED <<tpl, interrupts, notifying, life, registered, timing, now>>

DispatchEnd ==
  /\ At("dispatch") /\ queue[Top.tpl] = <<>>
  /\ pending' = pending \ {Top.tpl}
  /\ Goto(Restore(Top.tpl))
  /\ Locked
  /\ UNCHANGED <<queue, count, life, registered, timing, now>>

Dispatch == DispatchNext \/ DispatchNotify \/ DispatchEnd
-----------------------------------------------------------------------------
(******************************** Timer list *******************************)

\* Mutant: a new timer goes to the end of the list.
InsertLast(e, time) == Append(armed, e)

\* CoreInsertEventTimer: before the first timer that is later.
Insert(e, time) ==
  LET later == {i \in DOMAIN armed : trigger[armed[i]] > time}
  IN  InsertAt(armed, IF later = {} THEN Len(armed) + 1 ELSE Min(later), e)

\* Whether the first timer of a list has expired at a time.
Expired(list, time) == list # <<>> /\ trigger[Head(list)] <= time

\* The timer interrupt: CoreTimerTick at TPL_HIGH_LEVEL, then RestoreTPL.
TimerTick ==
  /\ interrupts /\ now < MaxTime
  /\ now' = now + 1
  /\ IF Expired(armed, now') THEN Signal(CheckTimer) ELSE UNCHANGED notifying
  /\ stack' = Append(stack, Restore(tpl))
  /\ Locked
  /\ UNCHANGED <<life, registered, timing>>

(***************************** CoreCheckTimers *****************************)

\* The lock of the timer list has the level of the function itself.
CheckTimersStart ==
  /\ At("timers")
  /\ Goto([Top EXCEPT !.at = "expire", !.time = now])
  /\ UNCHANGED <<tpl, interrupts, notifying, life, registered, timing, now>>

\* CoreSignalEvent unmasks nothing here.
CheckTimersExpire ==
  /\ At("expire") /\ Expired(armed, Top.time)
  /\ LET e == Head(armed) IN
       /\ armed' = Tail(armed)
       /\ Signal(e)
       /\ IF period[e] = 0 THEN UNCHANGED stack
                           ELSE Goto([Top EXCEPT !.at = "again", !.event = e])
  /\ UNCHANGED <<tpl, interrupts, life, registered, trigger, period, now>>

\* Mutant: a periodic timer that was late is not armed again.
AgainOnTime(e, time) ==
  IF trigger[e] + period[e] <= time THEN armed ELSE Insert(e, trigger[e] + period[e])

\* A periodic timer that has missed a period starts from now.
NextTrigger(e, time) ==
  IF trigger[e] + period[e] <= time THEN time ELSE trigger[e] + period[e]

Again(e, time) == Insert(e, NextTrigger(e, time))

CheckTimersAgain ==
  /\ At("again")
  /\ LET e == Top.event IN
       /\ trigger' = [trigger EXCEPT ![e] = NextTrigger(e, Top.time)]
       /\ armed' = Again(e, Top.time)
       /\ IF trigger[e] + period[e] <= Top.time THEN Signal(CheckTimer)
                                                ELSE UNCHANGED notifying
  /\ Goto([Top EXCEPT !.at = "expire", !.event = CheckTimer])
  /\ UNCHANGED <<tpl, interrupts, life, registered, period, now>>

CheckTimersEnd ==
  /\ At("expire") /\ ~Expired(armed, Top.time)
  /\ Return
  /\ UNCHANGED <<tpl, interrupts, notifying, life, registered, timing, now>>

CheckTimers ==
  CheckTimersStart \/ CheckTimersExpire \/ CheckTimersAgain \/ CheckTimersEnd

(****************************** CoreSetTimer *******************************)

\* The interrupt handler's RestoreTPL unmasks nothing at TimerLevel.
SetTimerRemove ==
  /\ Top.at \in {"cancel", "relative", "periodic"}
  /\ LET e == Top.event
         delay == IF Top.at = "periodic" /\ Top.time = 0 THEN 1 ELSE Top.time
     IN  /\ armed' = Without(armed, {e})
         /\ trigger' = [trigger EXCEPT ![e] = 0]
         /\ period' = [period EXCEPT ![e] = IF Top.at = "periodic" THEN delay ELSE 0]
         /\ Goto(IF Top.at = "cancel" THEN Restore(Top.tpl)
                 ELSE [Top EXCEPT !.at = "time", !.time = delay])
  /\ UNCHANGED <<tpl, interrupts, notifying, life, registered, now>>

SetTimerTime ==
  /\ At("time")
  /\ trigger' = [trigger EXCEPT ![Top.event] = now + Top.time]
  /\ Goto([Top EXCEPT !.at = "insert"])
  /\ UNCHANGED <<tpl, interrupts, notifying, life, registered, armed, period, now>>

SetTimerInsert ==
  /\ At("insert")
  /\ armed' = Insert(Top.event, trigger[Top.event])
  /\ IF Top.time = 0 THEN Signal(CheckTimer) ELSE UNCHANGED notifying
  /\ Goto(Restore(Top.tpl))
  /\ UNCHANGED <<tpl, interrupts, life, registered, trigger, period, now>>

SetTimer == SetTimerRemove \/ SetTimerTime \/ SetTimerInsert
-----------------------------------------------------------------------------
(******************************* The callers *******************************)

\* The code at the top calls a service for e.
Calling(call, e) ==
  /\ At("code")
  /\ <<Top.event, call, e>> \in Uses

CreateEvent(e) ==
  /\ Calling("create", e) /\ life[e] = "none"
  /\ life' = [life EXCEPT ![e] = "open"]
  /\ registered' = IF e \in Signals THEN <<e>> \o registered ELSE registered
  /\ Call(Top, Restore(tpl)) /\ Locked
  /\ UNCHANGED <<notifying, timing, now>>

CallSetTimer(e) ==
  /\ life[e] = "open" /\ e \in Timers
  /\ \E call \in {"cancel", "relative", "periodic"} :
       /\ Calling(call, e)
       /\ \E delay \in IF call = "cancel" THEN {0} ELSE Delays :
            Call(Top, Frame(call, tpl, e, delay))
  /\ tpl' = TimerLevel
  /\ UNCHANGED <<interrupts, notifying, life, registered, timing, now>>

\* The first signal of a group's event goes on to the group after the lock
\* was released.
SignalEvent(e) ==
  /\ Calling("signal", e) /\ life[e] = "open"
  /\ \/ /\ ~Grouped(e) \/ count[e] # 0
        /\ Signal(e)
        /\ Call(Top, Restore(tpl))
     \/ /\ Grouped(e) /\ count[e] = 0
        /\ count' = [count EXCEPT ![e] = 1]
        /\ stack' = stack \o <<Frame("group", tpl, e, 0), Restore(tpl)>>
        /\ UNCHANGED <<queue, pending>>
  /\ Locked
  /\ UNCHANGED <<life, registered, timing, now>>

\* CoreNotifySignalList.
SignalGroup ==
  /\ At("group")
  /\ NotifyEvents(Members(Top.event))
  /\ Goto(Restore(Top.tpl))
  /\ Locked
  /\ UNCHANGED <<count, life, registered, timing, now>>

\* CheckEvent, or a turn of WaitForEvent, of an event that is not signalled
\* asks its function first.
CheckEvent(e) ==
  /\ Calling("check", e) /\ life[e] = "open" /\ e \notin Signals
  /\ \/ /\ count[e] = 0 /\ e \in Waits
        /\ NotifyEvents(<<e>>)
        /\ stack' = stack \o <<Frame("consume", tpl, e, 0), Restore(tpl)>>
        /\ Locked /\ UNCHANGED count
     \/ /\ count[e] # 0
        /\ count' = [count EXCEPT ![e] = 0]
        /\ Call(Top, Restore(tpl))
        /\ Locked /\ UNCHANGED <<queue, pending>>
  /\ UNCHANGED <<life, registered, timing, now>>

CheckEventAgain ==
  /\ At("consume")
  /\ \/ /\ count[Top.event] # 0
        /\ count' = [count EXCEPT ![Top.event] = 0]
        /\ Goto(Restore(Top.tpl)) /\ Locked
     \/ /\ count[Top.event] = 0
        /\ Return /\ UNCHANGED <<tpl, interrupts, count>>
  /\ UNCHANGED <<queue, pending, life, registered, timing, now>>

\* A timer is cancelled first, by CoreSetTimer.
CloseEvent(e) ==
  /\ Calling("close", e) /\ life[e] = "open"
  /\ LET close == Frame("close", tpl, e, 0) IN
     IF e \in Timers
     THEN stack' = stack \o <<close, Frame("cancel", tpl, e, 0)>> /\ tpl' = TimerLevel
     ELSE stack' = Append(stack, close) /\ UNCHANGED tpl
  /\ UNCHANGED <<interrupts, notifying, life, registered, timing, now>>

\* Mutant: the event stays where it is queued.
NotUnlinked(e) == queue

Unlinked(e) == [queue EXCEPT ![LevelOf(e)] = Without(@, {e})]

CloseUnlink ==
  /\ At("close")
  /\ queue' = Unlinked(Top.event)
  /\ registered' = Without(registered, {Top.event})
  /\ Call([Top EXCEPT !.at = "free"], Restore(Top.tpl))
  /\ Locked
  /\ UNCHANGED <<pending, count, life, timing, now>>

CloseFree ==
  /\ At("free")
  /\ life' = [life EXCEPT ![Top.event] = "closed"]
  /\ Return
  /\ UNCHANGED <<tpl, interrupts, notifying, registered, timing, now>>

\* The level the code of a frame starts with and goes back to.
OwnLevel(f) == IF f.event = Base THEN Application ELSE LevelOf(f.event)

RaiseTpl ==
  /\ At("code") /\ \E e \in Events : <<Top.event, "raise", e>> \in Uses
  /\ \E level \in {Callback, Notify} :
       /\ tpl < level
       /\ tpl' = level
       /\ Goto([Top EXCEPT !.tpl = level])
  /\ UNCHANGED <<interrupts, notifying, life, registered, timing, now>>

CallRestoreTpl ==
  /\ At("code") /\ Top.tpl # OwnLevel(Top)
  /\ Call([Top EXCEPT !.tpl = OwnLevel(Top)], Restore(OwnLevel(Top)))
  /\ UNCHANGED <<tpl, interrupts, notifying, life, registered, timing, now>>

\* A notification function returns to the dispatcher.
NotifyReturns ==
  /\ At("code") /\ Top.event # Base /\ Top.tpl = OwnLevel(Top)
  /\ Return
  /\ UNCHANGED <<tpl, interrupts, notifying, life, registered, timing, now>>
-----------------------------------------------------------------------------
Init ==
  /\ stack = <<Frame("code", Application, Base, 0)>>
  /\ tpl = Application /\ interrupts = TRUE
  /\ queue = [level \in Levels |-> <<>>] /\ pending = {}
  /\ count = [e \in All |-> 0]
  /\ life = [e \in Events |-> "none"]
  /\ registered = <<>>
  /\ armed = <<>>
  /\ trigger = [e \in Events |-> 0] /\ period = [e \in Events |-> 0]
  /\ now = 0

Services ==
  \/ SetTimer \/ SignalGroup \/ CheckEventAgain \/ CloseUnlink \/ CloseFree

Code ==
  \/ \E e \in Events : \/ CreateEvent(e) \/ CallSetTimer(e) \/ SignalEvent(e)
                       \/ CheckEvent(e) \/ CloseEvent(e)
  \/ RaiseTpl \/ CallRestoreTpl \/ NotifyReturns

Next == RestoreTpl \/ Dispatch \/ CheckTimers \/ Services \/ Code \/ TimerTick

Spec == Init /\ [][Next]_vars
-----------------------------------------------------------------------------
(******************************* Properties *******************************)

Labels == {"code", "restore", "lower", "dispatch", "notify", "timers",
           "expire", "again", "cancel", "relative", "periodic", "time",
           "insert", "group", "consume", "close", "free"}

Queued(e) == e \in ToSet(queue[LevelOf(e)])

\* Every variable of the core has a value of its type.
TypeOK ==
  /\ stack \in Seq([at : Labels, tpl : Levels, event : All \cup {Base}, time : Nat])
  /\ stack # <<>>
  /\ tpl \in Levels /\ interrupts \in BOOLEAN
  /\ queue \in [Levels -> Seq(All)] /\ pending \subseteq Levels
  /\ count \in [All -> {0, 1}]
  /\ life \in [Events -> {"none", "open", "closed"}]
  /\ registered \in Seq(Signals)
  /\ armed \in Seq(Timers)
  /\ trigger \in [Events -> Nat] /\ period \in [Events -> Nat]
  /\ now \in 0..MaxTime

\* An event whose SignalCount is set is on its way to its function: otherwise
\* CoreSignalEvent would ignore it for good.  And CoreRestoreTpl looks at no
\* queue whose bit is clear.
Deliverable ==
  /\ \A e \in Signals \cup {CheckTimer} :
       count[e] # 0 /\ (e \in Events => life[e] = "open") =>
         \/ Queued(e)
         \/ \E i \in DOMAIN stack : stack[i].event = e /\ stack[i].at \in {"group", "free"}
  /\ \A level \in Levels : queue[level] # <<>> => level \in pending

\* A function runs only above the level of all the code it has interrupted, so
\* that code at a level is alone at it.
Preempts ==
  \A i, j \in DOMAIN stack :
    i < j /\ stack[i].at = "code" =>
      /\ stack[j].at = "code" => stack[i].tpl < OwnLevel(stack[j])
      /\ stack[j].at = "timers" => stack[i].tpl < stack[j].tpl

\* The list of timers is changed by one call at a time, at the lock's level.
TimerLock ==
  LET holders == {i \in DOMAIN stack :
                    stack[i].at \in {"expire", "again", "cancel", "relative",
                                     "periodic", "time", "insert"}}
  IN  /\ \A i, j \in holders : i = j
      /\ holders # {} => tpl >= TimerLevel

\* A periodic timer stays armed until it is set anew or cancelled.
PeriodicStays ==
  \A e \in Timers :
    period[e] # 0 =>
      \/ e \in ToSet(armed)
      \/ \E i \in DOMAIN stack :
           stack[i].event = e /\ stack[i].at \in {"again", "time", "insert"}

\* The lists of timers and of events to notify hold each event once; the tick
\* finds the timer that is first to expire at the head of its list, which one
\* call at a time changes and no periodic timer drops out of.
ListsSound ==
  /\ \A level \in Levels : IsInjective(queue[level])
  /\ IsInjective(armed) /\ TimerLock /\ PeriodicStays
  /\ \A i, j \in DOMAIN armed : i < j => trigger[armed[i]] <= trigger[armed[j]]

\* A tick leaves no expired timer unnoticed.
TickNotices ==
  [][now' # now /\ (\E i \in DOMAIN armed : trigger[armed[i]] <= now') =>
       CheckTimer \in ToSet(queue'[TimerLevel])]_vars

\* No list and no call that is under way refers to the memory of a closed event.
ClosedUnused ==
  \A e \in Events :
    life[e] = "closed" =>
      /\ e \notin ToSet(armed) /\ ~Queued(e)
      /\ \A i \in DOMAIN stack :
           stack[i].event = e => stack[i].at \in {"code", "dispatch"}
=============================================================================
