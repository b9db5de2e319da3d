--------------------------- MODULE HandleDatabase ---------------------------
(***************************************************************************)
(* The handles of the DXE core with their protocol interfaces, who has     *)
(* opened them, and the connection of drivers to controllers:              *)
(* MdeModulePkg/Core/Dxe/Hand.                                             *)
(*                                                                         *)
(* The code gives up the lock of the database whenever it calls a driver,  *)
(* and a driver's Start and Stop call back into it.  The calls under way   *)
(* are a stack of frames; a step is what its last frame does while it      *)
(* holds the lock, or between two calls.  In between an event's            *)
(* notification function at TPL_CALLBACK may make calls of its own.        *)
(*                                                                         *)
(* The callers are the environment: three drivers that follow the UEFI     *)
(* driver model and raise the level to TPL_CALLBACK in Start and Stop, as  *)
(* those of USB do; a program; a notification function, which neither      *)
(* removes nor closes anything, and connects nothing during a disconnect.  *)
(*                                                                         *)
(* Abstracted: the pointers to interfaces, device paths, OpenCount, the    *)
(* overrides and versions that sort the drivers, security, exclusive opens *)
(* by drivers, and memory that runs out.                                   *)
(***************************************************************************)
EXTENDS Integers, Sequences, SequencesExt, Subsequences

CONSTANTS
  Root,      \* the handle of a bus controller
  Kids,      \* the handles of the devices on its bus
  Null,
  Scenarios  \* what the environment does

Handles == {Root} \cup Kids

\* The bus driver makes kids with "block" from "io"; the disk driver adds
\* "volume" to a handle with "block"; the file system driver uses that.
Uses  == [bus |-> "io", disk |-> "block", fs |-> "volume"]
Makes == [bus |-> "block", disk |-> "volume"]

Drivers   == DOMAIN Uses
Protocols == {"io", "block", "volume"}

\* The protocol some code has registered a notification for.
Watched == "block"

\* CoreConnectSingleController's order; a driver may come before the one whose
\* work it needs.
Order == <<"fs", "disk", "bus">>

Calls == {"connect", "disconnect", "install", "uninstall", "reinstall",
          "exclusive", "get", "close", "locate", "load"}

\* kids: the devices on the bus.  calls, callbacks: what the program and the
\* notification function call.  loaded: the drivers there are at first.
\* refuse: those whose Stop may refuse.  flaky: those whose Start may fail.
ScenarioType == [kids : SUBSET Kids, calls : SUBSET Calls, callbacks : SUBSET Calls,
                 loaded : SUBSET Drivers, refuse : SUBSET Drivers, flaky : SUBSET Drivers]

ASSUME ConstantsAssumption ==
  /\ Root \notin Kids /\ Null \notin Handles
  /\ Scenarios \subseteq ScenarioType

VARIABLES
  scenario,
  protocols, \* Handle->Protocols; <<>> when the handle has been freed
  opens,     \* Prot->OpenList of the interface of a protocol on a handle
  entry,     \* ProtEntry->Protocols of Watched, by handle
  position,  \* ProtNotify->Position; Null at the head of the list
  signaled,  \* ProtNotify->Event has been signalled, its function has not seen all
  unseen,    \* the handles it has still to be told of
  bindings,  \* the drivers that have installed their driver binding protocol
  stack      \* the calls under way

database == <<protocols, opens>>
notify   == <<entry, position, signaled, unseen>>
vars     == <<scenario, database, notify, bindings, stack>>
-----------------------------------------------------------------------------
(******************************** The stack ********************************)

\* at: where the call is.  how, p, agent, child, recursive: its arguments.
\* drivers, kids: its buffers of handles.  index: its place in drivers.  any:
\* StopCount > 0; in a bus driver's Stop, that a kid stayed.  status: what the
\* call it has made returned.  callback: the notification function made it.
Call(op, at, h) ==
  [op |-> op, at |-> at, h |-> h, p |-> "", agent |-> "", child |-> Null, how |-> "",
   recursive |-> FALSE, drivers |-> <<>>, kids |-> <<>>, index |-> 0, any |-> FALSE,
   status |-> "", callback |-> FALSE]

Top == Last(stack)

At(op, label) == stack # <<>> /\ Top.op = op /\ Top.at = label

\* The last call goes on as f, or goes on as f when the call g returns.
GoOn(f)       == stack' = Append(Front(stack), f)
Invoke(f, g)  == stack' = Front(stack) \o <<f, g>>

Return(status) ==
  stack' = IF Len(stack) = 1 \/ Top.callback
           THEN Front(stack)
           ELSE [Front(stack) EXCEPT ![Len(stack) - 1].status = status]
-----------------------------------------------------------------------------
(****************************** The database *******************************)

\* A list without an element.
Without(s, x) == Subsequence(s, {i \in DOMAIN s : s[i] # x})

\* CoreValidateHandle
Valid(h) == protocols[h] # <<>>

Installed(h, p) == p \in Range(protocols[h])

Open(agent, controller, how) == [agent |-> agent, controller |-> controller, how |-> how]

\* All opens of h, in the order of the walks over its interfaces.
OpensOf(h) == FlattenSeq([i \in DOMAIN protocols[h] |-> opens[<<h, protocols[h][i]>>]])

Those(s, how) == Subsequence(s, {i \in DOMAIN s : s[i].how = how})
Some(s, how)  == Those(s, how) # <<>>

Manages(agent, h) == \E o \in Range(OpensOf(h)) : o.agent = agent /\ o.how = "driver"

\* Mutant: the position is left at an interface that is removed.
StaysAt(h) == position

\* The notification's position backs up from an interface that is removed.
BacksUp(h) ==
  IF position # h THEN position
  ELSE LET i == CHOOSE j \in DOMAIN entry : entry[j] = h
       IN IF i = 1 THEN Null ELSE entry[i - 1]

Notified(p) == signaled' = (signaled \/ p = Watched)

\* CoreInstallProtocolInterface of a protocol the handle does not have.
Install(h, p) ==
  /\ protocols' = [protocols EXCEPT ![h] = <<p>> \o @]
  /\ opens' = [opens EXCEPT ![<<h, p>>] = <<>>]
  /\ IF p = Watched
     THEN entry' = Append(entry, h) /\ unseen' = unseen \cup {h}
     ELSE UNCHANGED <<entry, unseen>>
  /\ Notified(p)
  /\ UNCHANGED position

\* CoreRemoveInterfaceFromProtocol and what CoreUninstallProtocolInterface does
\* after it; a handle without protocols is freed.
RemoveInterface(h, p) ==
  /\ protocols' = [protocols EXCEPT ![h] = Without(@, p)]
  /\ opens' = [opens EXCEPT ![<<h, p>>] = <<>>]
  /\ IF p = Watched
     THEN /\ position' = BacksUp(h)
          /\ entry' = Without(entry, h)
          /\ unseen' = unseen \ {h}
     ELSE UNCHANGED <<position, entry, unseen>>
  /\ UNCHANGED signaled

\* The same of CoreReinstallProtocolInterface, which puts it at the tail.
MoveToTail(h, p) ==
  /\ IF p = Watched
     THEN /\ position' = BacksUp(h)
          /\ entry' = Append(Without(entry, h), h)
          /\ unseen' = unseen \cup {h}
     ELSE UNCHANGED <<position, entry, unseen>>
  /\ UNCHANGED signaled

\* CoreCloseProtocol
Close(h, p, agent, controller) ==
  LET s == opens[<<h, p>>]
      kept == {i \in DOMAIN s : s[i].agent # agent \/ s[i].controller # controller}
  IN  opens' = [opens EXCEPT ![<<h, p>>] = Subsequence(s, kept)]

\* CoreOpenProtocol that is not exclusive: how it ends, and the list it leaves.
OpenStatus(h, p, o) ==
  LET s == opens[<<h, p>>]
  IN  IF ~Installed(h, p) THEN "error"
      ELSE IF o \in Range(s) THEN IF o.how = "driver" THEN "already" ELSE "success"
      ELSE IF o.how = "driver" /\ (Some(s, "driver") \/ Some(s, "exclusive")) THEN "error"
      ELSE "success"

\* Mutant: an open that is in the list already is put there again.
OpenedAgain(h, p, o) ==
  IF OpenStatus(h, p, o) = "success" THEN Append(opens[<<h, p>>], o) ELSE opens[<<h, p>>]

Opened(h, p, o) ==
  IF OpenStatus(h, p, o) = "success" /\ o \notin Range(opens[<<h, p>>])
  THEN Append(opens[<<h, p>>], o) ELSE opens[<<h, p>>]
-----------------------------------------------------------------------------
(***** CoreUninstallProtocolInterface and CoreReinstallProtocolInterface ****)

Uninstall(h, p) == [Call("uninstall", "find", h) EXCEPT !.p = p]
Reinstall(h, p) == [Call("reinstall", "find", h) EXCEPT !.p = p]

Disconnect(h, agent, child) ==
  [Call("disconnect", IF agent = "" THEN "agents" ELSE "next", h)
     EXCEPT !.child = child, !.drivers = IF agent = "" THEN <<>> ELSE <<agent>>]

Connect(h, recursive) == [Call("connect", "collect", h) EXCEPT !.recursive = recursive]

\* CoreConnectController (UserHandle, NULL, NULL, TRUE).
WholeTree(h) == Connect(h, TRUE)

Removing == stack # <<>> /\ Top.op \in {"uninstall", "reinstall"}

NotFound ==
  /\ Removing /\ Top.at = "find" /\ ~Installed(Top.h, Top.p)
  /\ Return("error")
  /\ UNCHANGED <<scenario, database, notify, bindings>>

\* The walk in CoreDisconnectControllersUsingProtocolInterface, begun again
\* after each driver that was disconnected.
Walks ==
  /\ Removing /\ Installed(Top.h, Top.p)
  /\ \/ Top.at = "find"
     \/ Top.at = "asked" /\ Top.status = "success"

\* The lock is given up for the call.
FindDriver ==
  /\ Walks /\ Some(opens[<<Top.h, Top.p>>], "driver")
  /\ Invoke([Top EXCEPT !.at = "asked"],
            Disconnect(Top.h, Those(opens[<<Top.h, Top.p>>], "driver")[1].agent, Null))
  /\ UNCHANGED <<scenario, database, notify, bindings>>

\* What the removal of weak opens leaves.
Strong(o) == o.how # "get"

Left == LET s == opens[<<Top.h, Top.p>>] IN Subsequence(s, {i \in DOMAIN s : Strong(s[i])})

Refuse ==
  /\ \/ Removing /\ Top.at = "asked" /\ Top.status = "error" /\ UNCHANGED opens
     \/ /\ Walks /\ ~Some(opens[<<Top.h, Top.p>>], "driver") /\ Left # <<>>
        /\ opens' = [opens EXCEPT ![<<Top.h, Top.p>>] = Left]
  /\ Invoke([Top EXCEPT !.at = "refused"], WholeTree(Top.h))
  /\ UNCHANGED <<scenario, protocols, notify, bindings>>

Refused ==
  /\ Removing /\ Top.at = "refused"
  /\ Return("error")
  /\ UNCHANGED <<scenario, database, notify, bindings>>

Unused == Walks /\ ~Some(opens[<<Top.h, Top.p>>], "driver") /\ Left = <<>>

Uninstalls ==
  /\ Top.op = "uninstall"
  /\ RemoveInterface(Top.h, Top.p)
  /\ Return("success")
  /\ UNCHANGED <<scenario, bindings>>

Reinstalls ==
  /\ Top.op = "reinstall"
  /\ opens' = [opens EXCEPT ![<<Top.h, Top.p>>] = <<>>]
  /\ MoveToTail(Top.h, Top.p)
  /\ Invoke([Top EXCEPT !.at = "moved"], WholeTree(Top.h))
  /\ UNCHANGED <<scenario, protocols, bindings>>

Reinstalled ==
  /\ At("reinstall", "moved")
  /\ Notified(Top.p)
  /\ Return("success")
  /\ UNCHANGED <<scenario, database, entry, position, unseen, bindings>>
-----------------------------------------------------------------------------
(**************** CoreOpenProtocol with exclusive access *******************)

Exclusive(h, p) == [Call("open", "open", h) EXCEPT !.p = p, !.agent = "app", !.how = "exclusive"]

\* Whether somebody else has exclusive access is asked at first only.
MayOpen ==
  \/ /\ At("open", "open") /\ Installed(Top.h, Top.p)
     /\ ~Some(opens[<<Top.h, Top.p>>], "exclusive")
  \/ At("open", "asked") /\ Top.status = "success" /\ Installed(Top.h, Top.p)

OpenDenied ==
  /\ \/ At("open", "open") /\ ~Installed(Top.h, Top.p)
     \/ At("open", "open") /\ Some(opens[<<Top.h, Top.p>>], "exclusive")
     \/ At("open", "asked") /\ Top.status = "error"
  /\ Return("error")
  /\ UNCHANGED <<scenario, database, notify, bindings>>

OpenFindDriver ==
  /\ MayOpen /\ Some(opens[<<Top.h, Top.p>>], "driver")
  /\ Invoke([Top EXCEPT !.at = "asked"],
            Disconnect(Top.h, Those(opens[<<Top.h, Top.p>>], "driver")[1].agent, Null))
  /\ UNCHANGED <<scenario, database, notify, bindings>>

\* Mutant: the list is not walked again after a driver was disconnected.
AskedOnce == Top.at = "asked" \/ ~Some(opens[<<Top.h, Top.p>>], "driver")

NobodyManages == ~Some(opens[<<Top.h, Top.p>>], "driver")

OpenSucceeds ==
  /\ MayOpen /\ NobodyManages
  /\ opens' = [opens EXCEPT ![<<Top.h, Top.p>>] = Append(@, Open(Top.agent, Null, Top.how))]
  /\ Return("success")
  /\ UNCHANGED <<scenario, protocols, notify, bindings>>
-----------------------------------------------------------------------------
(************************* CoreDisconnectController ************************)

\* The elements of s without repetitions, in their order.
Distinct(s) == Subsequence(s, {i \in DOMAIN s : \A j \in 1 .. i - 1 : s[j] # s[i]})

ManagersOf(h) ==
  LET s == Those(OpensOf(h), "driver") IN Distinct([i \in DOMAIN s |-> s[i].agent])

ChildrenOf(h, agents) ==
  LET all == OpensOf(h)
      s   == Subsequence(all, {i \in DOMAIN all : all[i].how = "child" /\ all[i].agent \in agents})
  IN [i \in DOMAIN s |-> s[i].controller]

\* All agents are to be disconnected, and these are they.
CollectAgents ==
  /\ At("disconnect", "agents")
  /\ IF ManagersOf(Top.h) = <<>>
     THEN Return("success")
     ELSE GoOn([Top EXCEPT !.at = "next", !.drivers = ManagersOf(Top.h)])
  /\ UNCHANGED <<scenario, database, notify, bindings>>

Agent == Head(Top.drivers)

Skip(any) == GoOn([Top EXCEPT !.at = "next", !.drivers = Tail(@), !.kids = <<>>,
                             !.status = "", !.any = any])

AllAsked ==
  /\ At("disconnect", "next") /\ Top.drivers = <<>>
  /\ Return(IF Top.any THEN "success" ELSE "error")
  /\ UNCHANGED <<scenario, database, notify, bindings>>

\* The agent has no driver binding protocol.
NoDriver ==
  /\ At("disconnect", "next") /\ Top.drivers # <<>> /\ Agent \notin bindings
  /\ Return("error")
  /\ UNCHANGED <<scenario, database, notify, bindings>>

\* The children are counted and collected.
CollectChildren ==
  /\ At("disconnect", "next") /\ Top.drivers # <<>> /\ Agent \in bindings
  /\ LET children == Distinct(ChildrenOf(Top.h, {Agent}))
     IN IF Manages(Agent, Top.h) /\ (Top.child = Null \/ Top.child \in Range(children))
        THEN GoOn([Top EXCEPT !.at = IF children = <<>> THEN "release" ELSE "stop",
                              !.kids = children])
        ELSE Skip(Top.any)
  /\ UNCHANGED <<scenario, database, notify, bindings>>

Stop(driver, h, kids) == [Call("stop", "stop", h) EXCEPT !.agent = driver, !.kids = kids]

StopChildren ==
  /\ At("disconnect", "stop")
  /\ Invoke([Top EXCEPT !.at = "stopped"],
            Stop(Agent, Top.h, IF Top.child = Null THEN Top.kids ELSE <<Top.child>>))
  /\ UNCHANGED <<scenario, database, notify, bindings>>

\* Mutant: the driver is stopped though some of its children were not.
AlsoIfNotStopped == Top.child = Null \/ Len(Top.kids) = 1

\* After its children the driver stops on the controller, unless others are left.
StopsAll == Top.status = "success" /\ (Top.child = Null \/ Len(Top.kids) = 1)

StopDriver ==
  /\ \/ At("disconnect", "release")
     \/ At("disconnect", "stopped") /\ StopsAll
  /\ Invoke([Top EXCEPT !.at = "released"], Stop(Agent, Top.h, <<>>))
  /\ UNCHANGED <<scenario, database, notify, bindings>>

\* Mutant: a driver that refuses counts as stopped.
CountsAll == TRUE

CountsStop == Top.any \/ Top.status = "success"

DriverAsked ==
  /\ \/ At("disconnect", "released")
     \/ At("disconnect", "stopped") /\ ~StopsAll
  /\ Skip(CountsStop)
  /\ UNCHANGED <<scenario, database, notify, bindings>>
-----------------------------------------------------------------------------
(************** CoreConnectController, CoreConnectSingleController *********)

\* The handles with a driver binding protocol.
BoundDrivers == Subsequence(Order, {i \in DOMAIN Order : Order[i] \in bindings})

CollectDrivers ==
  /\ At("connect", "collect")
  /\ GoOn([Top EXCEPT !.at = "sorted", !.drivers = BoundDrivers])
  /\ UNCHANGED <<scenario, database, notify, bindings>>

\* EFI_NOT_READY, and once more, if there are more drivers by now.
CheckDrivers ==
  /\ At("connect", "sorted")
  /\ GoOn([Top EXCEPT !.at = IF bindings \ Range(Top.drivers) # {} THEN "collect" ELSE "try",
                      !.index = 1])
  /\ UNCHANGED <<scenario, database, notify, bindings>>

Start(driver, h) == [Call("start", "start", h) EXCEPT !.agent = driver]

\* Supported of a driver that can open what it uses; the bus driver supports
\* its controller also when it manages it.
Supports(d, h) ==
  \/ OpenStatus(h, Uses[d], Open(d, h, "driver")) = "success"
  \/ (d = "bus" /\ Manages(d, h))

\* Mutant: the drivers passed over are not asked again.
GoesOn == Top.index

\* After a driver has been started all that are left are asked again.
FromTheFirst == 1

TryDriver ==
  /\ At("connect", "try") /\ Top.index <= Len(Top.drivers)
  /\ LET d == Top.drivers[Top.index]
     IN IF Supports(d, Top.h)
        THEN Invoke([Top EXCEPT !.drivers = RemoveAt(@, Top.index), !.index = FromTheFirst],
                    Start(d, Top.h))
        ELSE GoOn([Top EXCEPT !.index = @ + 1, !.status = ""])
  /\ UNCHANGED <<scenario, database, notify, bindings>>

\* No driver is found any more.
Tried ==
  /\ At("connect", "try") /\ Top.index > Len(Top.drivers)
  /\ IF Top.recursive /\ Valid(Top.h)
     THEN GoOn([Top EXCEPT !.at = "descend", !.status = "", !.index = 0,
                           !.kids = ChildrenOf(Top.h, Drivers)])
     ELSE Return("success")
  /\ UNCHANGED <<scenario, database, notify, bindings>>

Descend ==
  /\ At("connect", "descend") /\ Top.kids # <<>>
  /\ LET f == [Top EXCEPT !.kids = Tail(@), !.status = ""]
     IN IF Valid(Head(Top.kids)) THEN Invoke(f, WholeTree(Head(Top.kids))) ELSE GoOn(f)
  /\ UNCHANGED <<scenario, database, notify, bindings>>

Descended ==
  /\ At("connect", "descend") /\ Top.kids = <<>>
  /\ Return("success")
  /\ UNCHANGED <<scenario, database, notify, bindings>>
-----------------------------------------------------------------------------
(******************************* The drivers *******************************)

Manager(d, h) == Open(d, h, "driver")
Child(k)      == Open("bus", k, "child")

Starting(d, label) == At("start", label) /\ Top.agent = d
Stopping(d, label) == At("stop", label) /\ Top.agent = d

OpenByDriver(d) ==
  /\ Starting(d, "start")
  /\ OpenStatus(Top.h, Uses[d], Manager(d, Top.h)) # "error"
  /\ opens' = [opens EXCEPT ![<<Top.h, Uses[d]>>] = Opened(Top.h, Uses[d], Manager(d, Top.h))]

StartFails ==
  /\ stack # <<>> /\ Top.op = "start" /\ Top.at = "start"
  /\ \/ OpenStatus(Top.h, Uses[Top.agent], Manager(Top.agent, Top.h)) = "error"
     \/ Top.agent \in scenario.flaky
  /\ Return("error")
  /\ UNCHANGED <<scenario, database, notify, bindings>>

BusStarts ==
  /\ OpenByDriver("bus")
  /\ GoOn([Top EXCEPT !.at = "enumerate"])
  /\ UNCHANGED <<scenario, protocols, notify, bindings>>

BusMakesKid(k) ==
  /\ Starting("bus", "enumerate") /\ k \in scenario.kids /\ ~Valid(k)
  /\ Install(k, Makes["bus"])
  /\ GoOn([Top EXCEPT !.at = "child", !.child = k])
  /\ UNCHANGED <<scenario, bindings>>

BusOpensForKid ==
  /\ Starting("bus", "child")
  /\ opens' = [opens EXCEPT ![<<Top.h, "io">>] = Append(@, Child(Top.child))]
  /\ GoOn([Top EXCEPT !.at = "enumerate", !.child = Null])
  /\ UNCHANGED <<scenario, protocols, notify, bindings>>

BusStarted ==
  /\ Starting("bus", "enumerate") /\ \A k \in scenario.kids : Valid(k)
  /\ Return("success")
  /\ UNCHANGED <<scenario, database, notify, bindings>>

DiskStarts ==
  /\ OpenByDriver("disk")
  /\ GoOn([Top EXCEPT !.at = "make"])
  /\ UNCHANGED <<scenario, protocols, notify, bindings>>

DiskMakesVolume ==
  /\ Starting("disk", "make")
  /\ Install(Top.h, Makes["disk"])
  /\ Return("success")
  /\ UNCHANGED <<scenario, bindings>>

DiskGivesUp ==
  /\ Starting("disk", "make") /\ "disk" \in scenario.flaky
  /\ Close(Top.h, Uses["disk"], "disk", Top.h)
  /\ Return("error")
  /\ UNCHANGED <<scenario, protocols, notify, bindings>>

FsStarts ==
  /\ OpenByDriver("fs")
  /\ Return("success")
  /\ UNCHANGED <<scenario, protocols, notify, bindings>>

StopRefuses ==
  /\ At("stop", "stop") /\ Top.agent \in scenario.refuse
  /\ Return("error")
  /\ UNCHANGED <<scenario, database, notify, bindings>>

BusStopsKid ==
  /\ Stopping("bus", "stop") /\ Top.kids # <<>>
  /\ Close(Top.h, "io", "bus", Head(Top.kids))
  /\ Invoke([Top EXCEPT !.at = "asked"], Uninstall(Head(Top.kids), Makes["bus"]))
  /\ UNCHANGED <<scenario, protocols, notify, bindings>>

\* A kid that could not be uninstalled stays the bus driver's.
BusStoppedKid ==
  /\ Stopping("bus", "asked")
  /\ opens' = IF Top.status = "success" THEN opens
              ELSE [opens EXCEPT ![<<Top.h, "io">>] = Append(@, Child(Head(Top.kids)))]
  /\ LET failed == Top.any \/ Top.status = "error"
     IN IF Tail(Top.kids) = <<>>
        THEN Return(IF failed THEN "error" ELSE "success")
        ELSE GoOn([Top EXCEPT !.at = "stop", !.kids = Tail(@), !.any = failed, !.status = ""])
  /\ UNCHANGED <<scenario, protocols, notify, bindings>>

BusStops ==
  /\ Stopping("bus", "stop") /\ Top.kids = <<>>
  /\ Close(Top.h, "io", "bus", Top.h)
  /\ Return("success")
  /\ UNCHANGED <<scenario, protocols, notify, bindings>>

DiskStops ==
  /\ Stopping("disk", "stop")
  /\ Invoke([Top EXCEPT !.at = "asked"], Uninstall(Top.h, Makes["disk"]))
  /\ UNCHANGED <<scenario, database, notify, bindings>>

DiskStopped ==
  /\ Stopping("disk", "asked")
  /\ IF Top.status = "success" THEN Close(Top.h, "block", "disk", Top.h) ELSE UNCHANGED opens
  /\ Return(Top.status)
  /\ UNCHANGED <<scenario, protocols, notify, bindings>>

FsStops ==
  /\ Stopping("fs", "stop")
  /\ Close(Top.h, "volume", "fs", Top.h)
  /\ Return("success")
  /\ UNCHANGED <<scenario, protocols, notify, bindings>>
-----------------------------------------------------------------------------
(******************************** The calls ********************************)

\* The notification function runs to its end before what it interrupts goes on.
Interruptible ==
  stack # <<>> /\ \A i \in DOMAIN stack : stack[i].op \notin {"start", "stop"} /\ ~stack[i].callback

MayCall(op) ==
  \/ (stack = <<>> /\ op \in scenario.calls)
  \/ (Interruptible /\ op \in scenario.callbacks)

Begin(op, f) ==
  /\ MayCall(op)
  /\ stack' = Append(stack, [f EXCEPT !.callback = stack # <<>>])
  /\ UNCHANGED <<scenario, database, notify, bindings>>

\* A notification function connects nothing while something is disconnected.
CallConnect(h, recursive) ==
  /\ Valid(h) /\ \A i \in DOMAIN stack : stack[i].op # "disconnect"
  /\ Begin("connect", Connect(h, recursive))

CallDisconnect(h, agent, child) ==
  /\ Valid(h) /\ (child # Null => Valid(child))
  /\ Begin("disconnect", Disconnect(h, agent, child))

CallUninstall       == Begin("uninstall", Uninstall(Root, "io"))
CallReinstall(h, p) == Begin("reinstall", Reinstall(h, p))
CallExclusive(h, p) == Begin("exclusive", Exclusive(h, p))

CallInstall ==
  /\ MayCall("install") /\ ~Installed(Root, "io")
  /\ Install(Root, "io")
  /\ UNCHANGED <<scenario, bindings, stack>>

\* An open by somebody who never closes, such as CoreHandleProtocol's.
CallGet(h, p) ==
  /\ MayCall("get") /\ Installed(h, p)
  /\ opens' = [opens EXCEPT ![<<h, p>>] = Opened(h, p, Open("core", Null, "get"))]
  /\ UNCHANGED <<scenario, protocols, notify, bindings, stack>>

CallClose(h, p) ==
  /\ MayCall("close") /\ Some(opens[<<h, p>>], "exclusive")
  /\ Close(h, p, "app", Null)
  /\ UNCHANGED <<scenario, protocols, notify, bindings, stack>>

\* Where the list goes on after the position.
After == IF position = Null THEN 1 ELSE 1 + CHOOSE j \in DOMAIN entry : entry[j] = position

\* LocateHandle (ByRegisterNotify) with room for a handle: the next one, or
\* EFI_NOT_FOUND and the caller waits for the next signal.
CallLocate ==
  /\ MayCall("locate") /\ signaled
  /\ IF After <= Len(entry)
     THEN /\ position' = entry[After]
          /\ unseen' = unseen \ {entry[After]}
          /\ UNCHANGED signaled
     ELSE signaled' = FALSE /\ UNCHANGED <<position, unseen>>
  /\ UNCHANGED <<scenario, database, entry, bindings, stack>>

\* A driver is loaded that installs its driver binding protocol.
CallLoad(d) ==
  /\ MayCall("load")
  /\ bindings' = bindings \cup {d}
  /\ UNCHANGED <<scenario, database, notify, stack>>

CallSomething ==
  \/ \E h \in Handles, recursive \in BOOLEAN : CallConnect(h, recursive)
  \/ \E h \in Handles, agent \in Drivers \cup {""}, child \in Kids \cup {Null} :
       CallDisconnect(h, agent, child)
  \/ CallUninstall \/ CallInstall \/ CallLocate
  \/ \E h \in Handles, p \in Protocols :
       CallReinstall(h, p) \/ CallExclusive(h, p) \/ CallGet(h, p) \/ CallClose(h, p)
  \/ \E d \in Drivers : CallLoad(d)
-----------------------------------------------------------------------------
(****************************** Specification ******************************)

Init ==
  /\ scenario \in Scenarios
  /\ protocols = [h \in Handles |-> IF h = Root THEN <<"io">> ELSE <<>>]
  /\ opens = [i \in Handles \X Protocols |-> <<>>]
  /\ entry = <<>> /\ position = Null /\ signaled = FALSE /\ unseen = {}
  /\ bindings = scenario.loaded
  /\ stack = <<>>

Step ==
  \/ NotFound \/ FindDriver \/ Refuse \/ Refused
  \/ (Unused /\ (Uninstalls \/ Reinstalls)) \/ Reinstalled
  \/ OpenDenied \/ OpenFindDriver \/ OpenSucceeds
  \/ CollectAgents \/ AllAsked \/ NoDriver \/ CollectChildren
  \/ StopChildren \/ StopDriver \/ DriverAsked
  \/ CollectDrivers \/ CheckDrivers \/ TryDriver \/ Tried \/ Descend \/ Descended
  \/ StartFails \/ BusStarts \/ (\E k \in Kids : BusMakesKid(k)) \/ BusOpensForKid
  \/ BusStarted \/ DiskStarts \/ DiskMakesVolume \/ DiskGivesUp \/ FsStarts
  \/ StopRefuses \/ BusStopsKid \/ BusStoppedKid \/ BusStops \/ DiskStops
  \/ DiskStopped \/ FsStops

Next == CallSomething \/ Step

Spec == Init /\ [][Next]_vars

\* A call that is under way goes on.
FairSpec == Spec /\ WF_vars(Step)
-----------------------------------------------------------------------------
(******************************* Properties ********************************)

OpenType == [agent : Drivers \cup {"app", "core"}, controller : Handles \cup {Null},
             how : {"driver", "child", "exclusive", "get"}]

TypeOK ==
  /\ scenario \in Scenarios
  /\ \A h \in Handles : protocols[h] \in Seq(Protocols) /\ IsInjective(protocols[h])
  /\ \A h \in Handles, p \in Protocols :
       /\ opens[<<h, p>>] \in Seq(OpenType) /\ IsInjective(opens[<<h, p>>])
       /\ ~Installed(h, p) => opens[<<h, p>>] = <<>>
  /\ entry \in Seq(Handles) /\ IsInjective(entry)
  /\ Range(entry) = {h \in Handles : Installed(h, Watched)}
  /\ position \in Range(entry) \cup {Null}
  /\ signaled \in BOOLEAN /\ unseen \subseteq Handles
  /\ bindings \subseteq Drivers
  /\ \A i \in DOMAIN stack : stack[i].h \in Handles

\* An interface is managed by one driver, or opened exclusively by one agent,
\* or neither, even when drivers connect while others are being disconnected
\* (the checks of CoreOpenProtocol).
OneManager ==
  \A h \in Handles, p \in Protocols :
    Len(Those(opens[<<h, p>>], "driver")) + Len(Those(opens[<<h, p>>], "exclusive")) <= 1

\* A driver that has children of a controller also manages it: a driver is
\* stopped on a controller after all its children only.
ParentsStay ==
  \A h \in Handles : \A o \in Range(OpensOf(h)) :
    o.how = "child" => Manages(o.agent, h) /\ Valid(o.controller)

\* Who goes on asking for handles until there are no more, after each signal,
\* is told of every interface that is installed, or is reinstalled, once.
ReaderMissesNothing ==
  /\ unseen = Range(SubSeq(entry, After, Len(entry)))
  /\ unseen # {} => (signaled \/ \E i \in DOMAIN stack : stack[i].at = "moved")

\* h and what is below it.
Tree(h) == {h} \cup Range(ChildrenOf(h, Drivers))

\* Nothing is left to be started: a driver that supports a controller manages it.
FullyConnected(h) ==
  \A g \in Tree(h), d \in scenario.loaded : Supports(d, g) => Manages(d, g)

\* When a recursive ConnectController is done, and so when an uninstall or
\* reinstall that has disconnected drivers returns, every controller below has
\* the drivers that support it, those that were disconnected among them.
Reconnected ==
  /\ stack # <<>> /\ scenario.flaky = {}
  /\ \/ Top.at \in {"refused", "moved"}
     \/ Top.op = "connect" /\ Top.at = "descend" /\ Top.kids = <<>>
  => FullyConnected(Top.h)

\* Every call returns, unless it is interrupted for ever.
Returns == []<>(stack = <<>>) \/ []<><<CallSomething /\ stack # <<>>>>_vars
=============================================================================
