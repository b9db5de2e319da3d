------------------------- MODULE SmmRendezvousProofs -------------------------
(***************************************************************************)
(* Proofs about SmmRendezvous, for every number of processors and every    *)
(* set of configurations.                                                  *)
(***************************************************************************)
EXTENDS SmmRendezvous, FiniteSetTheorems, TLAPS

-----------------------------------------------------------------------------
(************************** The inductive invariant ************************)

\* Not counted: outside, on the way in, or out of the handlers.
Out == {"outside", "valid", "progress", "arrive", "late", "leave", "unsync"}

\* An AP that has not seen the BSP yet.
Early == {"free", "elect", "elected", "apTimer", "apSendIpi", "apTimer2", "giveUp"}

\* The handlers, which the relaxed mode runs before the counter is locked.
Handling == {"lockBusy", "handlers", "startBusy", "startRelease", "startWait", "drain"}

\* The counter is not locked yet.
Open == {"bspEnter", "bspPresent", "clearStatus", "arrival", "sendIpis", "arrival2",
         "sync", "lockdown"} \cup (IF Gathers THEN {} ELSE Handling)

\* An AP may be yet to see the BSP.
Unsettled == Open \cup (IF Gathers THEN {"waitArrival"} ELSE {"allPresent"})

\* The labels of the BSP, from its election to the reset of the rendezvous.
BspPath == {"sendIpis", "releaseBackup", "releaseProgram", "drain",
            "releaseExit", "releaseRestore", "releaseReset",
            "waitArrival", "waitBackup", "waitProgram", "waitExit", "waitRestore", "waitReset",
            "bspEnter", "bspPresent", "clearStatus", "arrival", "arrival2", "sync",
            "lockdown", "lockBusy", "handlers", "startBusy", "startRelease", "startWait",
            "allPresent", "exit", "bspAbsent", "forget", "reopen"}

\* Every label.
Everywhere == Out \cup ApLabels \cup BspPath

\* The BSP has set InsideSmm and not reset it.
Inside == BspPath \ {"bspEnter", "releaseExit", "waitExit", "releaseRestore",
                       "waitRestore", "releaseReset", "bspAbsent", "waitReset",
                       "forget", "reopen"}

\* Present is set.
PresentAp  == {"apArrived", "apBackup", "apBackedUp", "apProgram", "apProgrammed",
               "apLoop", "apCheck", "apProcedure", "apTasksDone", "apRestore",
               "apReset", "apClear", "apAbsent"}
PresentBsp == BspPath \ {"bspEnter", "bspPresent", "waitReset", "forget", "reopen"}

\* Types that hold however long a processor is held up.
Types ==
  /\ mode \in Modes
  /\ pc \in [Cpus -> Everywhere]
  /\ pending \in [Cpus -> BOOLEAN] /\ topLevel \in BOOLEAN
  /\ sampled \in [Cpus -> BOOLEAN]
  /\ bsp \in [Cpus -> Cpus \cup {None}]
  /\ counter \in 0 .. Locked
  /\ insideSmm \in BOOLEAN /\ allCpusInSync \in BOOLEAN
  /\ bspIndex \in Cpus \cup {None}
  /\ present \in [Cpus -> BOOLEAN]
  /\ run \in [Cpus -> Nat]
  /\ busy \in [Cpus -> {"zero", "released", "acquired"}]
  /\ apCount \in Counts /\ index \in Counts /\ waiting \in Counts
  /\ target \in Cpus \cup {None}

\* Only processors that exist take SMIs.
Existing ==
  \A c \in Cpus : pending[c] \/ pc[c] # "outside" => Exists(c)

\* What the labels of SmiRendezvous and of the AP path say of the processor.
Entering ==
  /\ ~mode.elect => bspIndex = 0 /\ 0 \in Cpus
  /\ \A c \in Cpus :
       /\ ~mode.elect /\ sampled[c] /\ pc[c] \in {"arrive", "free"} => c # 0
       /\ pc[c] \in ApLabels \ {"free", "elect", "elected"} => bspIndex # c
       /\ mode.elect /\ bspIndex = c => pc[c] \in (BspPath \ {"reopen"}) \cup {"elected"}
       /\ present[c] <=> pc[c] \in PresentAp \cup PresentBsp
       /\ pc[c] \in ApLabels \ {"free"} /\ ~present[c] => busy[c] = "released"

\* The APs, or the APs and the BSP, as far as the signals of a stage.
At(p, S, b) == {a \in Cpus \ {b} : p[a] \in S}
Owed(S, b) == run[b] + Cardinality(At(pc, S \cup {"giveUp"}, b))

\* Nobody is the BSP.
Idle ==
  /\ ~insideSmm
  /\ \A c \in Cpus : pc[c] \in Out \cup Early /\ run[c] = 0
  /\ counter = Cardinality(At(pc, Early, None))

\* A stage of the BSP's release for processor a: not yet, or given.
Before(b, a, release) == pc[b] = release /\ a < index
After(b, a, release, waits) == (pc[b] = release /\ a >= index) \/ pc[b] \in waits

Seen(b)       == pc[b] \in Unsettled \ {"bspEnter"}
ToBackup(b, a)   == Before(b, a, "releaseBackup")
Backups(b, a)  == After(b, a, "releaseBackup", {"waitBackup"})
ToProgram(b, a)  == Before(b, a, "releaseProgram")
Programs(b, a) == After(b, a, "releaseProgram", {"waitProgram"})
ToExit(b, a)     == pc[b] \in Handling \cup {"exit"} \/ Before(b, a, "releaseExit")
Exits(b, a)    == After(b, a, "releaseExit", {"waitExit"})
ToRestore(b, a)  == Before(b, a, "releaseRestore")
Restores(b, a) == After(b, a, "releaseRestore", {"waitRestore"})
ToReset(b, a)    == Before(b, a, "releaseReset")
Resets(b, a)   == After(b, a, "releaseReset", {"bspAbsent", "waitReset"})

\* The handlers may have started a procedure on AP a.
Tasks(b, a) == \/ pc[b] \in {"handlers", "startBusy", "startRelease", "startWait"}
               \/ pc[b] = "drain" /\ a < index

Task(b, a) == Tasks(b, a) /\ busy[a] = "acquired"
                /\ ~(pc[b] = "startRelease" /\ target = a)

\* Where an AP is while the BSP is where it is, and whether it has a signal.
Follows(b, a) ==
  /\ pc[a] \in Everywhere \ BspPath
  /\ pc[a] \in Out => run[a] = 0
  /\ pc[a] \in Early => run[a] = 0 /\ pc[b] \in Unsettled
  /\ pc[a] = "apPresent" => run[a] = 0 /\ Seen(b)
  /\ pc[a] = "apArrived" => run[a] = 0 /\ Seen(b) /\ Gathers
  /\ pc[a] = "apBackup" => /\ mode.mtrr
                           /\ \/ run[a] = 0 /\ (Seen(b) \/ ToBackup(b, a))
                              \/ run[a] = 1 /\ Backups(b, a)
  /\ pc[a] = "apBackedUp" => run[a] = 0 /\ mode.mtrr /\ Backups(b, a)
  /\ pc[a] = "apProgram" => /\ mode.mtrr
                            /\ \/ run[a] = 0 /\ (Backups(b, a) \/ ToProgram(b, a))
                               \/ run[a] = 1 /\ Programs(b, a)
  /\ pc[a] = "apProgrammed" => run[a] = 0 /\ mode.mtrr /\ Programs(b, a)
  /\ pc[a] = "apLoop" =>
       \/ /\ run[a] = 0
          /\ \/ IF mode.mtrr THEN Programs(b, a) ELSE Seen(b)
             \/ ToExit(b, a)
       \/ run[a] = 1 /\ (Exits(b, a) \/ Task(b, a))
  /\ pc[a] = "apCheck" => run[a] = 0 /\ (Exits(b, a) \/ Task(b, a))
  /\ pc[a] = "apProcedure" => run[a] = 0 /\ Task(b, a)
  /\ pc[a] = "apTasksDone" => run[a] = 0 /\ mode.mtrr /\ Exits(b, a)
  /\ pc[a] = "apRestore" => /\ mode.mtrr
                            /\ \/ run[a] = 0 /\ (Exits(b, a) \/ ToRestore(b, a))
                               \/ run[a] = 1 /\ Restores(b, a)
  /\ pc[a] = "apReset" => /\ run[a] = 0
                          /\ IF mode.mtrr THEN Restores(b, a) ELSE Exits(b, a)
  /\ pc[a] = "apClear" =>
       \/ /\ run[a] = 0
          /\ \/ IF mode.mtrr THEN Restores(b, a) ELSE Exits(b, a)
             \/ ToReset(b, a)
       \/ run[a] = 1 /\ Resets(b, a)
  /\ pc[a] \in {"apAbsent", "apDone"} => run[a] = 0 /\ Resets(b, a)

\* The lock of an AP is held for a procedure only.
Locks(b, a) ==
  present[a] =>
    /\ busy[a] \in {"released", "acquired"}
    /\ busy[a] = "acquired" =>
         \/ pc[b] = "startRelease" /\ target = a
         \/ Tasks(b, a) /\ (pc[a] \in {"apCheck", "apProcedure"} \/ run[a] = 1)

\* The signals of each stage.
Stage(b) ==
  /\ pc[b] \in Open =>
       /\ counter = 1 + Cardinality(At(pc, ApLabels, b))
       /\ ~Gathers => run[b] = 0
       /\ Gathers => counter - 1 = Owed(UpToArrived, b)
  /\ pc[b] \in BspPath \ (Open \cup {"releaseReset", "bspAbsent", "waitReset", "forget", "reopen"})
       => apCount = Cardinality(At(pc, ApLabels, b)) + Locked - counter
  /\ pc[b] = "waitArrival" => waiting = Owed(UpToArrived, b) + Locked - counter
  /\ pc[b] = "allPresent" => run[b] = 0
  /\ pc[b] \in BspPath \ (Open \cup {"waitArrival", "allPresent"}) => counter = Locked
  /\ pc[b] \in Handling \cup {"exit"} => run[b] = 0
  /\ pc[b] = "releaseBackup" => apCount = Owed(UpToBackedUp, b)
  /\ pc[b] = "waitBackup" => waiting = Owed(UpToBackedUp, b)
  /\ pc[b] = "releaseProgram" => apCount = Owed(UpToProgrammed, b)
  /\ pc[b] = "waitProgram" => waiting = Owed(UpToProgrammed, b)
  /\ pc[b] = "releaseExit" => apCount = Owed(IF mode.mtrr THEN UpToTasksDone ELSE UpToReset, b)
  /\ pc[b] = "waitExit" => waiting = Owed(IF mode.mtrr THEN UpToTasksDone ELSE UpToReset, b)
  /\ pc[b] = "releaseRestore" => apCount = Owed(UpToReset, b)
  /\ pc[b] = "waitRestore" => waiting = Owed(UpToReset, b)
  /\ pc[b] \in {"releaseReset", "bspAbsent"} => apCount = Owed(UpToDone, b)
  /\ pc[b] = "waitReset" => waiting = Owed(UpToDone, b)
  /\ pc[b] \in {"forget", "reopen"} => run[b] = 0

\* The stages the configuration has.
Suits(label) ==
  /\ label \in {"arrival", "sendIpis", "arrival2", "waitArrival"} => Gathers
  /\ label = "allPresent" => ~Gathers
  /\ label \in {"releaseBackup", "waitBackup", "releaseProgram", "waitProgram",
                "releaseRestore", "waitRestore"} => mode.mtrr

\* b is the BSP.
Running(b) ==
  /\ pc[b] \in BspPath
  /\ bspIndex = b \/ pc[b] = "reopen"
  /\ insideSmm <=> pc[b] \in Inside
  /\ pc[b] \in {"startBusy", "startRelease", "startWait"} =>
       target \in Cpus \ {b} /\ present[target]
  /\ pc[b] = "startRelease" => busy[target] = "acquired"
  /\ Suits(pc[b])
  /\ \A a \in Cpus \ {b} :
       /\ Follows(b, a) /\ Locks(b, a)
       /\ pc[a] \in PresentAp \cup {"apDone"} => bsp[a] = b
  /\ Stage(b)

\* The inductive invariant: nobody is the BSP, or one is and the others follow it.
RunInv == Types /\ Existing /\ Entering /\ (Idle \/ \E b \in Cpus : Running(b))
-----------------------------------------------------------------------------
(****************************** Operators **********************************)

\* The constants, and the sets of processors and of counts they give.
LEMMA Constants ==
  /\ N \in Nat /\ N > 1 /\ Locked = N + 2 /\ Cpus = 0 .. N - 1 /\ Counts = 0 .. N
  /\ None \notin Nat /\ None \notin Cpus
  BY ConstantsAssumption DEF Cpus, Counts, Locked

\* The types of the parts of a configuration.
LEMMA ModeTypes ==
  ASSUME Types
  PROVE  /\ mode.cpus \in 1 .. N /\ mode.mtrr \in BOOLEAN /\ mode.elect \in BOOLEAN
         /\ mode.prompt \in BOOLEAN /\ Gathers \in BOOLEAN
         /\ mode.mtrr => Gathers
  BY ConstantsAssumption DEF Types, ModeType, Gathers

\* The loops and the waits of the BSP.
LEMMA Tables ==
  /\ DOMAIN AfterLoop = {"sendIpis", "releaseBackup", "releaseProgram", "drain",
                         "releaseExit", "releaseRestore", "releaseReset"}
  /\ DOMAIN AfterAll = {"waitArrival", "waitBackup", "waitProgram", "waitExit",
                        "waitRestore", "waitReset"}
  /\ DOMAIN AfterSignal = {"apArrived", "apBackedUp", "apProgrammed", "apTasksDone",
                           "apReset", "apDone"}
  /\ DOMAIN AfterWait = {"apBackup", "apProgram", "apLoop", "apRestore", "apClear"}
  BY DEF AfterLoop, AfterAll, AfterSignal, AfterWait

\* Where each of the BSP's loops over the processors leads.
LEMMA LoopTable ==
  /\ AfterLoop["sendIpis"] = "arrival2"
  /\ AfterLoop["releaseBackup"] = "waitBackup"
  /\ AfterLoop["releaseProgram"] = "waitProgram"
  /\ AfterLoop["drain"] = IF Gathers THEN "exit" ELSE "sync"
  /\ AfterLoop["releaseExit"] = "waitExit"
  /\ AfterLoop["releaseRestore"] = "waitRestore"
  /\ AfterLoop["releaseReset"] = "bspAbsent"
  BY DEF AfterLoop

\* Where each WaitForAllAPs of the BSP leads.
LEMMA AllTable ==
  /\ AfterAll["waitArrival"] = IF mode.mtrr THEN "releaseBackup" ELSE "lockBusy"
  /\ AfterAll["waitBackup"] = "releaseProgram"
  /\ AfterAll["waitProgram"] = "lockBusy"
  /\ AfterAll["waitExit"] = IF mode.mtrr THEN "releaseRestore" ELSE "releaseReset"
  /\ AfterAll["waitRestore"] = "releaseReset"
  /\ AfterAll["waitReset"] = "forget"
  BY DEF AfterAll

\* Where an AP goes once it has signalled the BSP.
LEMMA SignalTable ==
  /\ AfterSignal["apArrived"] = IF mode.mtrr THEN "apBackup" ELSE "apLoop"
  /\ AfterSignal["apBackedUp"] = "apProgram"
  /\ AfterSignal["apProgrammed"] = "apLoop"
  /\ AfterSignal["apTasksDone"] = "apRestore"
  /\ AfterSignal["apReset"] = "apClear"
  /\ AfterSignal["apDone"] = "leave"
  BY DEF AfterSignal

\* Where an AP goes once it has taken its signal.
LEMMA WaitTable ==
  /\ AfterWait["apBackup"] = "apBackedUp"
  /\ AfterWait["apProgram"] = "apProgrammed"
  /\ AfterWait["apLoop"] = "apCheck"
  /\ AfterWait["apRestore"] = "apReset"
  /\ AfterWait["apClear"] = "apAbsent"
  BY DEF AfterWait

\* The BSP's labels, whatever the configuration.
LEMMA BspLabelSet == BspLabels = BspPath /\ BspLabels' = BspPath
  BY DEF BspLabels, BspPath, AfterLoop, AfterAll

\* The AP's labels.
LEMMA ApLabelSet ==
  ApLabels = {"free", "elect", "elected", "apTimer", "apSendIpi", "apTimer2",
              "apPresent", "apArrived", "apBackup", "apBackedUp", "apProgram", "apProgrammed",
              "apLoop", "apCheck", "apProcedure", "apTasksDone", "apRestore", "apReset",
              "apClear", "apAbsent", "apDone", "giveUp"}
  BY DEF ApLabels, UpToDone, UpToReset, UpToTasksDone, UpToProgrammed, UpToBackedUp, UpToArrived

\* All the labels, whatever the configuration.
LEMMA LabelSet == Labels = Everywhere /\ Labels' = Everywhere
  BY BspLabelSet DEF Labels, Everywhere, Out

\* Semaphores.
LEMMA Semaphore ==
  ASSUME NEW x \in 0 .. Locked
  PROVE  /\ x = Locked => Inc(x) = 0
         /\ x < Locked => Inc(x) = x + 1
         /\ x > 0 => Dec(x) = x - 1
  BY Constants DEF Inc, Dec

\* The processors that exist.
LEMMA Below ==
  ASSUME NEW n \in Nat, n > 0
  PROVE  IsFiniteSet(0 .. n - 1) /\ Cardinality(0 .. n - 1) = n
<1>1. PICK m \in Int : m = n - 1 /\ m >= 0
  OBVIOUS
<1>2. IsFiniteSet(0 .. m) /\ Cardinality(0 .. m) = IF 0 > m THEN 0 ELSE m - 0 + 1
  BY FS_Interval
<1> QED
  BY <1>1, <1>2

\* How many are at a set of labels, and what a step of processor c changes.
LEMMA AtCount ==
  ASSUME NEW b, NEW S
  PROVE  /\ IsFiniteSet(At(pc, S, b))
         /\ Cardinality(At(pc, S, b)) \in Nat
         /\ Cardinality(At(pc, S, b)) \in 0 .. N
         /\ b \in Cpus => Cardinality(At(pc, S, b)) \in 0 .. N - 1
<1> USE Constants
<1>1. /\ IsFiniteSet(Cpus \ {b})
      /\ Cardinality(Cpus \ {b}) = IF b \in Cpus THEN N - 1 ELSE N
      /\ At(pc, S, b) \in SUBSET (Cpus \ {b})
  <2>1. IsFiniteSet(Cpus) /\ Cardinality(Cpus) = N
    BY FS_Interval
  <2> QED
    BY <2>1, FS_RemoveElement DEF At
<1> QED
  BY <1>1, FS_Subset, FS_CardinalityType

\* A processor's own step changes no count of the others.
LEMMA AtOwn ==
  ASSUME Types, NEW c \in Cpus, NEW l, NEW S,
         pc' = [pc EXCEPT ![c] = l]
  PROVE  Cardinality(At(pc', S, c)) = Cardinality(At(pc, S, c))
<1>1. At(pc', S, c) = At(pc, S, c)
  BY DEF At, Types
<1> QED
  BY <1>1

\* Another processor's step adds it to a count, or takes it out.
LEMMA AtStep ==
  ASSUME Types, NEW c \in Cpus, NEW b, b # c, NEW l, NEW S,
         pc' = [pc EXCEPT ![c] = l]
  PROVE  Cardinality(At(pc', S, b)) =
           Cardinality(At(pc, S, b)) + (IF l \in S THEN 1 ELSE 0)
                                     - (IF pc[c] \in S THEN 1 ELSE 0)
<1>1. IsFiniteSet(At(pc, S, b)) /\ Cardinality(At(pc, S, b)) \in 0 .. N
  BY AtCount
<1>2. At(pc', S, b) = IF l \in S THEN At(pc, S, b) \cup {c} ELSE At(pc, S, b) \ {c}
  BY DEF At, Types
<1>3. c \in At(pc, S, b) <=> pc[c] \in S
  BY DEF At
<1>4. /\ Cardinality(At(pc, S, b) \cup {c}) =
           IF pc[c] \in S THEN Cardinality(At(pc, S, b)) ELSE Cardinality(At(pc, S, b)) + 1
      /\ Cardinality(At(pc, S, b) \ {c}) =
           IF pc[c] \in S THEN Cardinality(At(pc, S, b)) - 1 ELSE Cardinality(At(pc, S, b))
  BY <1>1, <1>3, FS_AddElement, FS_RemoveElement
<1> QED
  BY <1>1, <1>2, <1>4, Constants

\* A step of c into the set, out of it, and within it or outside it.
LEMMA AtEntered ==
  ASSUME Types, NEW c \in Cpus, NEW b, b # c, NEW l, NEW S,
         pc' = [pc EXCEPT ![c] = l], l \in S, pc[c] \notin S
  PROVE  Cardinality(At(pc', S, b)) = Cardinality(At(pc, S, b)) + 1
<1>1. Cardinality(At(pc', S, b)) =
        Cardinality(At(pc, S, b)) + (IF l \in S THEN 1 ELSE 0)
                                  - (IF pc[c] \in S THEN 1 ELSE 0)
  BY AtStep
<1>2. Cardinality(At(pc, S, b)) \in 0 .. N
  BY AtCount
<1> QED
  BY <1>1, <1>2, Constants

\* A processor that leaves a counted set takes one off the count.
LEMMA AtLeft ==
  ASSUME Types, NEW c \in Cpus, NEW b, b # c, NEW l, NEW S,
         pc' = [pc EXCEPT ![c] = l], l \notin S, pc[c] \in S
  PROVE  Cardinality(At(pc', S, b)) = Cardinality(At(pc, S, b)) - 1
<1>1. Cardinality(At(pc', S, b)) =
        Cardinality(At(pc, S, b)) + (IF l \in S THEN 1 ELSE 0)
                                  - (IF pc[c] \in S THEN 1 ELSE 0)
  BY AtStep
<1>2. Cardinality(At(pc, S, b)) \in 0 .. N
  BY AtCount
<1> QED
  BY <1>1, <1>2, Constants

\* A processor that stays in a set, or out of it, leaves the count.
LEMMA AtKept ==
  ASSUME Types, NEW c \in Cpus, NEW b, b # c, NEW l, NEW S,
         pc' = [pc EXCEPT ![c] = l], l \in S <=> pc[c] \in S
  PROVE  Cardinality(At(pc', S, b)) = Cardinality(At(pc, S, b))
<1>1. Cardinality(At(pc', S, b)) =
        Cardinality(At(pc, S, b)) + (IF l \in S THEN 1 ELSE 0)
                                  - (IF pc[c] \in S THEN 1 ELSE 0)
  BY AtStep
<1>2. Cardinality(At(pc, S, b)) \in 0 .. N
  BY AtCount
<1> QED
  BY <1>1, <1>2, Constants
-----------------------------------------------------------------------------
(************************** A step beside the BSP **************************)

\* What b waits for, or will.
Awaits(b, S) ==
  \/ ((pc[b] \in Open /\ Gathers) \/ pc[b] = "waitArrival") /\ S = UpToArrived
  \/ pc[b] \in {"releaseBackup", "waitBackup"} /\ S = UpToBackedUp
  \/ pc[b] \in {"releaseProgram", "waitProgram"} /\ S = UpToProgrammed
  \/ /\ pc[b] \in {"releaseExit", "waitExit"}
     /\ S = IF mode.mtrr THEN UpToTasksDone ELSE UpToReset
  \/ pc[b] \in {"releaseRestore", "waitRestore"} /\ S = UpToReset
  \/ pc[b] \in {"releaseReset", "bspAbsent", "waitReset"} /\ S = UpToDone

\* Labels out of the handlers and early labels in them each count alike.
LEMMA EarlyCounted ==
  ASSUME NEW b, NEW S, Awaits(b, S) \/ S \cup {"giveUp"} = ApLabels
  PROVE  /\ Early \subseteq S \cup {"giveUp"}
         /\ \A l \in Out : l \notin S \cup {"giveUp"}
<1>1. ASSUME NEW T \in {UpToArrived, UpToBackedUp, UpToProgrammed, UpToTasksDone,
                        UpToReset, UpToDone}
      PROVE  /\ Early \subseteq T \cup {"giveUp"}
             /\ \A l \in Out : l \notin T \cup {"giveUp"}
  BY DEF UpToArrived, UpToBackedUp, UpToProgrammed, UpToTasksDone, UpToReset, UpToDone,
     Early, Out
<1>2. CASE Awaits(b, S)
  BY <1>1, <1>2 DEF Awaits
<1>3. CASE S \cup {"giveUp"} = ApLabels
  BY <1>3, ApLabelSet DEF Early, Out
<1> QED
  BY <1>2, <1>3

\* A step beside the BSP keeps the stage if it keeps what is owed.
LEMMA StageMoved ==
  ASSUME Types, NEW b \in Cpus, Stage(b), pc'[b] = pc[b],
         UNCHANGED <<mode, counter, apCount, waiting>>,
         run'[b] = run[b] \/ \E S : Awaits(b, S),
         \/ pc[b] \in {"releaseReset", "bspAbsent", "waitReset", "forget", "reopen"}
         \/ Cardinality(At(pc', ApLabels, b)) = Cardinality(At(pc, ApLabels, b)),
         \A S : Awaits(b, S) => Owed(S, b)' = Owed(S, b)
  PROVE  Stage(b)'
<1>1. Gathers' = Gathers /\ Open' = Open
  BY DEF Gathers, Open
<1>2. (pc[b] \in Open /\ Gathers) \/ pc[b] = "waitArrival" =>
        Owed(UpToArrived, b)' = Owed(UpToArrived, b)
  BY DEF Awaits
<1>3. pc[b] \in {"releaseBackup", "waitBackup"} =>
        Owed(UpToBackedUp, b)' = Owed(UpToBackedUp, b)
  BY DEF Awaits
<1>4. pc[b] \in {"releaseProgram", "waitProgram"} =>
        Owed(UpToProgrammed, b)' = Owed(UpToProgrammed, b)
  BY DEF Awaits
<1>5. /\ pc[b] \in {"releaseExit", "waitExit"} /\ mode.mtrr =>
           Owed(UpToTasksDone, b)' = Owed(UpToTasksDone, b)
      /\ pc[b] \in {"releaseExit", "waitExit"} /\ ~mode.mtrr =>
           Owed(UpToReset, b)' = Owed(UpToReset, b)
      /\ pc[b] \in {"releaseRestore", "waitRestore"} => Owed(UpToReset, b)' = Owed(UpToReset, b)
  BY DEF Awaits
<1>6. pc[b] \in {"releaseReset", "bspAbsent", "waitReset"} =>
        Owed(UpToDone, b)' = Owed(UpToDone, b)
  BY DEF Awaits
<1>7. /\ pc[b] \in Open /\ ~Gathers => run'[b] = run[b]
      /\ pc[b] \in {"allPresent", "forget", "reopen"} => run'[b] = run[b]
      /\ pc[b] \in Handling \cup {"exit"} /\ pc[b] \notin Open => run'[b] = run[b]
      /\ pc[b] \in Handling \cup {"exit"} /\ ~Gathers => run'[b] = run[b]
  BY DEF Awaits, Open, Handling
<1>8. pc[b] \in Handling \cup {"exit"} => pc[b] \notin Open \/ ~Gathers
  BY DEF Open, Handling
<1>9. /\ pc[b] \in Open =>
           Cardinality(At(pc', ApLabels, b)) = Cardinality(At(pc, ApLabels, b))
      /\ pc[b] \in BspPath \ (Open \cup {"releaseReset", "bspAbsent", "waitReset",
                                         "forget", "reopen"}) =>
           Cardinality(At(pc', ApLabels, b)) = Cardinality(At(pc, ApLabels, b))
  BY DEF Open, Handling
<1> HIDE DEF Owed
<1> QED
  BY <1>1, <1>2, <1>3, <1>4, <1>5, <1>6, <1>7, <1>8, <1>9 DEF Stage

\* A step that neither counts nor signals leaves the stage alone.
LEMMA StageKept ==
  ASSUME Types, NEW c \in Cpus, NEW b \in Cpus, b # c, Stage(b), NEW l,
         pc' = [pc EXCEPT ![c] = l],
         UNCHANGED <<mode, counter, apCount, waiting>>, run'[b] = run[b],
         l \in ApLabels <=> pc[c] \in ApLabels,
         \A S : Awaits(b, S) => (l \in S \cup {"giveUp"} <=> pc[c] \in S \cup {"giveUp"})
  PROVE  Stage(b)'
<1>1. ASSUME NEW S, Awaits(b, S)
      PROVE  Owed(S, b)' = Owed(S, b)
  <2>1. l \in S \cup {"giveUp"} <=> pc[c] \in S \cup {"giveUp"}
    BY <1>1
  <2>2. Cardinality(At(pc', S \cup {"giveUp"}, b)) = Cardinality(At(pc, S \cup {"giveUp"}, b))
    BY <2>1, AtKept
  <2> QED
    BY <2>2 DEF Owed
<1>2. Cardinality(At(pc', ApLabels, b)) = Cardinality(At(pc, ApLabels, b))
  BY AtKept
<1>3. pc'[b] = pc[b]
  BY DEF Types
<1> QED
  BY <1>1, <1>2, <1>3, StageMoved

\* A signal for the stage.
LEMMA StageSignal ==
  ASSUME Types, NEW c \in Cpus, NEW b \in Cpus, b # c, Stage(b), NEW l,
         pc' = [pc EXCEPT ![c] = l],
         UNCHANGED <<mode, counter, apCount, waiting>>, run'[b] = run[b] + 1,
         \/ pc[b] \in {"releaseReset", "bspAbsent", "waitReset", "forget", "reopen"}
         \/ l \in ApLabels <=> pc[c] \in ApLabels,
         \E S : Awaits(b, S),
         \A S : Awaits(b, S) => l \notin S \cup {"giveUp"} /\ pc[c] \in S
  PROVE  Stage(b)'
<1>1. ASSUME NEW S, Awaits(b, S)
      PROVE  Owed(S, b)' = Owed(S, b)
  <2>1. l \notin S \cup {"giveUp"} /\ pc[c] \in S \cup {"giveUp"}
    BY <1>1
  <2>2. Cardinality(At(pc', S \cup {"giveUp"}, b)) =
          Cardinality(At(pc, S \cup {"giveUp"}, b)) - 1
    BY <2>1, AtLeft
  <2>3. Cardinality(At(pc, S \cup {"giveUp"}, b)) \in Nat /\ run[b] \in Nat
    BY AtCount DEF Types
  <2> QED
    BY <2>2, <2>3 DEF Owed
<1>2. \/ pc[b] \in {"releaseReset", "bspAbsent", "waitReset", "forget", "reopen"}
      \/ Cardinality(At(pc', ApLabels, b)) = Cardinality(At(pc, ApLabels, b))
  BY AtKept
<1>3. pc'[b] = pc[b]
  BY DEF Types
<1> QED
  BY <1>1, <1>2, <1>3, StageMoved

\* The releases go on only by steps of the BSP.
LEMMA ReleasesKept ==
  ASSUME NEW a, NEW b, pc'[b] = pc[b], UNCHANGED <<mode, index, target>>
  PROVE  /\ Gathers' = Gathers /\ Open' = Open /\ Unsettled' = Unsettled
         /\ Seen(b)' = Seen(b) /\ Tasks(b, a)' = Tasks(b, a)
         /\ ToBackup(b, a)' = ToBackup(b, a) /\ Backups(b, a)' = Backups(b, a)
         /\ ToProgram(b, a)' = ToProgram(b, a) /\ Programs(b, a)' = Programs(b, a)
         /\ ToExit(b, a)' = ToExit(b, a) /\ Exits(b, a)' = Exits(b, a)
         /\ ToRestore(b, a)' = ToRestore(b, a) /\ Restores(b, a)' = Restores(b, a)
         /\ ToReset(b, a)' = ToReset(b, a) /\ Resets(b, a)' = Resets(b, a)
<1>1. Gathers' = Gathers /\ Open' = Open /\ Unsettled' = Unsettled
  BY DEF Gathers, Open, Unsettled
<1> QED
  BY <1>1 DEF Seen, Tasks, ToBackup, Backups, ToProgram, Programs, ToExit, Exits,
     ToRestore, Restores, ToReset, Resets, Before, After

\* The other processors stay where they are.
LEMMA FollowsKept ==
  ASSUME NEW a \in Cpus, NEW b \in Cpus, Follows(b, a), Locks(b, a),
         pc'[a] = pc[a], pc'[b] = pc[b], run'[a] = run[a], busy'[a] = busy[a],
         present'[a] = present[a], UNCHANGED <<mode, index, target>>
  PROVE  Follows(b, a)' /\ Locks(b, a)'
<1>1. Task(b, a)' = Task(b, a)
  BY ReleasesKept DEF Task
<1>2. Follows(b, a)'
  BY <1>1, ReleasesKept DEF Follows
<1>3. Locks(b, a)'
  BY ReleasesKept DEF Locks
<1> QED
  BY <1>2, <1>3

\* A step of c is one of the run if it is in order with the BSP.
LEMMA OtherStep ==
  ASSUME Types, NEW b \in Cpus, Running(b), NEW c \in Cpus \ {b}, NEW l,
         pc' = [pc EXCEPT ![c] = l],
         UNCHANGED <<mode, index, target, insideSmm, bspIndex>>,
         \A a \in Cpus \ {b, c} :
           /\ run'[a] = run[a] /\ busy'[a] = busy[a]
           /\ present'[a] = present[a] /\ bsp'[a] = bsp[a],
         pc[b] \in {"startBusy", "startRelease", "startWait"} /\ present[c] => present'[c],
         pc[b] = "startRelease" /\ target = c => busy'[c] = busy[c],
         l \in PresentAp \cup {"apDone"} => bsp'[c] = b,
         Follows(b, c)', Locks(b, c)', Stage(b)'
  PROVE  Running(b)'
<1>1. pc'[b] = pc[b] /\ Gathers' = Gathers /\ (pc[b] \in Inside)' = (pc[b] \in Inside)
  BY DEF Types, Gathers
<1>2. \A a \in Cpus \ {b} : Follows(b, a)' /\ Locks(b, a)'
  <2> TAKE a \in Cpus \ {b}
  <2>1. CASE a = c
    BY <2>1
  <2>2. CASE a # c
    BY <2>2, <1>1, FollowsKept DEF Types, Running
  <2> QED
    BY <2>1, <2>2
<1>3. \A a \in Cpus \ {b} : pc'[a] \in PresentAp \cup {"apDone"} => bsp'[a] = b
  BY DEF Running, Types
<1>4. pc[b] \in {"startBusy", "startRelease", "startWait"} =>
        target' \in Cpus \ {b} /\ present'[target']
  BY DEF Running
<1>5. pc[b] = "startRelease" => busy'[target'] = "acquired"
  BY <1>4 DEF Running
<1>6. Suits(pc[b])'
  BY <1>1 DEF Running, Suits
<1> QED
  BY <1>1, <1>2, <1>3, <1>4, <1>5, <1>6 DEF Running

\* A step while nobody is the BSP.
LEMMA IdleStep ==
  ASSUME Types, Idle, NEW c \in Cpus, NEW l \in Out \cup Early,
         pc' = [pc EXCEPT ![c] = l], UNCHANGED <<insideSmm, run>>,
         counter' = counter + (IF l \in Early THEN 1 ELSE 0)
                            - (IF pc[c] \in Early THEN 1 ELSE 0)
  PROVE  Idle'
<1>1. c # None
  BY Constants
<1>2. Cardinality(At(pc', Early, None)) =
        Cardinality(At(pc, Early, None)) + (IF l \in Early THEN 1 ELSE 0)
                                         - (IF pc[c] \in Early THEN 1 ELSE 0)
  BY <1>1, AtStep
<1>3. \A d \in Cpus : pc'[d] \in Out \cup Early /\ run'[d] = 0
  BY DEF Idle, Types
<1> QED
  BY <1>2, <1>3 DEF Idle

\* A processor outside the handlers gets somewhere else outside them.
LEMMA OutStep ==
  ASSUME Types, Entering, Idle \/ \E b \in Cpus : Running(b),
         NEW c \in Cpus, NEW l \in Out, pc[c] \in Out,
         pc' = [pc EXCEPT ![c] = l],
         UNCHANGED <<mode, bsp, counter, insideSmm, bspIndex, cpuData, handler>>
  PROVE  Idle' \/ \E b \in Cpus : Running(b)'
<1> USE DEF sync, cpuData, handler
<1>1. CASE Idle
  <2>1. pc[c] \notin Early /\ l \notin Early
    BY DEF Out, Early
  <2>2. counter' = counter + (IF l \in Early THEN 1 ELSE 0)
                           - (IF pc[c] \in Early THEN 1 ELSE 0)
    BY <2>1, Constants DEF Types
  <2>3. Idle'
    BY <1>1, <2>2, IdleStep
  <2> QED
    BY <2>3
<1>2. ASSUME NEW b \in Cpus, Running(b)
      PROVE  Running(b)'
  <2>1. c # b
    BY <1>2 DEF Running, Out, BspPath
  <2>2. Stage(b)'
    <3>1. Stage(b) /\ pc'[b] = pc[b]
      BY <1>2, <2>1 DEF Running, Types
    <3>2. /\ l \in ApLabels <=> pc[c] \in ApLabels
          /\ \A S : Awaits(b, S) => (l \in S \cup {"giveUp"} <=> pc[c] \in S \cup {"giveUp"})
      BY EarlyCounted, ApLabelSet DEF Out
    <3> QED
      BY <2>1, <3>1, <3>2, StageKept
  <2>3. Follows(b, c)' /\ Locks(b, c)'
    <3>1. Follows(b, c)
      BY <1>2, <2>1 DEF Running
    <3>2. run'[c] = 0 /\ pc'[c] = l /\ l \in Everywhere \ BspPath
      BY <3>1 DEF Follows, Types, Everywhere, Out, BspPath
    <3>3. Follows(b, c)'
      BY <3>2 DEF Follows, Out, Early
    <3>4. Locks(b, c)'
      BY DEF Locks, Entering, Out, PresentAp, PresentBsp, BspPath
    <3> QED
      BY <3>3, <3>4
  <2>4. l \notin PresentAp \cup {"apDone"}
    BY DEF Out, PresentAp
  <2> QED
    BY <1>2, <2>1, <2>2, <2>3, <2>4, OtherStep
<1> QED
  BY <1>1, <1>2

\* An AP that has not seen the BSP does not see it.
LEMMA EarlyStep ==
  ASSUME Types, Entering, Idle \/ \E b \in Cpus : Running(b),
         NEW c \in Cpus, NEW l \in Early, pc[c] \in Early,
         pc' = [pc EXCEPT ![c] = l], bspIndex # None => UNCHANGED bspIndex,
         UNCHANGED <<mode, bsp, counter, insideSmm, present, run, handler>>,
         \A a \in Cpus \ {c} : busy'[a] = busy[a]
  PROVE  Idle' \/ \E b \in Cpus : Running(b)'
<1> USE DEF handler
<1>1. CASE Idle
  <2>1. counter' = counter + (IF l \in Early THEN 1 ELSE 0)
                           - (IF pc[c] \in Early THEN 1 ELSE 0)
    BY Constants DEF Types
  <2>2. Idle'
    BY <1>1, <2>1, IdleStep
  <2> QED
    BY <2>2
<1>2. ASSUME NEW b \in Cpus, Running(b)
      PROVE  Running(b)'
  <2>1. c # b
    BY <1>2 DEF Running, Early, BspPath
  <2>2. Follows(b, c) /\ run[c] = 0 /\ pc[b] \in Unsettled /\ bspIndex = b
    <3>1. Follows(b, c)
      BY <1>2, <2>1 DEF Running
    <3>2. run[c] = 0 /\ pc[b] \in Unsettled
      BY <3>1 DEF Follows
    <3> QED
      BY <1>2, <3>1, <3>2 DEF Running, Unsettled, Open, Handling
  <2>3. UNCHANGED bspIndex
    BY <2>2, Constants
  <2>4. Stage(b)'
    <3>1. Stage(b)
      BY <1>2 DEF Running
    <3>2. /\ l \in ApLabels <=> pc[c] \in ApLabels
          /\ \A S : Awaits(b, S) => (l \in S \cup {"giveUp"} <=> pc[c] \in S \cup {"giveUp"})
      BY EarlyCounted, ApLabelSet DEF Early
    <3> QED
      BY <2>1, <3>1, <3>2, StageKept
  <2>5. Follows(b, c)'
    <3>1. pc'[c] \in Early /\ run'[c] = 0 /\ pc'[b] \in Unsettled'
      BY <2>1, <2>2 DEF Types, Unsettled, Open, Gathers
    <3>2. Early \subseteq Everywhere \ BspPath
      BY ApLabelSet DEF Early, Everywhere, BspPath
    <3> QED
      BY <3>1, <3>2 DEF Follows, Early, Out
  <2>6. Locks(b, c)'
    BY DEF Locks, Entering, Early, PresentAp, PresentBsp, BspPath
  <2>7. l \notin PresentAp \cup {"apDone"}
    BY DEF Early, PresentAp
  <2>8. ~(pc[b] = "startRelease" /\ target = c)
    BY <1>2 DEF Running, Entering, Early, PresentAp, PresentBsp, BspPath
  <2> QED
    BY <1>2, <2>1, <2>3, <2>4, <2>5, <2>6, <2>7, <2>8, OtherStep
<1> QED
  BY <1>1, <1>2

\* A processor counts itself, or no longer counts.
LEMMA CountStep ==
  ASSUME Types, Entering, Idle \/ \E b \in Cpus : Running(b),
         NEW c \in Cpus, NEW l, pc' = [pc EXCEPT ![c] = l],
         \/ pc[c] \in Out /\ l = "free" /\ counter < Locked /\ counter' = counter + 1
         \/ pc[c] = "giveUp" /\ l \in Out /\ counter' = counter - 1,
         UNCHANGED <<mode, bsp, insideSmm, bspIndex, cpuData, handler>>
  PROVE  Idle' \/ \E b \in Cpus : Running(b)'
<1> USE DEF handler, cpuData
<1>0. /\ l \in Out \cup Early /\ pc[c] \in Out \cup Early
      /\ counter' = counter + (IF l \in Early THEN 1 ELSE 0)
                            - (IF pc[c] \in Early THEN 1 ELSE 0)
  <2>1. counter \in Int
    BY Constants DEF Types
  <2> QED
    BY <2>1 DEF Out, Early
<1>1. CASE Idle
  <2>2. Idle'
    BY <1>0, <1>1, IdleStep
  <2> QED
    BY <2>2
<1>2. ASSUME NEW b \in Cpus, Running(b)
      PROVE  Running(b)'
  <2>1. c # b
    BY <1>0, <1>2 DEF Running, Early, Out, BspPath
  <2>2. Follows(b, c) /\ run[c] = 0 /\ pc[b] \in Unsettled /\ Stage(b)
    <3>1. Follows(b, c) /\ Stage(b)
      BY <1>2, <2>1 DEF Running
    <3>2. run[c] = 0
      BY <1>0, <3>1 DEF Follows
    <3>3. CASE pc[c] = "giveUp"
      BY <3>1, <3>2, <3>3 DEF Follows, Early
    <3>4. CASE counter < Locked
      BY <1>2, <3>1, <3>2, <3>4, Constants DEF Stage, Unsettled, Running, Suits, Types
    <3> QED
      BY <3>1, <3>2, <3>3, <3>4
  <2>3. Stage(b)'
    <3>1. ASSUME NEW S, \A k \in Out : k \notin S, "free" \in S, "giveUp" \in S
          PROVE  Cardinality(At(pc', S, b)) = Cardinality(At(pc, S, b)) + counter' - counter
      <4>1. Cardinality(At(pc, S, b)) \in Int /\ counter \in Int
        BY AtCount, Constants DEF Types
      <4>2. CASE pc[c] \in Out /\ l = "free" /\ counter' = counter + 1
        <5>1. Cardinality(At(pc', S, b)) = Cardinality(At(pc, S, b)) + 1
          BY <2>1, <3>1, <4>2, AtEntered
        <5> QED
          BY <4>1, <4>2, <5>1
      <4>3. CASE pc[c] = "giveUp" /\ l \in Out /\ counter' = counter - 1
        <5>1. Cardinality(At(pc', S, b)) = Cardinality(At(pc, S, b)) - 1
          BY <2>1, <3>1, <4>3, AtLeft
        <5> QED
          BY <4>1, <4>3, <5>1
      <4> QED
        BY <4>2, <4>3
    <3>2. /\ Cardinality(At(pc', ApLabels, b)) =
               Cardinality(At(pc, ApLabels, b)) + counter' - counter
          /\ Owed(UpToArrived, b)' = Owed(UpToArrived, b) + counter' - counter
          /\ Owed(UpToArrived, b) \in Nat /\ Cardinality(At(pc, ApLabels, b)) \in Nat
      <4>1. Cardinality(At(pc', ApLabels, b)) =
              Cardinality(At(pc, ApLabels, b)) + counter' - counter
        BY <3>1, ApLabelSet DEF Out
      <4>2. Cardinality(At(pc', UpToArrived \cup {"giveUp"}, b)) =
              Cardinality(At(pc, UpToArrived \cup {"giveUp"}, b)) + counter' - counter
        BY <3>1 DEF Out, UpToArrived
      <4>3. Cardinality(At(pc, ApLabels, b)) \in Nat
        BY AtCount
      <4>4. Cardinality(At(pc, UpToArrived \cup {"giveUp"}, b)) \in Nat
        BY AtCount
      <4>5. run'[b] = run[b] /\ run[b] \in Nat /\ counter \in Int /\ counter' \in Int
        BY <1>0, Constants DEF Types
      <4> QED
        BY <4>1, <4>2, <4>3, <4>4, <4>5 DEF Owed
    <3>3. Gathers' = Gathers /\ Open' = Open /\ Unsettled' = Unsettled /\ pc'[b] = pc[b]
      BY <2>1 DEF Gathers, Open, Unsettled, Types
    <3>4. counter \in Nat /\ counter' \in Int /\ Locked \in Nat
      BY <1>0, Constants DEF Types
    <3> QED
      BY <2>2, <3>2, <3>3, <3>4 DEF Stage, Unsettled, Open, Handling, Types
  <2>4. Follows(b, c)'
    <3>1. /\ pc'[c] \in Out \cup Early /\ run'[c] = 0 /\ pc'[b] \in Unsettled'
      BY <1>0, <2>1, <2>2 DEF Types, Unsettled, Open, Gathers
    <3>2. Out \cup Early \subseteq Everywhere \ BspPath
      BY ApLabelSet DEF Early, Out, Everywhere, BspPath
    <3> QED
      BY <3>1, <3>2 DEF Follows, Early, Out
  <2>5. Locks(b, c)'
    BY <1>0 DEF Locks, Entering, Early, Out, PresentAp, PresentBsp, BspPath
  <2>6. l \notin PresentAp \cup {"apDone"}
    BY <1>0 DEF Early, Out, PresentAp
  <2> QED
    BY <1>2, <2>1, <2>3, <2>4, <2>5, <2>6, OtherStep
<1> QED
  BY <1>1, <1>2

\* What neither counts a processor nor touches a handler's state.
LEMMA Unchanged ==
  ASSUME UNCHANGED <<mode, pc, bsp, counter, insideSmm, bspIndex, cpuData, handler>>,
         Idle \/ \E b \in Cpus : Running(b)
  PROVE  Idle' \/ \E b \in Cpus : Running(b)'
<1> USE DEF cpuData, handler
<1>1. CASE Idle
  BY <1>1 DEF Idle, At
<1>2. ASSUME NEW b \in Cpus, Running(b)
      PROVE  Running(b)'
  <2>1. Gathers' = Gathers /\ Open' = Open
    BY DEF Gathers, Open
  <2>2. \A a \in Cpus \ {b} : Follows(b, a)' /\ Locks(b, a)'
    BY <1>2, FollowsKept DEF Running
  <2>3. Stage(b)'
    BY <1>2, <2>1 DEF Running, Stage, Owed, At
  <2>4. (pc[b] \in Inside)' = (pc[b] \in Inside)
    OBVIOUS
  <2> QED
    BY <1>2, <2>1, <2>2, <2>3, <2>4 DEF Running, Suits
<1> QED
  BY <1>1, <1>2

-----------------------------------------------------------------------------
(******************************* SmiRendezvous *****************************)

\* TriggerSmi keeps RunInv.
LEMMA TriggerSmiKeeps ==
  ASSUME RunInv, TriggerSmi
  PROVE  RunInv'
<1> USE DEF TriggerSmi, locals, sync, cpuData, handler
<1>1. Types'
  BY ConstantsAssumption DEF RunInv, Types, Exists, ModeType
<1>2. Existing'
  BY DEF RunInv, Existing, Exists
<1>3. Entering'
  BY DEF RunInv, Entering
<1>4. Idle' \/ \E b \in Cpus : Running(b)'
  BY Unchanged DEF RunInv
<1> QED
  BY <1>1, <1>2, <1>3, <1>4 DEF RunInv

\* Enter keeps RunInv.
LEMMA EnterKeeps ==
  ASSUME RunInv, NEW c \in Cpus, Enter(c)
  PROVE  RunInv'
<1> USE DEF Enter, Goto, sync, cpuData, handler
<1>1. Types'
  BY DEF RunInv, Types, Everywhere, Out
<1>2. Existing'
  BY DEF RunInv, Types, Existing, Exists
<1>3. Entering'
  BY ApLabelSet DEF RunInv, Types, Entering, PresentAp, PresentBsp, BspPath
<1>4. Idle' \/ \E b \in Cpus : Running(b)'
  BY OutStep DEF RunInv, Out
<1> QED
  BY <1>1, <1>2, <1>3, <1>4 DEF RunInv

\* ReadValidSmi keeps RunInv.
LEMMA ReadValidSmiKeeps ==
  ASSUME RunInv, NEW c \in Cpus, ReadValidSmi(c)
  PROVE  RunInv'
<1> USE DEF ReadValidSmi, Goto, smis, sync, cpuData, handler
<1>1. Types'
  BY DEF RunInv, Types, Everywhere, Out
<1>2. Existing'
  BY DEF RunInv, Types, Existing, Exists
<1>3. Entering'
  BY ApLabelSet DEF RunInv, Types, Entering, PresentAp, PresentBsp, BspPath
<1>4. Idle' \/ \E b \in Cpus : Running(b)'
  BY OutStep DEF RunInv, Out
<1> QED
  BY <1>1, <1>2, <1>3, <1>4 DEF RunInv

\* ReadBspInProgress keeps RunInv.
LEMMA ReadBspInProgressKeeps ==
  ASSUME RunInv, NEW c \in Cpus, ReadBspInProgress(c)
  PROVE  RunInv'
<1> USE DEF ReadBspInProgress, Goto, smis, sync, cpuData, handler
<1>1. Types'
  BY DEF RunInv, Types, Everywhere, Out
<1>2. Existing'
  BY DEF RunInv, Types, Existing, Exists
<1>3. Entering'
  <2>1. ~mode.elect /\ insideSmm => c # 0
    BY DEF RunInv, Entering, Idle, Running, Inside, BspPath
  <2> QED
    BY <2>1, ApLabelSet DEF RunInv, Types, Entering, PresentAp, PresentBsp, BspPath
<1>4. Idle' \/ \E b \in Cpus : Running(b)'
  BY OutStep DEF RunInv, Out
<1> QED
  BY <1>1, <1>2, <1>3, <1>4 DEF RunInv

\* Arrive keeps RunInv.
LEMMA ArriveKeeps ==
  ASSUME RunInv, NEW c \in Cpus, Arrive(c)
  PROVE  RunInv'
<1> USE DEF Arrive, Goto, smis, sync, cpuData, handler
<1>0. counter \in 0 .. Locked /\ Inc(counter) = IF counter = Locked THEN 0 ELSE counter + 1
  BY Semaphore, Constants DEF RunInv, Types
<1>1. Types'
  <2>1. counter' \in 0 .. Locked
    BY <1>0, Constants
  <2>2. pc' \in [Cpus -> Everywhere]
    BY ApLabelSet DEF RunInv, Types, Everywhere, Out
  <2>3. sampled' \in [Cpus -> BOOLEAN]
    BY DEF RunInv, Types
  <2> QED
    BY <2>1, <2>2, <2>3 DEF RunInv, Types
<1>2. Existing'
  BY DEF RunInv, Types, Existing, Exists
<1>3. Entering'
  BY ApLabelSet DEF RunInv, Types, Entering, PresentAp, PresentBsp, BspPath
<1>4. Idle' \/ \E b \in Cpus : Running(b)'
  <2>1. CASE counter = Locked
    BY <1>0, <2>1, OutStep DEF RunInv, Out
  <2>2. CASE counter < Locked
    <3>1. /\ pc' = [pc EXCEPT ![c] = "free"] /\ counter' = counter + 1 /\ pc[c] \in Out
          /\ UNCHANGED <<mode, bsp, insideSmm, bspIndex, cpuData, handler>>
      BY <1>0, <2>2, Constants DEF Out
    <3> QED
      BY <2>2, <3>1, CountStep DEF RunInv
  <2> QED
    BY <1>0, <2>1, <2>2, Constants
<1> QED
  BY <1>1, <1>2, <1>3, <1>4 DEF RunInv

\* FreeBusy keeps RunInv.
LEMMA FreeBusyKeeps ==
  ASSUME RunInv, NEW c \in Cpus, FreeBusy(c)
  PROVE  RunInv'
<1> USE DEF FreeBusy, Goto, smis, sync, cpuData, handler
<1>1. Types'
  BY ApLabelSet DEF RunInv, Types, Everywhere, Out
<1>2. Existing'
  BY DEF RunInv, Types, Existing, Exists
<1>3. Entering'
  BY ApLabelSet DEF RunInv, Types, Entering, PresentAp, PresentBsp, BspPath
<1>4. Idle' \/ \E b \in Cpus : Running(b)'
  BY EarlyStep DEF RunInv, Early, Types
<1> QED
  BY <1>1, <1>2, <1>3, <1>4 DEF RunInv

\* Elect keeps RunInv.
LEMMA ElectKeeps ==
  ASSUME RunInv, NEW c \in Cpus, Elect(c)
  PROVE  RunInv'
<1> USE DEF Elect, Elects, Goto, smis, locals, sync, cpuData, handler
<1>1. Types'
  BY ApLabelSet DEF RunInv, Types, Everywhere, Out
<1>2. Existing'
  BY DEF RunInv, Types, Existing, Exists
<1>3. Entering'
  <2>1. ~mode.elect => bspIndex' = 0 /\ 0 \in Cpus
    BY Constants DEF RunInv, Entering
  <2>2. CASE bspIndex = None
    BY <2>1, <2>2, ApLabelSet DEF RunInv, Types, Entering, PresentAp, PresentBsp, BspPath
  <2>3. CASE bspIndex # None
    BY <2>1, <2>3, ApLabelSet DEF RunInv, Types, Entering, PresentAp, PresentBsp, BspPath
  <2> QED
    BY <2>2, <2>3
<1>4. Idle' \/ \E b \in Cpus : Running(b)'
  BY EarlyStep DEF RunInv, Early, Types
<1> QED
  BY <1>1, <1>2, <1>3, <1>4 DEF RunInv

\* The first processor to be elected starts a run.
LEMMA RunStarts ==
  ASSUME Types, Entering, Idle, NEW c \in Cpus, pc[c] = "elected", bspIndex = c,
         pc' = [pc EXCEPT ![c] = "bspEnter"],
         UNCHANGED <<mode, bsp, counter, insideSmm, bspIndex, cpuData, handler>>
  PROVE  Running(c)'
<1> USE DEF cpuData, handler
<1>1. pc'[c] = "bspEnter" /\ ~insideSmm' /\ run'[c] = 0 /\ c # None
  BY Constants DEF Types, Idle
<1>2. ASSUME NEW a \in Cpus \ {c}
      PROVE  /\ Follows(c, a)' /\ Locks(c, a)'
             /\ pc'[a] \notin PresentAp \cup {"apDone"}
  <2>1. pc'[a] \in Out \cup Early /\ run'[a] = 0
    BY DEF Types, Idle
  <2>2. "bspEnter" \in Unsettled' /\ Out \cup Early \subseteq Everywhere \ BspPath
    BY ApLabelSet DEF Unsettled, Open, Out, Early, Everywhere, BspPath
  <2>3. Follows(c, a)'
    BY <1>1, <2>1, <2>2 DEF Follows, Out, Early
  <2>4. pc'[a] \notin PresentAp \cup PresentBsp \cup {"apDone"}
    BY <2>1 DEF Out, Early, PresentAp, PresentBsp, BspPath
  <2>5. ~present'[a]
    BY <2>4 DEF Types, Entering
  <2> QED
    BY <2>3, <2>4, <2>5 DEF Locks
<1>3. Stage(c)'
  <2>1. ASSUME NEW S, Early \subseteq S, S \cap Out = {}
        PROVE  Cardinality(At(pc', S, c)) = counter - 1
    <3>1. Cardinality(At(pc', Early, None)) = counter - 1
      <4>1. Cardinality(At(pc', Early, None)) = Cardinality(At(pc, Early, None)) - 1
        <5>1. None # c /\ pc[c] \in Early /\ "bspEnter" \notin Early
          BY <1>1 DEF Early
        <5> QED
          BY <5>1, AtLeft
      <4> QED
        BY <4>1 DEF Idle
    <3>2. At(pc', Early, None) = At(pc', S, c)
      <4>1. \A a \in Cpus : a # None
        BY Constants
      <4>2. \A a \in Cpus \ {c} : pc'[a] = pc[a] /\ pc[a] \in Out \cup Early
        BY DEF Idle, Types
      <4>3. pc'[c] \notin Early
        BY <1>1 DEF Early
      <4> QED
        BY <2>1, <4>1, <4>2, <4>3 DEF At
    <3> QED
      BY <3>1, <3>2
  <2>2. Cardinality(At(pc', ApLabels, c)) = counter - 1
    BY <2>1, ApLabelSet DEF Out, Early
  <2>3. Cardinality(At(pc', UpToArrived \cup {"giveUp"}, c)) = counter - 1
    BY <2>1 DEF Out, Early, UpToArrived
  <2>4. counter \in Int /\ counter' = counter
    BY Constants DEF Types
  <2>5. "bspEnter" \in Open'
    BY DEF Open
  <2> QED
    BY <1>1, <2>2, <2>3, <2>4, <2>5 DEF Stage, Owed, Handling
<1>4. "bspEnter" \in BspPath /\ "bspEnter" \notin Inside
  BY DEF BspPath, Inside
<1> QED
  BY <1>1, <1>2, <1>3, <1>4 DEF Running, Suits

\* Elected keeps RunInv.
LEMMA ElectedKeeps ==
  ASSUME RunInv, NEW c \in Cpus, Elected(c)
  PROVE  RunInv'
<1> USE DEF Elected, Goto, smis, locals, sync, cpuData, handler
<1>1. Types'
  BY ApLabelSet DEF RunInv, Types, Everywhere, BspPath
<1>2. Existing'
  BY DEF RunInv, Types, Existing, Exists
<1>3. Entering'
  BY ApLabelSet DEF RunInv, Types, Entering, PresentAp, PresentBsp, BspPath
<1>4. Idle' \/ \E b \in Cpus : Running(b)'
  <2>1. CASE bspIndex = c
    <3>1. ASSUME NEW b \in Cpus, Running(b)
          PROVE  FALSE
      <4>1. b # c
        BY <3>1 DEF Running, BspPath
      <4>2. Follows(b, c) /\ pc[b] = "reopen"
        BY <2>1, <3>1, <4>1 DEF Running
      <4> QED
        BY <4>2 DEF Follows, Early, Unsettled, Open, Handling
    <3>2. Idle
      BY <3>1 DEF RunInv
    <3> QED
      BY <2>1, <3>2, RunStarts DEF RunInv
  <2>2. CASE bspIndex # c
    BY <2>2, EarlyStep DEF RunInv, Early
  <2> QED
    BY <2>1, <2>2
<1> QED
  BY <1>1, <1>2, <1>3, <1>4 DEF RunInv

\* Leave keeps RunInv.
LEMMA LeaveKeeps ==
  ASSUME RunInv, NEW c \in Cpus, Leave(c)
  PROVE  RunInv'
<1> USE DEF Leave, Goto, smis, locals, sync, cpuData, handler
<1>1. Types'
  BY ApLabelSet DEF RunInv, Types, Everywhere, Out
<1>2. Existing'
  BY DEF RunInv, Types, Existing, Exists
<1>3. Entering'
  BY ApLabelSet DEF RunInv, Types, Entering, PresentAp, PresentBsp, BspPath
<1>4. Idle' \/ \E b \in Cpus : Running(b)'
  BY OutStep DEF RunInv, Out
<1> QED
  BY <1>1, <1>2, <1>3, <1>4 DEF RunInv

\* ClearInSync keeps RunInv.
LEMMA ClearInSyncKeeps ==
  ASSUME RunInv, NEW c \in Cpus, ClearInSync(c)
  PROVE  RunInv'
<1> USE DEF ClearInSync, AfterReset, Goto, smis, locals, sync, cpuData, handler
<1>1. Types'
  BY ApLabelSet DEF RunInv, Types, Everywhere, Out
<1>2. Existing'
  BY DEF RunInv, Types, Existing, Exists
<1>3. Entering'
  BY ApLabelSet DEF RunInv, Types, Entering, PresentAp, PresentBsp, BspPath
<1>4. Idle' \/ \E b \in Cpus : Running(b)'
  BY OutStep DEF RunInv, Out
<1> QED
  BY <1>1, <1>2, <1>3, <1>4 DEF RunInv
-----------------------------------------------------------------------------
(******************************** APHandler ********************************)

\* BspTimeout keeps RunInv.
LEMMA BspTimeoutKeeps ==
  ASSUME RunInv, NEW c \in Cpus, BspTimeout(c)
  PROVE  RunInv'
<1> USE DEF BspTimeout, AfterTimeout, Goto, smis, locals, sync, cpuData, handler
<1>1. Types'
  BY ApLabelSet DEF RunInv, Types, Everywhere
<1>2. Existing'
  BY DEF RunInv, Types, Existing, Exists
<1>3. Entering'
  BY ApLabelSet DEF RunInv, Types, Entering, PresentAp, PresentBsp, BspPath
<1>4. Idle' \/ \E b \in Cpus : Running(b)'
  BY EarlyStep DEF RunInv, Early
<1> QED
  BY <1>1, <1>2, <1>3, <1>4 DEF RunInv

\* BringBspIn keeps RunInv.
LEMMA BringBspInKeeps ==
  ASSUME RunInv, NEW c \in Cpus, BringBspIn(c)
  PROVE  RunInv'
<1> USE DEF BringBspIn, SendSmiIpi, Goto, locals, sync, cpuData, handler
<1>1. Types'
  BY ApLabelSet DEF RunInv, Types, Everywhere
<1>2. Existing'
  <2>1. bspIndex # None => Exists(bspIndex)
    <3>1. mode.elect /\ bspIndex # None => pc[bspIndex] # "outside"
      BY DEF RunInv, Types, Entering, BspPath
    <3>2. ~mode.elect => bspIndex = 0 /\ Exists(0)
      BY ModeTypes, Constants DEF RunInv, Entering, Exists
    <3> QED
      BY <3>1, <3>2 DEF RunInv, Types, Existing
  <2> QED
    BY <2>1 DEF RunInv, Types, Existing, Exists
<1>3. Entering'
  BY ApLabelSet DEF RunInv, Types, Entering, PresentAp, PresentBsp, BspPath
<1>4. Idle' \/ \E b \in Cpus : Running(b)'
  BY EarlyStep DEF RunInv, Early
<1> QED
  BY <1>1, <1>2, <1>3, <1>4 DEF RunInv

\* GiveUp keeps RunInv.
LEMMA GiveUpKeeps ==
  ASSUME RunInv, NEW c \in Cpus, GiveUp(c)
  PROVE  RunInv'
<1> USE DEF GiveUp, Goto, smis, locals, sync, cpuData, handler
<1>0. counter' = counter - 1 /\ counter \in 0 .. Locked /\ counter # 0
  BY Semaphore, Constants DEF RunInv, Types
<1>1. Types'
  <2>1. counter' \in 0 .. Locked
    BY <1>0, Constants
  <2> QED
    BY <2>1 DEF RunInv, Types, Everywhere, Out
<1>2. Existing'
  BY DEF RunInv, Types, Existing, Exists
<1>3. Entering'
  BY ApLabelSet DEF RunInv, Types, Entering, PresentAp, PresentBsp, BspPath
<1>4. Idle' \/ \E b \in Cpus : Running(b)'
  BY <1>0, CountStep DEF RunInv, Out
<1> QED
  BY <1>1, <1>2, <1>3, <1>4 DEF RunInv

\* An AP that has seen the BSP, or sees it, is in a run.
LEMMA InRun ==
  ASSUME RunInv, NEW c \in Cpus, pc[c] \in ApLabels, pc[c] \notin Early \/ insideSmm
  PROVE  \E b \in Cpus \ {c} :
           /\ Running(b) /\ Follows(b, c) /\ Locks(b, c) /\ Stage(b)
           /\ pc[c] \in PresentAp \cup {"apDone"} => bsp[c] = b
<1>1. ~Idle
  BY ApLabelSet DEF Idle, Out, Early
<1>2. PICK b \in Cpus : Running(b)
  BY <1>1 DEF RunInv
<1>3. b # c
  BY <1>2, ApLabelSet DEF Running, BspPath
<1> QED
  BY <1>2, <1>3 DEF Running

\* BspAppears keeps RunInv.
LEMMA BspAppearsKeeps ==
  ASSUME RunInv, NEW c \in Cpus, BspAppears(c)
  PROVE  RunInv'
<1> USE DEF BspAppears, Goto, smis, locals, sync, cpuData, handler
<1>0. pc[c] \in ApLabels /\ (pc[c] \notin Early \/ insideSmm)
  BY ApLabelSet, SignalTable, WaitTable, Tables DEF Early
<1>1. Types'
  BY ApLabelSet, SignalTable, WaitTable, Tables, Constants DEF RunInv, Types, Everywhere, Out
<1>2. Existing'
  BY Tables DEF RunInv, Types, Existing, Exists
<1>3. Entering'
  BY <1>0, ApLabelSet DEF RunInv, Types, Entering, PresentAp, PresentBsp, BspPath
<1>4. PICK b \in Cpus \ {c} :
        /\ Running(b) /\ Follows(b, c) /\ Locks(b, c) /\ Stage(b) /\ pc[b] \in BspPath
        /\ insideSmm <=> pc[b] \in Inside
        /\ pc[c] \in PresentAp \cup {"apDone"} => bsp[c] = b
  BY <1>0, InRun DEF Running
<1>5. pc'[b] = pc[b] /\ Gathers' = Gathers /\ Open' = Open /\ Unsettled' = Unsettled
  BY <1>4 DEF RunInv, Types, Gathers, Unsettled, Open
<1>6. Running(b)'
  <2>1. Stage(b)'
    <3>1. /\ "apPresent" \in ApLabels
          /\ \A S : Awaits(b, S) => "apPresent" \in S \cup {"giveUp"} /\ pc[c] \in S \cup {"giveUp"}
      BY ApLabelSet DEF Awaits, UpToArrived, UpToBackedUp, UpToProgrammed, UpToTasksDone,
         UpToReset, UpToDone
    <3>2. Types /\ b # c /\ run'[b] = run[b]
      BY <1>4 DEF RunInv
    <3> QED
      BY <1>0, <1>4, <3>1, <3>2, StageKept
  <2>2. Follows(b, c)'
    <3>1. run'[c] = 0 /\ pc[b] \in Unsettled \ {"bspEnter"}
      BY <1>4 DEF Follows, Early, Inside
    <3>2. pc'[c] = "apPresent" /\ Seen(b)'
      BY <1>5, <3>1 DEF RunInv, Types, Seen
    <3> QED
      BY <3>1, <3>2, ApLabelSet DEF Follows, Everywhere, BspPath, Early, Out
  <2>3. Locks(b, c)'
    BY DEF RunInv, Locks, Entering, PresentAp, PresentBsp, BspPath
  <2> QED
    BY <1>4, <2>1, <2>2, <2>3, OtherStep DEF RunInv, PresentAp
<1> QED
  BY <1>1, <1>2, <1>3, <1>6 DEF RunInv

\* The labels of an AP between two signals count alike.
LEMMA LateCounted ==
  ASSUME NEW b, NEW S, Awaits(b, S)
  PROVE  /\ "apTimer" \in S /\ "apTimer2" \in S /\ "apPresent" \in S /\ "apArrived" \in S
         /\ "apBackup" \in S <=> "apBackedUp" \in S
         /\ "apProgram" \in S <=> "apProgrammed" \in S
         /\ "apLoop" \in S <=> "apCheck" \in S
         /\ "apCheck" \in S <=> "apProcedure" \in S
         /\ "apCheck" \in S <=> "apTasksDone" \in S
         /\ "apRestore" \in S <=> "apReset" \in S
         /\ "apClear" \in S <=> "apAbsent" \in S
         /\ "apAbsent" \in S <=> "apDone" \in S
  BY DEF Awaits, UpToArrived, UpToBackedUp, UpToProgrammed, UpToTasksDone, UpToReset, UpToDone

\* ApWaits keeps RunInv.
LEMMA ApWaitsKeeps ==
  ASSUME RunInv, NEW c \in Cpus, ApWaits(c)
  PROVE  RunInv'
<1>1. PICK l : /\ pc' = [pc EXCEPT ![c] = l]
               /\ \/ pc[c] = "apBackup" /\ l = "apBackedUp"
                  \/ pc[c] = "apProgram" /\ l = "apProgrammed"
                  \/ pc[c] = "apLoop" /\ l = "apCheck"
                  \/ pc[c] = "apRestore" /\ l = "apReset"
                  \/ pc[c] = "apClear" /\ l = "apAbsent"
  BY Tables, WaitTable DEF ApWaits, Goto
<1>2. /\ run[c] > 0 /\ run' = [run EXCEPT ![c] = @ - 1]
      /\ UNCHANGED <<mode, pending, topLevel, sampled, bsp, counter, insideSmm, allCpusInSync,
                     bspIndex, present, busy, apCount, index, waiting, target>>
  BY DEF ApWaits, Wait, smis, locals, sync, handler
<1>3. Types /\ Existing /\ Entering
  BY DEF RunInv
<1>4. PICK b \in Cpus \ {c} :
        /\ Running(b) /\ Follows(b, c) /\ Locks(b, c) /\ Stage(b)
        /\ pc[c] \in PresentAp \cup {"apDone"} => bsp[c] = b
  BY <1>1, InRun, ApLabelSet DEF Early
<1>5. /\ pc'[b] = pc[b] /\ pc'[c] = l /\ l \in Everywhere \ BspPath
      /\ l \in ApLabels /\ pc[c] \in ApLabels
      /\ run[c] = 1 /\ run'[c] = 0 /\ run'[b] = run[b]
      /\ \A a \in Cpus \ {b, c} : run'[a] = run[a]
  <2>1. l \in Everywhere \ BspPath /\ l \in ApLabels /\ pc[c] \in ApLabels
    BY <1>1, ApLabelSet DEF Everywhere, BspPath
  <2>2. run[c] = 1
    BY <1>1, <1>2, <1>4 DEF Follows
  <2> QED
    BY <1>1, <1>2, <1>3, <2>1, <2>2 DEF Types
<1>6. Types' /\ Existing'
  BY <1>1, <1>2, <1>3, <1>5 DEF Types, Existing, Exists
<1>7. Entering'
  BY <1>1, <1>2, <1>3, ApLabelSet DEF Types, Entering, PresentAp, PresentBsp, BspPath
<1>8. Stage(b)'
  <2>1. \A S : Awaits(b, S) => (l \in S \cup {"giveUp"} <=> pc[c] \in S \cup {"giveUp"})
    BY <1>1, LateCounted
  <2> QED
    BY <1>1, <1>2, <1>3, <1>4, <1>5, <2>1, StageKept
<1>9. Follows(b, c)'
  BY <1>1, <1>2, <1>4, <1>5, ReleasesKept DEF Follows, Task, Early, Out
<1>10. Locks(b, c)'
  <2>1. Tasks(b, c) => pc[c] = "apLoop"
    BY <1>1, <1>4, <1>5 DEF Follows, Tasks, Backups, Programs, Restores, Resets, After
  <2> QED
    BY <1>1, <1>2, <1>4, <1>5, <2>1, ReleasesKept DEF Locks
<1>11. l \in PresentAp \cup {"apDone"} => bsp'[c] = b
  BY <1>1, <1>2, <1>4 DEF PresentAp
<1>12. Running(b)'
  BY <1>1, <1>2, <1>3, <1>4, <1>5, <1>8, <1>9, <1>10, <1>11, OtherStep
<1> QED
  BY <1>6, <1>7, <1>12 DEF RunInv

\* ApPresent keeps RunInv.
LEMMA ApPresentKeeps ==
  ASSUME RunInv, NEW c \in Cpus, ApPresent(c)
  PROVE  RunInv'
<1>1. PICK l : /\ pc' = [pc EXCEPT ![c] = l] /\ pc[c] = "apPresent"
               /\ l = IF Gathers THEN "apArrived" ELSE "apLoop"
  BY DEF ApPresent, Goto
<1>2. /\ bsp' = [bsp EXCEPT ![c] = bspIndex] /\ present' = [present EXCEPT ![c] = TRUE]
      /\ UNCHANGED <<mode, pending, topLevel, sampled, counter, insideSmm, allCpusInSync,
                     bspIndex, run, busy, apCount, index, waiting, target>>
  BY DEF ApPresent, smis, sync, handler
<1>3. Types /\ Existing /\ Entering
  BY DEF RunInv
<1>4. PICK b \in Cpus \ {c} : Running(b) /\ Follows(b, c) /\ Locks(b, c) /\ Stage(b)
  BY <1>1, InRun, ApLabelSet DEF Early
<1>5. /\ pc'[b] = pc[b] /\ pc'[c] = l /\ l \in Everywhere \ BspPath
      /\ l \in ApLabels /\ pc[c] \in ApLabels
      /\ run[c] = 0 /\ Seen(b) /\ bspIndex = b /\ busy[c] = "released"
  <2>1. l \in Everywhere \ BspPath /\ l \in ApLabels /\ pc[c] \in ApLabels
    BY <1>1, ApLabelSet DEF Everywhere, BspPath
  <2>2. run[c] = 0 /\ Seen(b)
    BY <1>1, <1>4 DEF Follows
  <2>3. bspIndex = b
    BY <1>4, <2>2 DEF Running, Seen, Unsettled, Open, Handling
  <2>4. ~present[c] /\ busy[c] = "released"
    BY <1>1, <1>3, ApLabelSet DEF Entering, PresentAp, PresentBsp, BspPath
  <2> QED
    BY <1>1, <1>2, <1>3, <2>1, <2>2, <2>3, <2>4 DEF Types
<1>6. Types' /\ Existing'
  BY <1>1, <1>2, <1>3, <1>5 DEF Types, Existing, Exists
<1>7. Entering'
  BY <1>1, <1>2, <1>3, ApLabelSet DEF Types, Entering, PresentAp, PresentBsp, BspPath
<1>8. Stage(b)'
  <2>1. \A S : Awaits(b, S) => (l \in S \cup {"giveUp"} <=> pc[c] \in S \cup {"giveUp"})
    <3>1. CASE Gathers
      BY <1>1, <3>1, LateCounted
    <3>2. CASE ~Gathers
      BY <1>1, <1>4, <1>5, <3>2 DEF Awaits, Seen, Unsettled, Open, Handling, Running
    <3> QED
      BY <3>1, <3>2
  <2> QED
    BY <1>1, <1>2, <1>3, <1>4, <1>5, <2>1, StageKept
<1>9. Follows(b, c)'
  <2>1. ~Gathers => ~mode.mtrr
    BY DEF Gathers
  <2> QED
    BY <1>1, <1>2, <1>4, <1>5, <2>1, ReleasesKept DEF Follows, Early, Out
<1>10. Locks(b, c)'
  BY <1>2, <1>3, <1>5 DEF Locks, Types
<1>11. bsp'[c] = b
  BY <1>2, <1>3, <1>5 DEF Types
<1>12. Running(b)'
  <2>1. present'[c] /\ \A a \in Cpus \ {b, c} : present'[a] = present[a] /\ bsp'[a] = bsp[a]
    BY <1>2, <1>3 DEF Types
  <2> QED
    BY <1>1, <1>2, <1>3, <1>4, <1>5, <1>8, <1>9, <1>10, <1>11, <2>1, OtherStep
<1> QED
  BY <1>6, <1>7, <1>12 DEF RunInv

\* ApChecks keeps RunInv.
LEMMA ApChecksKeeps ==
  ASSUME RunInv, NEW c \in Cpus, ApChecks(c)
  PROVE  RunInv'
<1>1. PICK l : /\ pc' = [pc EXCEPT ![c] = l] /\ pc[c] = "apCheck"
               /\ l = IF insideSmm THEN "apProcedure"
                      ELSE IF mode.mtrr THEN "apTasksDone" ELSE "apReset"
  BY DEF ApChecks, Goto
<1>2. UNCHANGED <<mode, pending, topLevel, sampled, bsp, counter, insideSmm, allCpusInSync,
                  bspIndex, present, run, busy, apCount, index, waiting, target>>
  BY DEF ApChecks, smis, locals, sync, cpuData, handler
<1>3. Types /\ Existing /\ Entering
  BY DEF RunInv
<1>4. PICK b \in Cpus \ {c} :
        /\ Running(b) /\ Follows(b, c) /\ Locks(b, c) /\ Stage(b)
        /\ pc[c] \in PresentAp \cup {"apDone"} => bsp[c] = b
  BY <1>1, InRun, ApLabelSet DEF Early
<1>5. /\ pc'[b] = pc[b] /\ pc'[c] = l /\ l \in Everywhere \ BspPath
      /\ l \in ApLabels /\ pc[c] \in ApLabels
      /\ run[c] = 0 /\ IF insideSmm THEN Task(b, c) ELSE Exits(b, c)
  <2>1. l \in Everywhere \ BspPath /\ l \in ApLabels /\ pc[c] \in ApLabels
    BY <1>1, ApLabelSet DEF Everywhere, BspPath
  <2>2. run[c] = 0 /\ (Exits(b, c) \/ Task(b, c))
    BY <1>1, <1>4 DEF Follows
  <2>3. Exits(b, c) => ~insideSmm
    BY <1>4 DEF Running, Exits, After, Inside
  <2>4. Task(b, c) => insideSmm
    BY <1>4 DEF Running, Task, Tasks, Inside, BspPath
  <2> QED
    BY <1>1, <1>2, <1>3, <2>1, <2>2, <2>3, <2>4 DEF Types
<1>6. Types' /\ Existing'
  BY <1>1, <1>2, <1>3, <1>5 DEF Types, Existing, Exists
<1>7. Entering'
  BY <1>1, <1>2, <1>3, ApLabelSet DEF Types, Entering, PresentAp, PresentBsp, BspPath
<1>8. Stage(b)'
  <2>1. \A S : Awaits(b, S) => (l \in S \cup {"giveUp"} <=> pc[c] \in S \cup {"giveUp"})
    <3>1. CASE l \in {"apProcedure", "apTasksDone"}
      BY <1>1, <3>1, LateCounted
    <3>2. CASE l = "apReset"
      <4>1. ~mode.mtrr /\ pc[b] \in {"releaseExit", "waitExit"}
        BY <1>1, <1>5, <3>2 DEF Exits, After
      <4>2. \A S : Awaits(b, S) => S = UpToReset
        BY <4>1 DEF Awaits, Open, Handling
      <4> QED
        BY <1>1, <3>2, <4>2 DEF UpToReset, UpToTasksDone
    <3> QED
      BY <1>1, <3>1, <3>2
  <2> QED
    BY <1>1, <1>2, <1>3, <1>4, <1>5, <2>1, StageKept
<1>9. Follows(b, c)'
  BY <1>1, <1>2, <1>4, <1>5, ReleasesKept DEF Follows, Task, Early, Out
<1>10. Locks(b, c)'
  <2>1. ~insideSmm => ~Tasks(b, c) /\ pc[b] # "startRelease"
    BY <1>5 DEF Exits, After, Tasks
  <2> QED
    BY <1>1, <1>2, <1>4, <1>5, <2>1, ReleasesKept DEF Locks
<1>11. bsp'[c] = b
  BY <1>1, <1>2, <1>4 DEF PresentAp
<1>12. Running(b)'
  BY <1>1, <1>2, <1>3, <1>4, <1>5, <1>8, <1>9, <1>10, <1>11, OtherStep
<1> QED
  BY <1>6, <1>7, <1>12 DEF RunInv

\* ApProcedure keeps RunInv.
LEMMA ApProcedureKeeps ==
  ASSUME RunInv, NEW c \in Cpus, ApProcedure(c)
  PROVE  RunInv'
<1>1. PICK l : pc' = [pc EXCEPT ![c] = l] /\ pc[c] = "apProcedure" /\ l = "apLoop"
  BY DEF ApProcedure, Goto
<1>2. /\ busy' = [busy EXCEPT ![c] = "released"]
      /\ UNCHANGED <<mode, pending, topLevel, sampled, bsp, counter, insideSmm, allCpusInSync,
                     bspIndex, present, run, apCount, index, waiting, target>>
  BY DEF ApProcedure, smis, locals, sync, handler
<1>3. Types /\ Existing /\ Entering
  BY DEF RunInv
<1>4. PICK b \in Cpus \ {c} :
        /\ Running(b) /\ Follows(b, c) /\ Locks(b, c) /\ Stage(b)
        /\ pc[c] \in PresentAp \cup {"apDone"} => bsp[c] = b
  BY <1>1, InRun, ApLabelSet DEF Early
<1>5. /\ pc'[b] = pc[b] /\ pc'[c] = l /\ l \in Everywhere \ BspPath
      /\ l \in ApLabels /\ pc[c] \in ApLabels
      /\ run[c] = 0 /\ ToExit(b, c)
      /\ busy'[c] = "released" /\ \A a \in Cpus \ {c} : busy'[a] = busy[a]
  <2>1. l \in Everywhere \ BspPath /\ l \in ApLabels /\ pc[c] \in ApLabels
    BY <1>1, ApLabelSet DEF Everywhere, BspPath
  <2>2. run[c] = 0 /\ ToExit(b, c)
    BY <1>1, <1>4 DEF Follows, Task, Tasks, ToExit, Handling
  <2> QED
    BY <1>1, <1>2, <1>3, <2>1, <2>2 DEF Types
<1>6. Types' /\ Existing'
  BY <1>1, <1>2, <1>3, <1>5 DEF Types, Existing, Exists
<1>7. Entering'
  BY <1>1, <1>2, <1>3, ApLabelSet DEF Types, Entering, PresentAp, PresentBsp, BspPath
<1>8. Stage(b)'
  <2>1. \A S : Awaits(b, S) => (l \in S \cup {"giveUp"} <=> pc[c] \in S \cup {"giveUp"})
    BY <1>1, LateCounted
  <2> QED
    BY <1>1, <1>2, <1>3, <1>4, <1>5, <2>1, StageKept
<1>9. Follows(b, c)'
  BY <1>1, <1>2, <1>5, ReleasesKept DEF Follows, Early, Out
<1>10. Locks(b, c)'
  BY <1>5 DEF Locks
<1>11. bsp'[c] = b
  BY <1>1, <1>2, <1>4 DEF PresentAp
<1>12. Running(b)'
  <2>1. ~(pc[b] = "startRelease" /\ target = c)
    BY <1>1, <1>4 DEF Follows, Task
  <2> QED
    BY <2>1, <1>1, <1>2, <1>3, <1>4, <1>5, <1>8, <1>9, <1>10, <1>11, OtherStep
<1> QED
  BY <1>6, <1>7, <1>12 DEF RunInv

\* ApAbsent keeps RunInv.
LEMMA ApAbsentKeeps ==
  ASSUME RunInv, NEW c \in Cpus, ApAbsent(c)
  PROVE  RunInv'
<1>1. PICK l : pc' = [pc EXCEPT ![c] = l] /\ pc[c] = "apAbsent" /\ l = "apDone"
  BY DEF ApAbsent, Goto
<1>2. /\ present' = [present EXCEPT ![c] = FALSE]
      /\ UNCHANGED <<mode, pending, topLevel, sampled, bsp, counter, insideSmm, allCpusInSync,
                     bspIndex, run, busy, apCount, index, waiting, target>>
  BY DEF ApAbsent, smis, locals, sync, handler
<1>3. Types /\ Existing /\ Entering
  BY DEF RunInv
<1>4. PICK b \in Cpus \ {c} :
        /\ Running(b) /\ Follows(b, c) /\ Locks(b, c) /\ Stage(b)
        /\ pc[c] \in PresentAp \cup {"apDone"} => bsp[c] = b
  BY <1>1, InRun, ApLabelSet DEF Early
<1>5. /\ pc'[b] = pc[b] /\ pc'[c] = l /\ l \in Everywhere \ BspPath
      /\ l \in ApLabels /\ pc[c] \in ApLabels
      /\ run[c] = 0 /\ Resets(b, c) /\ busy[c] = "released"
      /\ ~present'[c] /\ \A a \in Cpus \ {c} : present'[a] = present[a]
  <2>1. l \in Everywhere \ BspPath /\ l \in ApLabels /\ pc[c] \in ApLabels
    BY <1>1, ApLabelSet DEF Everywhere, BspPath
  <2>2. run[c] = 0 /\ Resets(b, c)
    BY <1>1, <1>4 DEF Follows
  <2>3. present[c]
    BY <1>1, <1>3 DEF Entering, PresentAp
  <2>4. busy[c] = "released"
    BY <1>4, <2>2, <2>3 DEF Locks, Resets, After, Tasks
  <2> QED
    BY <1>1, <1>2, <1>3, <2>1, <2>2, <2>4 DEF Types
<1>6. Types' /\ Existing'
  BY <1>1, <1>2, <1>3, <1>5 DEF Types, Existing, Exists
<1>7. Entering'
  BY <1>1, <1>2, <1>3, <1>5, ApLabelSet DEF Types, Entering, PresentAp, PresentBsp, BspPath
<1>8. Stage(b)'
  <2>1. \A S : Awaits(b, S) => (l \in S \cup {"giveUp"} <=> pc[c] \in S \cup {"giveUp"})
    BY <1>1, LateCounted
  <2> QED
    BY <1>1, <1>2, <1>3, <1>4, <1>5, <2>1, StageKept
<1>9. Follows(b, c)'
  BY <1>1, <1>2, <1>5, ReleasesKept DEF Follows, Early, Out
<1>10. Locks(b, c)'
  BY <1>5 DEF Locks
<1>11. bsp'[c] = b
  BY <1>1, <1>2, <1>4 DEF PresentAp
<1>12. Running(b)'
  <2>1. pc[b] \notin {"startBusy", "startRelease", "startWait"}
    BY <1>5 DEF Resets, After
  <2> QED
    BY <1>1, <1>2, <1>3, <1>4, <1>5, <1>8, <1>9, <1>10, <1>11, <2>1, OtherStep
<1> QED
  BY <1>6, <1>7, <1>12 DEF RunInv

\* ApSignals keeps RunInv.
LEMMA ApSignalsKeeps ==
  ASSUME RunInv, NEW c \in Cpus, ApSignals(c)
  PROVE  RunInv'
<1>1. PICK l : /\ pc' = [pc EXCEPT ![c] = l]
               /\ \/ pc[c] = "apArrived" /\ l = IF mode.mtrr THEN "apBackup" ELSE "apLoop"
                  \/ pc[c] = "apBackedUp" /\ l = "apProgram"
                  \/ pc[c] = "apProgrammed" /\ l = "apLoop"
                  \/ pc[c] = "apTasksDone" /\ l = "apRestore"
                  \/ pc[c] = "apReset" /\ l = "apClear"
                  \/ pc[c] = "apDone" /\ l = "leave"
  BY Tables, SignalTable DEF ApSignals, Goto
<1>2. /\ run' = [run EXCEPT ![bsp[c]] = @ + 1]
      /\ bsp' = IF pc[c] = "apDone" THEN [bsp EXCEPT ![c] = None] ELSE bsp
      /\ UNCHANGED <<mode, pending, topLevel, sampled, counter, insideSmm, allCpusInSync,
                     bspIndex, present, busy, apCount, index, waiting, target>>
  BY DEF ApSignals, Release, smis, sync, handler
<1>3. Types /\ Existing /\ Entering
  BY DEF RunInv
<1>4. PICK b \in Cpus \ {c} :
        Running(b) /\ Follows(b, c) /\ Locks(b, c) /\ Stage(b) /\ bsp[c] = b
  BY <1>1, InRun, ApLabelSet DEF Early, PresentAp
<1>5. /\ pc'[b] = pc[b] /\ pc'[c] = l /\ l \in Everywhere \ BspPath
      /\ l \in ApLabels \cup {"leave"} /\ pc[c] \in ApLabels
      /\ run[c] = 0 /\ run'[c] = 0 /\ run'[b] = run[b] + 1
      /\ \A a \in Cpus \ {b, c} : run'[a] = run[a] /\ bsp'[a] = bsp[a]
  <2>1. l \in Everywhere \ BspPath /\ l \in ApLabels \cup {"leave"} /\ pc[c] \in ApLabels
    BY <1>1, ApLabelSet DEF Everywhere, BspPath, Out
  <2>2. run[c] = 0
    BY <1>1, <1>4 DEF Follows
  <2> QED
    BY <1>1, <1>2, <1>3, <1>4, <2>1, <2>2 DEF Types
<1>6. Types' /\ Existing'
  BY <1>1, <1>2, <1>3, <1>5 DEF Types, Existing, Exists
<1>7. Entering'
  BY <1>1, <1>2, <1>3, ApLabelSet DEF Types, Entering, PresentAp, PresentBsp, BspPath
<1>8. Stage(b)'
  <2>1. /\ pc[c] = "apArrived" => Awaits(b, UpToArrived)
        /\ pc[c] = "apBackedUp" => Awaits(b, UpToBackedUp)
        /\ pc[c] = "apProgrammed" => Awaits(b, UpToProgrammed)
        /\ pc[c] = "apTasksDone" => Awaits(b, UpToTasksDone)
        /\ pc[c] = "apReset" => Awaits(b, UpToReset)
        /\ pc[c] = "apDone" => Awaits(b, UpToDone)
    BY <1>1, <1>4 DEF Awaits, Follows, Seen, Backups, Programs, Exits, Restores, Resets, After,
       Unsettled, Running
  <2>2. \E S : Awaits(b, S)
    BY <1>1, <2>1
  <2>3. \A S, T : Awaits(b, S) /\ Awaits(b, T) => S = T
    BY DEF Awaits, Open, Handling
  <2>4. \A S : Awaits(b, S) => l \notin S \cup {"giveUp"} /\ pc[c] \in S
    BY <1>1, <2>1, <2>3 DEF UpToArrived, UpToBackedUp, UpToProgrammed, UpToTasksDone,
       UpToReset, UpToDone
  <2>5. \/ pc[b] \in {"releaseReset", "bspAbsent", "waitReset", "forget", "reopen"}
        \/ l \in ApLabels <=> pc[c] \in ApLabels
    BY <1>1, <1>4, <1>5, ApLabelSet DEF Follows, Resets, After
  <2> QED
    BY <1>1, <1>2, <1>3, <1>4, <1>5, <2>2, <2>4, <2>5, StageSignal
<1>9. Follows(b, c)'
  <2>1. mode.mtrr \/ ~mode.mtrr
    OBVIOUS
  <2> QED
    BY <1>1, <1>2, <1>4, <1>5, ReleasesKept DEF Follows, Early, Out
<1>10. Locks(b, c)'
  <2>1. Tasks(b, c) => pc[c] \notin PresentAp
    BY <1>1, <1>4 DEF Follows, Seen, Backups, Programs, Exits, Restores, Resets, After,
       Unsettled, Open, Handling, Tasks
  <2> QED
    BY <1>1, <1>2, <1>3, <1>4, <1>5, <2>1, ReleasesKept DEF Locks
<1>11. l \in PresentAp \cup {"apDone"} => bsp'[c] = b
  BY <1>1, <1>2, <1>4 DEF PresentAp
<1>12. Running(b)'
  BY <1>1, <1>2, <1>3, <1>4, <1>5, <1>8, <1>9, <1>10, <1>11, OtherStep
<1> QED
  BY <1>6, <1>7, <1>12 DEF RunInv

-----------------------------------------------------------------------------
(******************************** BSPHandler *******************************)

\* Who is on the path of the BSP is the BSP of the run.
LEMMA InBsp ==
  ASSUME RunInv, NEW c \in Cpus, pc[c] \in BspPath
  PROVE  Running(c)
<1>1. ~Idle
  BY DEF Idle, Out, Early, BspPath
<1>2. PICK b \in Cpus : Running(b)
  BY <1>1 DEF RunInv
<1>3. b = c
  BY <1>2 DEF Running, Follows
<1> QED
  BY <1>2, <1>3

\* What is left to show of a step of the BSP to label l of its path.
LEMMA OwnStep ==
  ASSUME RunInv, NEW c \in Cpus, Running(c), pc[c] # "reopen",
         NEW l \in BspPath, l # "reopen",
         pc' = [pc EXCEPT ![c] = l], Types', UNCHANGED <<mode, sampled, bsp>>,
         \A d \in Cpus : pending'[d] => pending[d] \/ Exists(d),
         bspIndex' = bspIndex,
         insideSmm' <=> l \in Inside,
         present'[c] <=> l \in PresentBsp,
         \A a \in Cpus \ {c} : present'[a] = present[a] /\ (busy'[a] = busy[a] \/ present[a]),
         l \in {"startBusy", "startRelease", "startWait"} =>
           target' \in Cpus \ {c} /\ present[target'],
         l = "startRelease" => busy'[target'] = "acquired",
         Suits(l),
         \A a \in Cpus \ {c} : Follows(c, a)' /\ Locks(c, a)',
         Stage(c)'
  PROVE  RunInv'
<1>1. Types /\ Existing /\ Entering
  BY DEF RunInv
<1>2. pc'[c] = l /\ \A a \in Cpus \ {c} : pc'[a] = pc[a]
  BY <1>1 DEF Types
<1>3. Existing'
  BY <1>1, <1>2 DEF Existing, Exists, Running, BspPath
<1>4. Entering'
  <2>1. l \notin ApLabels /\ l \notin PresentAp /\ l \notin {"arrive", "free"}
    BY ApLabelSet DEF BspPath, PresentAp
  <2>2. pc[c] \in BspPath
    BY DEF Running
  <2> QED
    BY <1>1, <1>2, <2>1, <2>2 DEF Entering
<1>5. Running(c)'
  <2>1. bspIndex' = c
    BY DEF Running
  <2>2. \A a \in Cpus \ {c} : pc'[a] \in PresentAp \cup {"apDone"} => bsp'[a] = c
    BY <1>2 DEF Running
  <2>3. Suits(pc[c])'
    BY <1>2 DEF Suits, Gathers
  <2>4. l \in {"startBusy", "startRelease", "startWait"} =>
          target' \in Cpus \ {c} /\ present'[target']
    OBVIOUS
  <2> QED
    BY <1>2, <2>1, <2>2, <2>3, <2>4 DEF Running
<1> QED
  BY <1>3, <1>4, <1>5 DEF RunInv

\* An AP stays in order with a BSP that has done no less for it.
LEMMA Go ==
  ASSUME NEW a, NEW b, Follows(b, a), Locks(b, a),
         pc'[a] = pc[a], run'[a] = run[a], busy'[a] = busy[a], present'[a] = present[a],
         UNCHANGED mode,
         pc[b] \in Unsettled => pc'[b] \in Unsettled',
         Seen(b) => Seen(b)',
         ToBackup(b, a) => ToBackup(b, a)', Backups(b, a) => Backups(b, a)',
         ToProgram(b, a) => ToProgram(b, a)', Programs(b, a) => Programs(b, a)',
         ToExit(b, a) => ToExit(b, a)', Exits(b, a) => Exits(b, a)',
         ToRestore(b, a) => ToRestore(b, a)', Restores(b, a) => Restores(b, a)',
         ToReset(b, a) => ToReset(b, a)', Resets(b, a) => Resets(b, a)',
         Tasks(b, a) /\ busy[a] = "acquired" => Tasks(b, a)',
         (pc[b] = "startRelease" /\ target = a) <=> (pc[b] = "startRelease" /\ target = a)'
  PROVE  Follows(b, a)' /\ Locks(b, a)'
<1>1. Gathers' = Gathers /\ (Task(b, a) => Task(b, a)')
  BY DEF Gathers, Task
<1>2. Follows(b, a)'
  BY <1>1 DEF Follows
<1>3. Locks(b, a)'
  BY DEF Locks
<1> QED
  BY <1>2, <1>3

\* The BSP on the way to the lockdown.
Pre == {"bspEnter", "bspPresent", "clearStatus", "arrival", "sendIpis", "arrival2",
        "sync", "lockdown"}

\* A step of the BSP before the lockdown of the counter keeps RunInv.
LEMMA PreStep ==
  ASSUME RunInv, NEW c \in Cpus, pc[c] \in Pre,
         NEW l \in (Pre \ {"bspEnter"}) \cup (IF Gathers THEN {} ELSE {"lockBusy"}),
         pc' = [pc EXCEPT ![c] = l],
         UNCHANGED <<mode, sampled, bsp, counter, bspIndex, run, busy, target>>,
         Suits(l), Types',
         \A d \in Cpus : pending'[d] => pending[d] \/ Exists(d),
         insideSmm' <=> l \in Inside,
         present'[c] <=> l \in PresentBsp, \A a \in Cpus \ {c} : present'[a] = present[a]
  PROVE  RunInv'
<1>1. Types /\ Running(c) /\ Stage(c)
  BY InBsp DEF RunInv, Pre, BspPath, Running
<1>2. pc'[c] = l /\ \A a \in Cpus \ {c} : pc'[a] = pc[a]
  BY <1>1 DEF Types
<1>3. ASSUME NEW a \in Cpus \ {c}
      PROVE  Follows(c, a)' /\ Locks(c, a)'
  <2>1. Follows(c, a) /\ Locks(c, a)
    BY <1>1 DEF Running
  <2>2. l \in Unsettled' \ {"bspEnter"} /\ Gathers' = Gathers
    BY DEF Unsettled, Open, Pre, Gathers, Handling
  <2>3. /\ ~ToBackup(c, a) /\ ~Backups(c, a) /\ ~ToProgram(c, a) /\ ~Programs(c, a)
        /\ ~ToExit(c, a) /\ ~Exits(c, a) /\ ~ToRestore(c, a) /\ ~Restores(c, a)
        /\ ~ToReset(c, a) /\ ~Resets(c, a) /\ ~Tasks(c, a) /\ pc[c] # "startRelease"
    BY DEF Pre, ToBackup, Backups, ToProgram, Programs, ToExit, Exits, ToRestore, Restores,
       ToReset, Resets, Tasks, Before, After, Handling
  <2>4. Seen(c)' /\ l # "startRelease"
    BY <1>2, <2>2 DEF Seen, Pre
  <2> QED
    BY <1>2, <2>1, <2>2, <2>3, <2>4, Go
<1>4. Stage(c)'
  <2>1. /\ Cardinality(At(pc', ApLabels, c)) = Cardinality(At(pc, ApLabels, c))
        /\ Owed(UpToArrived, c)' = Owed(UpToArrived, c)
    BY <1>1, AtOwn DEF Owed
  <2>2. Gathers' = Gathers /\ Open' = Open /\ pc[c] \in Open /\ l \in Open
    BY DEF Gathers, Open, Pre, Handling
  <2>3. l \in Handling \cup {"exit"} => ~Gathers
    BY DEF Pre, Handling
  <2> QED
    BY <1>1, <1>2, <2>1, <2>2, <2>3 DEF Stage, Pre
<1>5. /\ l \in BspPath /\ l \notin {"startBusy", "startRelease", "startWait"}
      /\ l # "reopen" /\ pc[c] # "reopen"
  BY DEF Pre, BspPath
<1> QED
  BY <1>1, <1>3, <1>4, <1>5, OwnStep

\* BspEnter keeps RunInv.
LEMMA BspEnterKeeps ==
  ASSUME RunInv, NEW c \in Cpus, BspEnter(c)
  PROVE  RunInv'
<1>1. /\ pc[c] = "bspEnter" /\ pc' = [pc EXCEPT ![c] = "bspPresent"] /\ insideSmm'
      /\ UNCHANGED <<mode, pending, topLevel, sampled, bsp, counter, allCpusInSync, bspIndex,
                     present, run, busy, apCount, index, waiting, target>>
  BY DEF BspEnter, Goto, smis, locals, cpuData, handler
<1>2. Types' /\ ~present[c]
  BY <1>1 DEF RunInv, Types, Everywhere, BspPath, Entering, PresentAp, PresentBsp
<1>3. /\ pc[c] \in Pre /\ "bspPresent" \in Pre \ {"bspEnter"} /\ Suits("bspPresent")
      /\ "bspPresent" \in Inside /\ "bspPresent" \notin PresentBsp
  BY <1>1 DEF Pre, Suits, Inside, PresentBsp, BspPath
<1> QED
  BY <1>1, <1>2, <1>3, PreStep

\* BspPresent keeps RunInv.
LEMMA BspPresentKeeps ==
  ASSUME RunInv, NEW c \in Cpus, BspPresent(c)
  PROVE  RunInv'
<1>1. /\ pc[c] = "bspPresent" /\ pc' = [pc EXCEPT ![c] = "clearStatus"]
      /\ present' = [present EXCEPT ![c] = TRUE]
      /\ UNCHANGED <<mode, pending, topLevel, sampled, bsp, counter, insideSmm, allCpusInSync,
                     bspIndex, run, busy, apCount, index, waiting, target>>
  BY DEF BspPresent, Goto, smis, locals, sync, handler
<1>2. /\ pc[c] \in Pre /\ "clearStatus" \in Pre \ {"bspEnter"} /\ Suits("clearStatus")
      /\ "clearStatus" \in Inside /\ "clearStatus" \in PresentBsp
      /\ pc[c] \in BspPath /\ pc[c] \in Inside
  BY <1>1 DEF Pre, Suits, Inside, PresentBsp, BspPath
<1>3. Types' /\ present'[c] /\ \A a \in Cpus \ {c} : present'[a] = present[a]
  BY <1>1 DEF RunInv, Types, Everywhere, BspPath
<1>4. insideSmm
  BY <1>2, InBsp DEF Running
<1> QED
  BY <1>1, <1>2, <1>3, <1>4, PreStep

\* The steps that only go on to the lockdown.
LEMMA PreGoes ==
  ASSUME RunInv, NEW c \in Cpus, pc[c] \in Pre \ {"bspEnter", "bspPresent"},
         NEW l \in (Pre \ {"bspEnter", "bspPresent"})
                   \cup (IF Gathers THEN {} ELSE {"lockBusy"}),
         pc' = [pc EXCEPT ![c] = l], Suits(l), Types',
         \A d \in Cpus : pending'[d] => pending[d] \/ Exists(d),
         UNCHANGED <<mode, sampled, bsp, counter, insideSmm, bspIndex, present, run, busy, target>>
  PROVE  RunInv'
<1>1. /\ pc[c] \in BspPath /\ pc[c] \in Inside /\ pc[c] \in PresentBsp
      /\ l \in Inside /\ l \in PresentBsp
  BY DEF Pre, BspPath, Inside, PresentBsp
<1>2. insideSmm /\ present[c]
  BY <1>1, InBsp DEF Running, RunInv, Entering
<1>3. l \in (Pre \ {"bspEnter"}) \cup (IF Gathers THEN {} ELSE {"lockBusy"})
  OBVIOUS
<1>4. insideSmm' /\ present'[c] /\ \A a \in Cpus \ {c} : present'[a] = present[a]
  BY <1>2
<1> QED
  BY <1>1, <1>3, <1>4, PreStep

\* ClearTopLevelSmiStatus keeps RunInv.
LEMMA ClearTopLevelSmiStatusKeeps ==
  ASSUME RunInv, NEW c \in Cpus, ClearTopLevelSmiStatus(c)
  PROVE  RunInv'
<1>1. PICK l : /\ pc[c] = "clearStatus" /\ pc' = [pc EXCEPT ![c] = l]
               /\ l = IF Gathers THEN "arrival" ELSE "lockBusy"
  BY DEF ClearTopLevelSmiStatus, Goto
<1>2. /\ ~topLevel'
      /\ UNCHANGED <<mode, pending, sampled, bsp, counter, insideSmm, allCpusInSync, bspIndex,
                     present, run, busy, apCount, index, waiting, target>>
  BY DEF ClearTopLevelSmiStatus, locals, sync, cpuData, handler
<1>3. Types'
  BY <1>1, <1>2 DEF ClearTopLevelSmiStatus, RunInv, Types, Everywhere, BspPath
<1>4. /\ pc[c] \in Pre \ {"bspEnter", "bspPresent"} /\ Suits(l)
      /\ l \in (Pre \ {"bspEnter", "bspPresent"})
               \cup (IF Gathers THEN {} ELSE {"lockBusy"})
  BY <1>1 DEF Pre, Suits
<1> QED
  BY <1>1, <1>2, <1>3, <1>4, PreGoes

\* ArrivalTimeout keeps RunInv.
LEMMA ArrivalTimeoutKeeps ==
  ASSUME RunInv, NEW c \in Cpus, ArrivalTimeout(c)
  PROVE  RunInv'
<1>1. PICK l \in {"sync", "sendIpis"} :
        /\ pc[c] = "arrival" /\ pc' = [pc EXCEPT ![c] = l]
        /\ index' \in {0, N} /\ waiting' = 0
        /\ UNCHANGED <<mode, pending, topLevel, sampled, bsp, counter, insideSmm, allCpusInSync,
                       bspIndex, present, run, busy, apCount, target>>
  BY Tables DEF ArrivalTimeout, Continue, Goto, smis, locals, sync, cpuData
<1>2. Types'
  BY <1>1, Constants DEF RunInv, Types, Everywhere, BspPath
<1>3. pc[c] \in Pre \ {"bspEnter", "bspPresent"} /\ l \in Pre \ {"bspEnter", "bspPresent"}
  BY <1>1 DEF Pre
<1>4. Suits(l)
  BY <1>1, InBsp DEF Running, Suits, BspPath
<1> QED
  BY <1>1, <1>2, <1>3, <1>4, PreGoes

\* SendSmiIpis keeps RunInv.
LEMMA SendSmiIpisKeeps ==
  ASSUME RunInv, NEW c \in Cpus, SendSmiIpis(c)
  PROVE  RunInv'
<1>1. /\ pc[c] = "sendIpis" /\ pc' = pc /\ index > 0 /\ index' = index - 1
      /\ UNCHANGED <<mode, topLevel, sampled, bsp, counter, insideSmm, allCpusInSync,
                     bspIndex, present, run, busy, apCount, waiting, target>>
  BY DEF SendSmiIpis, Turn, locals, sync, cpuData
<1>2. Types /\ index \in 0 .. N
  BY Constants DEF RunInv, Types
<1>3. This \in Cpus
  BY <1>1, <1>2, Constants DEF This
<1>4. /\ pending' \in [Cpus -> BOOLEAN]
      /\ \A d \in Cpus : pending'[d] => pending[d] \/ Exists(d)
  BY <1>2, <1>3 DEF SendSmiIpis, SendSmiIpi, Types
<1>5. Types' /\ pc' = [pc EXCEPT ![c] = "sendIpis"]
  BY <1>1, <1>2, <1>4, Constants DEF Types
<1>6. pc[c] \in Pre \ {"bspEnter", "bspPresent"} /\ "sendIpis" \in Pre \ {"bspEnter", "bspPresent"}
  BY <1>1 DEF Pre
<1>7. Suits("sendIpis")
  BY <1>1, InBsp DEF Running, Suits, BspPath
<1> QED
  BY <1>1, <1>4, <1>5, <1>6, <1>7, PreGoes

\* ArrivalTimeout2 keeps RunInv.
LEMMA ArrivalTimeout2Keeps ==
  ASSUME RunInv, NEW c \in Cpus, ArrivalTimeout2(c)
  PROVE  RunInv'
<1>1. /\ pc[c] = "arrival2" /\ pc' = [pc EXCEPT ![c] = "sync"]
      /\ UNCHANGED <<mode, pending, topLevel, sampled, bsp, counter, insideSmm, allCpusInSync,
                     bspIndex, present, run, busy, apCount, index, waiting, target>>
  BY DEF ArrivalTimeout2, Goto, smis, locals, sync, cpuData, handler
<1>2. Types' /\ pc[c] \in Pre \ {"bspEnter", "bspPresent"} /\ Suits("sync")
      /\ "sync" \in Pre \ {"bspEnter", "bspPresent"}
  BY <1>1 DEF RunInv, Types, Everywhere, BspPath, Pre, Suits
<1> QED
  BY <1>1, <1>2, PreGoes

\* SetInSync keeps RunInv.
LEMMA SetInSyncKeeps ==
  ASSUME RunInv, NEW c \in Cpus, SetInSync(c)
  PROVE  RunInv'
<1>1. /\ pc[c] = "sync" /\ pc' = [pc EXCEPT ![c] = "lockdown"] /\ allCpusInSync'
      /\ UNCHANGED <<mode, pending, topLevel, sampled, bsp, counter, insideSmm,
                     bspIndex, present, run, busy, apCount, index, waiting, target>>
  BY DEF SetInSync, Goto, smis, locals, cpuData, handler
<1>2. Types' /\ pc[c] \in Pre \ {"bspEnter", "bspPresent"} /\ Suits("lockdown")
      /\ "lockdown" \in Pre \ {"bspEnter", "bspPresent"}
  BY <1>1 DEF SetInSync, RunInv, Types, Everywhere, BspPath, Pre, Suits
<1> QED
  BY <1>1, <1>2, PreGoes

\* Lockdown keeps RunInv.
LEMMA LockdownKeeps ==
  ASSUME RunInv, NEW c \in Cpus, Lockdown(c)
  PROVE  RunInv'
<1>1. PICK l : /\ pc[c] = "lockdown" /\ pc' = [pc EXCEPT ![c] = l]
               /\ l = IF Gathers THEN "waitArrival" ELSE "allPresent"
               /\ index' = 0 /\ waiting' = IF Gathers THEN counter - 1 ELSE 0
  BY Tables DEF Lockdown, Continue, Goto, AllButBsp
<1>2. /\ counter' = Locked /\ apCount' = counter - 1
      /\ UNCHANGED <<mode, pending, topLevel, sampled, bsp, insideSmm, allCpusInSync, bspIndex,
                     present, run, busy, target>>
  BY DEF Lockdown, AllButBsp, smis, locals, cpuData
<1>3. /\ Types /\ Running(c) /\ Stage(c) /\ insideSmm /\ present[c]
      /\ pc'[c] = l /\ \A a \in Cpus \ {c} : pc'[a] = pc[a]
  <2>1. pc[c] \in BspPath /\ pc[c] \in Inside /\ pc[c] \in PresentBsp
    BY <1>1 DEF BspPath, Inside, PresentBsp
  <2> QED
    BY <1>1, <2>1, InBsp DEF Running, RunInv, Types, Entering
<1>4. /\ counter = 1 + Cardinality(At(pc, ApLabels, c))
      /\ counter - 1 \in Counts
      /\ ~Gathers => run[c] = 0
      /\ Gathers => counter - 1 = Owed(UpToArrived, c)
  <2>1. Cardinality(At(pc, ApLabels, c)) \in 0 .. N - 1
    BY AtCount
  <2>2. /\ counter = 1 + Cardinality(At(pc, ApLabels, c))
        /\ ~Gathers => run[c] = 0
        /\ Gathers => counter - 1 = Owed(UpToArrived, c)
    BY <1>1, <1>3 DEF Stage, Open
  <2> QED
    BY <2>1, <2>2, Constants
<1>5. Types'
  <2>1. l \in Everywhere /\ 0 \in Counts /\ Locked \in 0 .. Locked
    BY <1>1, Constants DEF Everywhere, BspPath
  <2> QED
    BY <1>1, <1>2, <1>3, <1>4, <2>1 DEF Types
<1>6. ASSUME NEW a \in Cpus \ {c}
      PROVE  Follows(c, a)' /\ Locks(c, a)'
  <2>1. Follows(c, a) /\ Locks(c, a)
    BY <1>3 DEF Running
  <2>2. l \in Unsettled' /\ Seen(c)'
    BY <1>1, <1>2, <1>3 DEF Seen, Unsettled, Gathers
  <2>3. /\ ~ToBackup(c, a) /\ ~Backups(c, a) /\ ~ToProgram(c, a) /\ ~Programs(c, a)
        /\ ~ToExit(c, a) /\ ~Exits(c, a) /\ ~ToRestore(c, a) /\ ~Restores(c, a)
        /\ ~ToReset(c, a) /\ ~Resets(c, a) /\ ~Tasks(c, a) /\ l # "startRelease"
    BY <1>1 DEF ToBackup, Backups, ToProgram, Programs, ToExit, Exits, ToRestore, Restores,
       ToReset, Resets, Tasks, Before, After, Handling
  <2> QED
    BY <1>1, <1>2, <1>3, <2>1, <2>2, <2>3, Go
<1>7. Stage(c)'
  <2>1. /\ Cardinality(At(pc', ApLabels, c)) = Cardinality(At(pc, ApLabels, c))
        /\ Owed(UpToArrived, c)' = Owed(UpToArrived, c)
    BY <1>1, <1>2, <1>3, AtOwn DEF Owed
  <2>2. Cardinality(At(pc, ApLabels, c)) \in Nat /\ Owed(UpToArrived, c) \in Nat
    BY <1>3, AtCount DEF Owed, Types
  <2>3. l \notin Open' /\ l \notin Handling \cup {"exit"}
    BY <1>1 DEF Open, Handling
  <2> QED
    BY <1>1, <1>2, <1>3, <1>4, <2>1, <2>2, <2>3, Constants DEF Stage
<1>8. l \in BspPath /\ l \in Inside /\ l \in PresentBsp /\ Suits(l)
  BY <1>1 DEF BspPath, Inside, PresentBsp, Suits
<1> QED
  BY <1>1, <1>2, <1>3, <1>5, <1>6, <1>7, <1>8, OwnStep

\* The BSP while it serves the SMI.
Serving == {"lockBusy", "handlers", "startBusy", "startRelease", "startWait"}

\* What Follows and Locks make of the stages of the BSP then.
LEMMA ServingOnly ==
  ASSUME NEW c, pc[c] \in Serving, NEW a
  PROVE  /\ ~ToBackup(c, a) /\ ~Backups(c, a) /\ ~ToProgram(c, a) /\ ~Programs(c, a)
         /\ ToExit(c, a) /\ ~Exits(c, a) /\ ~ToRestore(c, a) /\ ~Restores(c, a)
         /\ ~ToReset(c, a) /\ ~Resets(c, a) /\ (Tasks(c, a) <=> pc[c] # "lockBusy")
  BY DEF Serving, ToBackup, Backups, ToProgram, Programs, ToExit, Exits, ToRestore, Restores,
     ToReset, Resets, Tasks, Before, After, Handling

\* A step of the BSP in the handlers leaves what its stage says.
LEMMA ServingStage ==
  ASSUME Types, NEW c \in Cpus, pc[c] \in Serving, Stage(c), NEW l \in Serving \cup {"drain"},
         pc' = [pc EXCEPT ![c] = l], run'[c] = run[c],
         UNCHANGED <<mode, counter, apCount>>
  PROVE  Stage(c)'
<1>1. /\ Cardinality(At(pc', ApLabels, c)) = Cardinality(At(pc, ApLabels, c))
      /\ Owed(UpToArrived, c)' = Owed(UpToArrived, c)
  BY AtOwn DEF Owed
<1>2. pc'[c] = l
  BY DEF Types
<1>3. /\ Gathers' = Gathers /\ pc[c] \in Handling /\ l \in Handling
      /\ l \in Open' <=> pc[c] \in Open
  BY DEF Gathers, Open, Serving, Handling
<1> QED
  BY <1>1, <1>2, <1>3 DEF Stage, Handling, BspPath

\* A step of the BSP that starts nothing on an AP.
LEMMA ServingStep ==
  ASSUME RunInv, NEW c \in Cpus, pc[c] \in Serving \ {"startRelease"},
         NEW l \in (Serving \ {"lockBusy", "startRelease"}) \cup {"drain"},
         pc' = [pc EXCEPT ![c] = l], Types', l = "drain" => index' = N,
         UNCHANGED <<mode, pending, sampled, bsp, counter, insideSmm, bspIndex, present, run,
                     apCount>>,
         \A a \in Cpus \ {c} : busy'[a] = busy[a],
         l \in {"startBusy", "startWait"} => target' \in Cpus \ {c} /\ present[target']
  PROVE  RunInv'
<1>1. pc[c] \in BspPath /\ pc[c] \in Inside /\ pc[c] \in PresentBsp /\ pc[c] # "reopen"
  BY DEF Serving, BspPath, Inside, PresentBsp
<1>2. /\ Types /\ Running(c) /\ Stage(c) /\ insideSmm /\ present[c]
      /\ pc'[c] = l /\ \A a \in Cpus \ {c} : pc'[a] = pc[a]
  BY <1>1, InBsp DEF Running, RunInv, Types, Entering
<1>3. Stage(c)'
  BY <1>2, ServingStage
<1>4. ASSUME NEW a \in Cpus \ {c}
      PROVE  Follows(c, a)' /\ Locks(c, a)'
  <2>1. Follows(c, a) /\ Locks(c, a)
    BY <1>2 DEF Running
  <2>2. /\ pc[c] \in Unsettled => l \in Unsettled'
        /\ Seen(c) => Seen(c)'
    BY <1>2 DEF Seen, Unsettled, Open, Gathers, Serving, Handling
  <2>3. a < N
    BY Constants
  <2>4. ToExit(c, a)' /\ Tasks(c, a)'
    BY <1>2, <2>3 DEF ToExit, Tasks, Serving, Handling
  <2>5. pc[c] # "startRelease" /\ l # "startRelease"
    OBVIOUS
  <2> QED
    BY <1>2, <2>1, <2>2, <2>4, <2>5, ServingOnly, Go
<1>5. /\ l \in BspPath /\ l \in Inside /\ l \in PresentBsp /\ Suits(l)
      /\ l \notin {"startRelease", "reopen"}
  BY DEF Serving, BspPath, Inside, PresentBsp, Suits
<1> QED
  BY <1>1, <1>2, <1>3, <1>4, <1>5, OwnStep

\* LockBusy keeps RunInv.
LEMMA LockBusyKeeps ==
  ASSUME RunInv, NEW c \in Cpus, LockBusy(c)
  PROVE  RunInv'
<1>1. /\ pc[c] = "lockBusy" /\ pc' = [pc EXCEPT ![c] = "handlers"]
      /\ busy' = [busy EXCEPT ![c] = "acquired"]
      /\ UNCHANGED <<mode, pending, topLevel, sampled, bsp, counter, insideSmm, allCpusInSync,
                     bspIndex, present, run, apCount, index, waiting, target>>
  BY DEF LockBusy, Goto, smis, locals, sync, handler
<1>2. Types' /\ \A a \in Cpus \ {c} : busy'[a] = busy[a]
  BY <1>1 DEF RunInv, Types, Everywhere, BspPath
<1>3. pc[c] \in Serving \ {"startRelease"} /\ "handlers" \in Serving \ {"lockBusy", "startRelease"}
  BY <1>1 DEF Serving
<1> QED
  BY <1>1, <1>2, <1>3, ServingStep

\* StartupThisAp keeps RunInv.
LEMMA StartupThisApKeeps ==
  ASSUME RunInv, NEW c \in Cpus, NEW a \in Cpus, StartupThisAp(c, a)
  PROVE  RunInv'
<1>1. /\ pc[c] = "handlers" /\ pc' = [pc EXCEPT ![c] = "startBusy"]
      /\ a # c /\ present[a] /\ target' = a
      /\ UNCHANGED <<mode, pending, topLevel, sampled, bsp, counter, insideSmm, allCpusInSync,
                     bspIndex, present, run, busy, apCount, index, waiting>>
  BY DEF StartupThisAp, Goto, smis, locals, sync, cpuData
<1>2. Types'
  BY <1>1 DEF RunInv, Types, Everywhere, BspPath
<1>3. pc[c] \in Serving \ {"startRelease"} /\ "startBusy" \in Serving \ {"lockBusy", "startRelease"}
  BY <1>1 DEF Serving
<1> QED
  BY <1>1, <1>2, <1>3, ServingStep

\* StartupReturns keeps RunInv.
LEMMA StartupReturnsKeeps ==
  ASSUME RunInv, NEW c \in Cpus, StartupFails(c) \/ StartupWaits(c)
  PROVE  RunInv'
<1>1. /\ pc[c] \in {"startBusy", "startWait"} /\ pc' = [pc EXCEPT ![c] = "handlers"]
      /\ target' = None
      /\ UNCHANGED <<mode, pending, topLevel, sampled, bsp, counter, insideSmm, allCpusInSync,
                     bspIndex, present, run, busy, apCount, index, waiting>>
  BY DEF StartupFails, StartupWaits, StartupReturns, Goto, smis, locals, sync
<1>2. Types'
  BY <1>1 DEF RunInv, Types, Everywhere, BspPath
<1>3. pc[c] \in Serving \ {"startRelease"} /\ "handlers" \in Serving \ {"lockBusy", "startRelease"}
  BY <1>1 DEF Serving
<1> QED
  BY <1>1, <1>2, <1>3, ServingStep

\* HandlersReturn keeps RunInv.
LEMMA HandlersReturnKeeps ==
  ASSUME RunInv, NEW c \in Cpus, HandlersReturn(c)
  PROVE  RunInv'
<1>1. /\ pc[c] = "handlers" /\ pc' = [pc EXCEPT ![c] = "drain"]
      /\ index' = N /\ waiting' = 0
      /\ UNCHANGED <<mode, pending, topLevel, sampled, bsp, counter, insideSmm, allCpusInSync,
                     bspIndex, present, run, busy, apCount, target>>
  BY Tables DEF HandlersReturn, Continue, Goto, smis, locals, sync, cpuData
<1>2. Types'
  BY <1>1, Constants DEF RunInv, Types, Everywhere, BspPath
<1>3. pc[c] \in Serving \ {"startRelease"}
  BY <1>1 DEF Serving
<1> QED
  BY <1>1, <1>2, <1>3, ServingStep

\* StartupLocks keeps RunInv.
LEMMA StartupLocksKeeps ==
  ASSUME RunInv, NEW c \in Cpus, StartupLocks(c)
  PROVE  RunInv'
<1>1. /\ pc[c] = "startBusy" /\ pc' = [pc EXCEPT ![c] = "startRelease"]
      /\ busy' = [busy EXCEPT ![target] = "acquired"] /\ busy[target] = "released"
      /\ UNCHANGED <<mode, pending, topLevel, sampled, bsp, counter, insideSmm, allCpusInSync,
                     bspIndex, present, run, apCount, index, waiting, target>>
  BY DEF StartupLocks, Goto, smis, locals, sync, handler
<1>2. pc[c] \in Serving /\ pc[c] \in BspPath /\ pc[c] \in Inside /\ pc[c] \in PresentBsp
  BY <1>1 DEF Serving, BspPath, Inside, PresentBsp
<1>3. /\ Types /\ Running(c) /\ Stage(c) /\ insideSmm /\ present[c]
      /\ target \in Cpus \ {c} /\ present[target]
      /\ pc'[c] = "startRelease" /\ \A a \in Cpus \ {c} : pc'[a] = pc[a]
  BY <1>1, <1>2, InBsp DEF Running, RunInv, Types, Entering
<1>4. Types'
  BY <1>1, <1>3 DEF Types, Everywhere, BspPath
<1>5. Stage(c)'
  BY <1>1, <1>2, <1>3, ServingStage DEF Serving
<1>6. ASSUME NEW a \in Cpus \ {c}
      PROVE  Follows(c, a)' /\ Locks(c, a)'
  <2>1. Follows(c, a) /\ Locks(c, a)
    BY <1>3 DEF Running
  <2>2. /\ pc[c] \in Unsettled => pc'[c] \in Unsettled'
        /\ Seen(c) => Seen(c)'
        /\ ToExit(c, a)' /\ Tasks(c, a) /\ Tasks(c, a)'
    BY <1>1, <1>3 DEF Seen, Unsettled, Open, Gathers, Handling, ToExit, Tasks
  <2>3. CASE a # target
    <3>1. busy'[a] = busy[a] /\ ~(pc[c] = "startRelease" /\ target = a)
          /\ ~(pc[c] = "startRelease" /\ target = a)'
      BY <1>1, <1>3, <2>3 DEF Types
    <3> QED
      BY <1>1, <1>2, <1>3, <2>1, <2>2, <3>1, ServingOnly, Go
  <2>4. CASE a = target
    <3>1. ~Task(c, a) /\ busy'[a] = "acquired"
      BY <1>1, <1>3, <2>4 DEF Task, Types
    <3>2. Follows(c, a)'
      BY <1>1, <1>2, <1>3, <2>1, <2>2, <3>1, ServingOnly DEF Follows, Gathers
    <3>3. Locks(c, a)'
      BY <1>1, <1>3, <2>4, <3>1 DEF Locks
    <3> QED
      BY <3>2, <3>3
  <2> QED
    BY <2>3, <2>4
<1>7. /\ "startRelease" \in BspPath /\ "startRelease" \in Inside /\ "startRelease" \in PresentBsp
      /\ Suits("startRelease") /\ pc[c] # "reopen" /\ busy'[target'] = "acquired"
      /\ \A a \in Cpus \ {c} : busy'[a] = busy[a] \/ present[a]
  BY <1>1, <1>3 DEF BspPath, Inside, PresentBsp, Suits, Types
<1> QED
  BY <1>1, <1>3, <1>4, <1>5, <1>6, <1>7, OwnStep

\* StartupReleases keeps RunInv.
LEMMA StartupReleasesKeeps ==
  ASSUME RunInv, NEW c \in Cpus, StartupReleases(c)
  PROVE  RunInv'
<1>1. PICK l : /\ pc[c] = "startRelease" /\ pc' = [pc EXCEPT ![c] = l]
               /\ \/ l = "startWait" /\ target' = target
                  \/ l = "handlers" /\ target' = None
  BY DEF StartupReleases, StartupReturns, Goto, handler
<1>2. /\ run' = [run EXCEPT ![target] = @ + 1]
      /\ UNCHANGED <<mode, pending, topLevel, sampled, bsp, counter, insideSmm, allCpusInSync,
                     bspIndex, present, busy, apCount, index, waiting>>
  BY DEF StartupReleases, StartupReturns, Release, smis, locals, sync, handler
<1>3. pc[c] \in Serving /\ pc[c] \in BspPath /\ pc[c] \in Inside /\ pc[c] \in PresentBsp
  BY <1>1 DEF Serving, BspPath, Inside, PresentBsp
<1>4. /\ Types /\ Running(c) /\ Stage(c) /\ insideSmm /\ present[c]
      /\ target \in Cpus \ {c} /\ present[target] /\ busy[target] = "acquired"
      /\ pc'[c] = l /\ \A a \in Cpus \ {c} : pc'[a] = pc[a]
      /\ run'[target] = run[target] + 1 /\ \A a \in Cpus \ {target} : run'[a] = run[a]
  BY <1>1, <1>2, <1>3, InBsp DEF Running, RunInv, Types, Entering
<1>5. Types'
  BY <1>1, <1>2, <1>4 DEF Types, Everywhere, BspPath
<1>6. Stage(c)'
  BY <1>1, <1>2, <1>3, <1>4, ServingStage DEF Serving
<1>7. ASSUME NEW a \in Cpus \ {c}
      PROVE  Follows(c, a)' /\ Locks(c, a)'
  <2>1. Follows(c, a) /\ Locks(c, a)
    BY <1>4 DEF Running
  <2>2. /\ pc[c] \in Unsettled => l \in Unsettled'
        /\ Seen(c) => Seen(c)'
        /\ ToExit(c, a)' /\ Tasks(c, a) /\ Tasks(c, a)'
    BY <1>1, <1>2, <1>4 DEF Seen, Unsettled, Open, Gathers, Handling, ToExit, Tasks
  <2>3. CASE a # target
    <3>1. run'[a] = run[a] /\ ~(pc[c] = "startRelease" /\ target = a)
          /\ ~(pc[c] = "startRelease" /\ target = a)'
      BY <1>1, <1>4, <2>3
    <3> QED
      BY <1>1, <1>2, <1>3, <1>4, <2>1, <2>2, <3>1, ServingOnly, Go
  <2>4. CASE a = target
    <3>1. ~Task(c, a)
      BY <1>1, <2>4 DEF Task
    <3>2. pc[a] \in PresentAp
      BY <1>4, <2>1, <2>4 DEF Entering, RunInv, PresentBsp, Follows
    <3>3. Gathers => pc[c] \notin Unsettled
      BY <1>1 DEF Unsettled, Open
    <3>4. pc[a] = "apLoop" /\ run[a] = 0
      BY <1>3, <2>1, <3>1, <3>2, <3>3, ServingOnly DEF Follows, PresentAp, Seen, Gathers
    <3>5. Task(c, a)' /\ run'[a] = 1 /\ pc'[a] = "apLoop"
      BY <1>1, <1>2, <1>4, <2>2, <2>4, <3>4 DEF Task
    <3>6. Follows(c, a)'
      BY <3>5, ApLabelSet DEF Follows, Everywhere, BspPath, Out, Early
    <3>7. Locks(c, a)'
      BY <1>2, <1>4, <2>2, <2>4, <3>5 DEF Locks
    <3> QED
      BY <3>6, <3>7
  <2> QED
    BY <2>3, <2>4
<1>8. l \in BspPath /\ l \in Inside /\ l \in PresentBsp /\ Suits(l) /\ pc[c] # "reopen"
  BY <1>1 DEF BspPath, Inside, PresentBsp, Suits
<1> QED
  BY <1>1, <1>2, <1>4, <1>5, <1>6, <1>7, <1>8, OwnStep

\* Drain keeps RunInv.
LEMMA DrainKeeps ==
  ASSUME RunInv, NEW c \in Cpus, Drain(c)
  PROVE  RunInv'
<1>1. /\ pc[c] = "drain" /\ pc' = pc /\ index > 0 /\ index' = index - 1
      /\ This = c \/ ~present[This] \/ busy[This] = "released"
      /\ UNCHANGED <<mode, pending, topLevel, sampled, bsp, counter, insideSmm, allCpusInSync,
                     bspIndex, present, run, busy, apCount, waiting, target>>
  BY DEF Drain, Drains, Turn, smis, locals, sync, cpuData
<1>2. pc[c] \in BspPath /\ pc[c] \in Inside /\ pc[c] \in PresentBsp
  BY <1>1 DEF BspPath, Inside, PresentBsp
<1>3. Types /\ Running(c) /\ Stage(c) /\ insideSmm /\ present[c] /\ Suits("drain")
  BY <1>1, <1>2, InBsp DEF Running, RunInv, Types, Entering
<1>4. Types' /\ pc' = [pc EXCEPT ![c] = "drain"] /\ index \in Int
  BY <1>1, <1>3, Constants DEF Types
<1>5. Stage(c)'
  <2>1. Gathers' = Gathers /\ Open' = Open
    BY <1>1 DEF Gathers, Open
  <2> QED
    BY <1>1, <1>3, <2>1 DEF Stage, Owed, At
<1>6. ASSUME NEW a \in Cpus \ {c}
      PROVE  Follows(c, a)' /\ Locks(c, a)'
  <2>1. Follows(c, a) /\ Locks(c, a)
    BY <1>3 DEF Running
  <2>2. /\ pc[c] \in Unsettled => pc'[c] \in Unsettled'
        /\ Seen(c) => Seen(c)'
        /\ ToExit(c, a)'
    BY <1>1 DEF Seen, Unsettled, Open, Gathers, Handling, ToExit
  <2>3. /\ ~ToBackup(c, a) /\ ~Backups(c, a) /\ ~ToProgram(c, a) /\ ~Programs(c, a)
        /\ ~Exits(c, a) /\ ~ToRestore(c, a) /\ ~Restores(c, a)
        /\ ~ToReset(c, a) /\ ~Resets(c, a)
    BY <1>1 DEF ToBackup, Backups, ToProgram, Programs, Exits, ToRestore, Restores,
       ToReset, Resets, Before, After
  <2>4. CASE present[a]
    <3>1. Tasks(c, a) /\ busy[a] = "acquired" => Tasks(c, a)'
      <4>1. a < index /\ ~(a < index - 1) => a = This
        BY <1>4, Constants DEF This
      <4> QED
        BY <1>1, <1>4, <2>4, <4>1, Constants DEF Tasks
    <3>2. ~(pc[c] = "startRelease" /\ target = a) /\ ~(pc[c] = "startRelease" /\ target = a)'
      BY <1>1
    <3> QED
      BY <1>1, <2>1, <2>2, <2>3, <3>1, <3>2, Go
  <2>5. CASE ~present[a]
    <3>1. pc[a] \notin PresentAp
      BY <1>3, <2>5 DEF Entering, RunInv
    <3>2. Follows(c, a)'
      BY <1>1, <2>1, <2>2, <2>3, <3>1 DEF Follows, PresentAp, Gathers
    <3>3. Locks(c, a)'
      BY <1>1, <2>5 DEF Locks
    <3> QED
      BY <3>2, <3>3
  <2> QED
    BY <2>4, <2>5
<1> QED
  BY <1>1, <1>2, <1>3, <1>4, <1>5, <1>6, OwnStep

\* A stage is over: the APs are all at one label, where they wait for what the
\* BSP does next.
Opens(l) ==
  CASE l = "releaseBackup" -> "apBackup"
    [] l = "releaseProgram" -> "apProgram"
    [] l \in {"lockBusy", "exit", "releaseExit"} -> "apLoop"
    [] l = "releaseRestore" -> "apRestore"
    [] l = "releaseReset" -> "apClear"

\* The step after the last AP signalled: all are where the next stage starts.
LEMMA NextStage ==
  ASSUME RunInv, NEW c \in Cpus, Running(c), pc[c] \in BspPath \ Serving, pc[c] # "reopen",
         run[c] = 0, counter = Locked, apCount = Cardinality(At(pc, ApLabels, c)),
         NEW l \in {"releaseBackup", "releaseProgram", "lockBusy", "exit", "releaseExit",
                    "releaseRestore", "releaseReset"},
         l = "lockBusy" => Gathers,
         \A a \in Cpus \ {c} : run[a] = 0 /\ (pc[a] \in Out \/ pc[a] = Opens(l)),
         pc' = [pc EXCEPT ![c] = l], Suits(l), Types',
         l \in DOMAIN AfterLoop => index' = N,
         UNCHANGED <<mode, pending, sampled, bsp, counter, bspIndex, present, run, busy,
                     apCount, target>>,
         present[c], insideSmm' <=> l \in Inside
  PROVE  RunInv'
<1>1. Types /\ pc'[c] = l /\ \A a \in Cpus \ {c} : pc'[a] = pc[a]
  BY DEF RunInv, Types
<1>2. ASSUME NEW a \in Cpus \ {c}
      PROVE  Follows(c, a)' /\ Locks(c, a)'
  <2>1. Follows(c, a) /\ Locks(c, a) /\ a < N
    BY Constants DEF Running
  <2>2. pc'[a] = pc[a] /\ run'[a] = 0 /\ Opens(l) \in ApLabels
    BY <1>1, ApLabelSet DEF Opens
  <2>3. Follows(c, a)'
    <3>1. pc[a] \in Out => Follows(c, a)'
      BY <2>2, ApLabelSet DEF Follows, Out, Early, Everywhere, BspPath
    <3>2. CASE l = "releaseBackup" /\ pc[a] = "apBackup"
      <4>1. ToBackup(c, a)' /\ mode.mtrr
        BY <1>1, <2>1, <3>2, Tables DEF ToBackup, Before, Suits
      <4> QED
        BY <2>2, <3>2, <4>1, ApLabelSet DEF Follows, Out, Early, Everywhere, BspPath
    <3>3. CASE l = "releaseProgram" /\ pc[a] = "apProgram"
      <4>1. ToProgram(c, a)' /\ mode.mtrr
        BY <1>1, <2>1, <3>3, Tables DEF ToProgram, Before, Suits
      <4> QED
        BY <2>2, <3>3, <4>1, ApLabelSet DEF Follows, Out, Early, Everywhere, BspPath
    <3>4. CASE l \in {"lockBusy", "exit", "releaseExit"} /\ pc[a] = "apLoop"
      <4>1. ToExit(c, a)'
        BY <1>1, <2>1, <3>4, Tables DEF ToExit, Before, Handling
      <4> QED
        BY <2>2, <3>4, <4>1, ApLabelSet DEF Follows, Out, Early, Everywhere, BspPath
    <3>5. CASE l = "releaseRestore" /\ pc[a] = "apRestore"
      <4>1. ToRestore(c, a)' /\ mode.mtrr
        BY <1>1, <2>1, <3>5, Tables DEF ToRestore, Before, Suits
      <4> QED
        BY <2>2, <3>5, <4>1, ApLabelSet DEF Follows, Out, Early, Everywhere, BspPath
    <3>6. CASE l = "releaseReset" /\ pc[a] = "apClear"
      <4>1. ToReset(c, a)'
        BY <1>1, <2>1, <3>6, Tables DEF ToReset, Before
      <4> QED
        BY <2>2, <3>6, <4>1, ApLabelSet DEF Follows, Out, Early, Everywhere, BspPath
    <3> QED
      BY <3>1, <3>2, <3>3, <3>4, <3>5, <3>6 DEF Opens
  <2>4. Locks(c, a)'
    <3>1. pc[a] \notin {"apCheck", "apProcedure"} /\ run[a] # 1 /\ pc[c] # "startRelease"
      BY DEF Out, Opens, Serving
    <3> QED
      BY <2>1, <3>1 DEF Locks
  <2> QED
    BY <2>3, <2>4
<1>3. Stage(c)'
  <2>1. ASSUME NEW S, Opens(l) \in S, S \subseteq ApLabels
        PROVE  Owed(S, c)' = apCount
    <3>1. At(pc', S \cup {"giveUp"}, c) = At(pc', ApLabels, c)
      <4>1. S \cup {"giveUp"} \subseteq ApLabels
        BY <2>1, ApLabelSet
      <4>2. \A a \in Cpus \ {c} : pc'[a] \in ApLabels => pc'[a] \in S
        <5>1. ApLabels \cap Out = {}
          BY ApLabelSet DEF Out
        <5> QED
          BY <1>1, <2>1, <5>1
      <4> QED
        BY <4>1, <4>2 DEF At
    <3>2. Cardinality(At(pc', ApLabels, c)) = Cardinality(At(pc, ApLabels, c))
      BY <1>1, AtOwn
    <3>3. Cardinality(At(pc, ApLabels, c)) \in Nat
      BY AtCount
    <3> QED
      BY <3>1, <3>2, <3>3 DEF Owed
  <2>2. /\ l = "releaseBackup" => Owed(UpToBackedUp, c)' = apCount
        /\ l = "releaseProgram" => Owed(UpToProgrammed, c)' = apCount
        /\ l = "releaseExit" => /\ Owed(UpToTasksDone, c)' = apCount
                                /\ Owed(UpToReset, c)' = apCount
        /\ l = "releaseRestore" => Owed(UpToReset, c)' = apCount
        /\ l = "releaseReset" => Owed(UpToDone, c)' = apCount
    BY <2>1 DEF Opens, ApLabels, UpToDone, UpToReset, UpToTasksDone, UpToProgrammed,
       UpToBackedUp, UpToArrived
  <2>3. /\ Cardinality(At(pc', ApLabels, c)) = Cardinality(At(pc, ApLabels, c))
        /\ Cardinality(At(pc, ApLabels, c)) \in Nat
    BY <1>1, AtOwn, AtCount
  <2>4. l \notin Open' \cup Open
    BY DEF Open, Gathers, Handling
  <2> QED
    BY <1>1, <2>2, <2>3, <2>4, Constants DEF Stage
<1>4. l \in BspPath /\ l \in PresentBsp /\ l \notin {"startBusy", "startRelease", "startWait"}
  BY DEF BspPath, PresentBsp
<1> QED
  BY <1>1, <1>2, <1>3, <1>4, OwnStep

\* AllPresent keeps RunInv.
LEMMA AllPresentKeeps ==
  ASSUME RunInv, NEW c \in Cpus, AllPresent(c)
  PROVE  RunInv'
<1>1. /\ pc[c] = "allPresent" /\ pc' = [pc EXCEPT ![c] = "exit"]
      /\ Cardinality({d \in Cpus : present[d]}) > apCount
      /\ UNCHANGED <<mode, pending, topLevel, sampled, bsp, counter, insideSmm, allCpusInSync,
                     bspIndex, present, run, busy, apCount, index, waiting, target>>
  BY DEF AllPresent, Goto, smis, locals, sync, cpuData, handler
<1>2. /\ pc[c] \in BspPath \ Serving /\ pc[c] \in Inside /\ pc[c] \in PresentBsp
      /\ pc[c] # "reopen"
  BY <1>1 DEF BspPath, Inside, PresentBsp, Serving
<1>3. /\ Types /\ Running(c) /\ Stage(c) /\ insideSmm /\ present[c] /\ ~Gathers
  BY <1>1, <1>2, InBsp DEF Running, RunInv, Entering, Suits
<1>4. /\ run[c] = 0 /\ counter \in 0 .. Locked
      /\ apCount = Cardinality(At(pc, ApLabels, c)) + Locked - counter
  BY <1>1, <1>3, Constants DEF Stage, Open, Handling, Types, BspPath
<1>5. counter = Locked /\ \A a \in Cpus \ {c} : pc[a] \in ApLabels => pc[a] \in PresentAp
  <2>1. At(pc, PresentAp, c) \subseteq At(pc, ApLabels, c)
    BY ApLabelSet DEF At, PresentAp
  <2>2. /\ IsFiniteSet(At(pc, ApLabels, c)) /\ Cardinality(At(pc, ApLabels, c)) \in Nat
        /\ IsFiniteSet(At(pc, PresentAp, c)) /\ Cardinality(At(pc, PresentAp, c)) \in Nat
    BY AtCount
  <2>3. /\ Cardinality(At(pc, PresentAp, c)) <= Cardinality(At(pc, ApLabels, c))
        /\ Cardinality(At(pc, PresentAp, c)) = Cardinality(At(pc, ApLabels, c))
             => At(pc, PresentAp, c) = At(pc, ApLabels, c)
    BY <2>1, <2>2, FS_Subset
  <2>4. {d \in Cpus : present[d]} = At(pc, PresentAp, c) \cup {c}
    <3>1. \A a \in Cpus \ {c} : present[a] <=> pc[a] \in PresentAp
      BY <1>3 DEF Running, Follows, Entering, RunInv, PresentBsp
    <3> QED
      BY <1>3, <3>1 DEF At
  <2>5. Cardinality({d \in Cpus : present[d]}) = Cardinality(At(pc, PresentAp, c)) + 1
    BY <2>2, <2>4, FS_AddElement DEF At
  <2>6. /\ Cardinality(At(pc, ApLabels, c)) + Locked - counter
             < Cardinality(At(pc, PresentAp, c)) + 1
    BY <1>1, <1>4, <2>2, <2>5, Constants
  <2>7. /\ counter = Locked
        /\ Cardinality(At(pc, PresentAp, c)) = Cardinality(At(pc, ApLabels, c))
    BY <1>4, <2>2, <2>3, <2>6, Constants
  <2> QED
    BY <2>3, <2>7 DEF At
<1>6. ASSUME NEW a \in Cpus \ {c}
      PROVE  run[a] = 0 /\ (pc[a] \in Out \/ pc[a] = Opens("exit"))
  <2>1. Follows(c, a)
    BY <1>3 DEF Running
  <2>2. ~mode.mtrr
    BY <1>3 DEF Gathers
  <2>3. /\ ~Exits(c, a) /\ ~Task(c, a) /\ ~Resets(c, a) /\ ~ToReset(c, a)
    BY <1>1 DEF Exits, Task, Tasks, Resets, ToReset, Before, After
  <2>4. pc[a] \in Out \/ pc[a] \in PresentAp
    BY <1>5, <2>1 DEF Follows, Everywhere
  <2> QED
    BY <1>3, <2>1, <2>2, <2>3, <2>4 DEF Follows, PresentAp, Opens
<1>7. apCount = Cardinality(At(pc, ApLabels, c))
  <2>1. Cardinality(At(pc, ApLabels, c)) \in Nat
    BY AtCount
  <2> QED
    BY <1>4, <1>5, <2>1, Constants
<1>8. Types' /\ Suits("exit") /\ "exit" \in Inside /\ "exit" \notin DOMAIN AfterLoop
  BY <1>1, <1>3, Tables DEF Types, Everywhere, BspPath, Suits, Inside
<1> QED
  BY <1>1, <1>2, <1>3, <1>4, <1>5, <1>6, <1>7, <1>8, NextStage

\* NotInside keeps RunInv.
LEMMA NotInsideKeeps ==
  ASSUME RunInv, NEW c \in Cpus, NotInside(c)
  PROVE  RunInv'
<1>1. /\ pc[c] = "exit" /\ pc' = [pc EXCEPT ![c] = "releaseExit"]
      /\ insideSmm' = FALSE /\ index' = N /\ waiting' = 0
      /\ UNCHANGED <<mode, pending, topLevel, sampled, bsp, counter, allCpusInSync,
                     bspIndex, present, run, busy, apCount, target>>
  BY Tables DEF NotInside, Continue, Goto, smis, locals, cpuData
<1>2. /\ pc[c] \in BspPath \ Serving /\ pc[c] \in PresentBsp /\ pc[c] # "reopen"
  BY <1>1 DEF BspPath, PresentBsp, Serving
<1>3. Types /\ Running(c) /\ Stage(c) /\ present[c]
  BY <1>1, <1>2, InBsp DEF Running, RunInv, Entering
<1>4. /\ run[c] = 0 /\ counter = Locked /\ apCount = Cardinality(At(pc, ApLabels, c))
  <2>1. /\ run[c] = 0 /\ counter = Locked
        /\ apCount = Cardinality(At(pc, ApLabels, c)) + Locked - counter
    BY <1>1, <1>3 DEF Stage, Open, Handling, BspPath
  <2>2. Cardinality(At(pc, ApLabels, c)) \in Nat
    BY AtCount
  <2> QED
    BY <2>1, <2>2, Constants
<1>5. ASSUME NEW a \in Cpus \ {c}
      PROVE  run[a] = 0 /\ (pc[a] \in Out \/ pc[a] = Opens("releaseExit"))
  <2>1. Follows(c, a) /\ pc[c] \notin Unsettled
    BY <1>1, <1>3 DEF Running, Unsettled, Open, Handling
  <2>2. /\ ~Seen(c) /\ ~ToBackup(c, a) /\ ~Backups(c, a) /\ ~ToProgram(c, a) /\ ~Programs(c, a)
        /\ ~Exits(c, a) /\ ~ToRestore(c, a) /\ ~Restores(c, a)
        /\ ~ToReset(c, a) /\ ~Resets(c, a) /\ ~Task(c, a)
    BY <1>1, <2>1 DEF Seen, ToBackup, Backups, ToProgram, Programs, Exits, ToRestore, Restores,
       ToReset, Resets, Before, After, Task, Tasks
  <2>3. pc[a] \in Out \cup ApLabels
    BY <2>1 DEF Follows, Everywhere
  <2>4. CASE pc[a] \in Out
    BY <2>1, <2>4 DEF Follows
  <2>5. CASE pc[a] \in ApLabels
    <3>1. pc[a] = "apLoop"
      BY <2>1, <2>2, <2>5, ApLabelSet DEF Follows, Early
    <3> QED
      BY <2>1, <2>2, <3>1 DEF Follows, Opens
  <2> QED
    BY <2>3, <2>4, <2>5
<1>6. Types'
  <2>1. index' \in Counts /\ waiting' \in Counts /\ "releaseExit" \in Everywhere
    BY <1>1, Constants DEF Everywhere, BspPath
  <2>2. insideSmm' \in BOOLEAN
    BY <1>1
  <2> QED
    BY <1>1, <1>3, <2>1, <2>2 DEF Types
<1>7. Suits("releaseExit") /\ "releaseExit" \notin Inside
  BY DEF Suits, Inside
<1> QED
  BY <1>1, <1>2, <1>3, <1>4, <1>5, <1>6, <1>7, NextStage

\* ReleaseAllAPs keeps RunInv.
LEMMA ReleaseAllAPsKeeps ==
  ASSUME RunInv, NEW c \in Cpus, ReleaseAllAPs(c)
  PROVE  RunInv'
<1>1. /\ pc[c] \in {"releaseBackup", "releaseProgram", "releaseExit", "releaseRestore",
                    "releaseReset"}
      /\ pc' = pc /\ index > 0 /\ index' = index - 1
      /\ run' = IF Released THEN [run EXCEPT ![This] = @ + 1] ELSE run
      /\ UNCHANGED <<mode, pending, topLevel, sampled, bsp, counter, insideSmm, allCpusInSync,
                     bspIndex, present, busy, apCount, waiting, target>>
  BY Tables DEF ReleaseAllAPs, Releases, Release, Turn, smis, locals, sync
<1>2. pc[c] \in BspPath /\ pc[c] \in PresentBsp /\ pc[c] # "reopen"
  BY <1>1 DEF BspPath, PresentBsp
<1>3. /\ Types /\ Running(c) /\ Stage(c) /\ present[c] /\ bspIndex = c /\ index \in 1 .. N
      /\ insideSmm <=> pc[c] \in Inside
  BY <1>1, <1>2, InBsp, Constants DEF Running, RunInv, Entering, Types
<1>4. /\ This \in Cpus /\ run'[c] = run[c] /\ run' \in [Cpus -> Nat]
      /\ \A a \in Cpus \ {c} :
           /\ a # This \/ ~present[a] => run'[a] = run[a]
           /\ a = This /\ present[a] => run'[a] = run[a] + 1
           /\ a # This => (a < index <=> a < index')
           /\ a = This => a < index /\ ~(a < index')
  <2>1. This \in Cpus
    BY <1>3, Constants DEF This
  <2>2. run'[c] = run[c] /\ run' \in [Cpus -> Nat]
    BY <1>1, <1>3, <2>1 DEF Released, Types
  <2>3. ASSUME NEW a \in Cpus \ {c}
        PROVE  /\ a # This \/ ~present[a] => run'[a] = run[a]
               /\ a = This /\ present[a] => run'[a] = run[a] + 1
    BY <1>1, <1>3, <2>1 DEF Released, Types
  <2>4. ASSUME NEW a \in Cpus \ {c}
        PROVE  /\ a # This => (a < index <=> a < index')
               /\ a = This => a < index /\ ~(a < index')
    BY <1>1, <1>3, Constants DEF This
  <2> QED
    BY <2>1, <2>2, <2>3, <2>4
<1>5. Types' /\ pc' = [pc EXCEPT ![c] = pc[c]]
  BY <1>1, <1>3, <1>4, Constants DEF Types
<1>6. ASSUME NEW a \in Cpus \ {c}
      PROVE  Follows(c, a)' /\ Locks(c, a)'
  <2>1. /\ Follows(c, a) /\ Locks(c, a)
        /\ pc[a] \in Out \cup ApLabels
        /\ pc'[a] = pc[a] /\ pc'[c] = pc[c] /\ pc[c] \notin Unsettled
    BY <1>1, <1>3 DEF Running, Follows, Everywhere, Unsettled, Open, Handling
  <2>2. /\ a \in Int /\ index \in Int /\ index' \in Int
    BY <1>1, <1>3, Constants
  <2>3. CASE a # This
    <3>1. /\ a < index <=> a < index'
          /\ a >= index <=> a >= index'
      BY <1>4, <2>2, <2>3
    <3>2. /\ Seen(c) => Seen(c)'
          /\ ToBackup(c, a)' = ToBackup(c, a)
          /\ Backups(c, a)' = Backups(c, a)
          /\ ToProgram(c, a)' = ToProgram(c, a)
          /\ Programs(c, a)' = Programs(c, a)
          /\ ToExit(c, a)' = ToExit(c, a)
      BY <2>1, <3>1 DEF Seen, ToBackup, Backups, ToProgram, Programs, ToExit, Before, After
    <3>3. /\ Exits(c, a)' = Exits(c, a)
          /\ ToRestore(c, a)' = ToRestore(c, a)
          /\ Restores(c, a)' = Restores(c, a)
          /\ ToReset(c, a)' = ToReset(c, a)
          /\ Resets(c, a)' = Resets(c, a)
          /\ ~Tasks(c, a)
      BY <1>1, <2>1, <3>1 DEF Exits, ToRestore, Restores, ToReset, Resets, Tasks, Before, After
    <3>4. run'[a] = run[a] /\ busy'[a] = busy[a] /\ present'[a] = present[a] /\ mode' = mode
      BY <1>1, <1>4, <2>3
    <3>5. (pc[c] = "startRelease" /\ target = a) <=> (pc[c] = "startRelease" /\ target = a)'
      BY <1>1, <2>1
    <3> QED
      BY <2>1, <3>2, <3>3, <3>4, <3>5, Go
  <2>4. CASE a = This
    <3>1. /\ a < index /\ ~(a >= index) /\ ~(a < index') /\ a >= index'
      BY <1>4, <2>2, <2>4
    <3>2. /\ ~Seen(c) /\ ~Backups(c, a) /\ ~Programs(c, a) /\ ~Exits(c, a)
          /\ ~Restores(c, a) /\ ~Resets(c, a) /\ ~Tasks(c, a) /\ ~Task(c, a)
      BY <1>1, <2>1, <3>1 DEF Seen, Backups, Programs, Exits, Restores, Resets, Tasks, Task, After
    <3>3. pc[c] # "startRelease"
      BY <1>1
    <3>4. CASE ~present[a]
      <4>1. pc[a] \notin PresentAp
        BY <1>3, <3>4 DEF RunInv, Entering
      <4>2. pc[a] \in Out /\ run[a] = 0
        BY <2>1, <3>2, <4>1, ApLabelSet DEF Follows, PresentAp, Early
      <4>3. run'[a] = 0 /\ ~present'[a]
        BY <1>1, <1>4, <3>4, <4>2
      <4>4. Follows(c, a)'
        BY <2>1, <4>2, <4>3, ApLabelSet DEF Follows, Out, Early, Everywhere, BspPath
      <4>5. Locks(c, a)'
        BY <4>3 DEF Locks
      <4> QED
        BY <4>4, <4>5
    <3>5. CASE present[a]
      <4>1. pc[a] \in PresentAp
        BY <1>3, <2>1, <3>5, ApLabelSet DEF RunInv, Entering, PresentBsp, BspPath, Out
      <4>2. /\ run[a] = 0
            /\ \/ pc[a] = "apBackup" /\ ToBackup(c, a) /\ mode.mtrr
               \/ pc[a] = "apProgram" /\ ToProgram(c, a) /\ mode.mtrr
               \/ pc[a] = "apLoop" /\ ToExit(c, a)
               \/ pc[a] = "apRestore" /\ ToRestore(c, a) /\ mode.mtrr
               \/ pc[a] = "apClear" /\ ToReset(c, a)
        BY <2>1, <3>2, <4>1 DEF Follows, PresentAp
      <4>3. run'[a] = 1 /\ busy'[a] = busy[a] /\ present'[a] /\ mode' = mode
        BY <1>1, <1>4, <2>4, <3>5, <4>2
      <4>4. /\ ToBackup(c, a) => Backups(c, a)'
            /\ ToProgram(c, a) => Programs(c, a)'
            /\ ToExit(c, a) => Exits(c, a)'
            /\ ToRestore(c, a) => Restores(c, a)'
            /\ ToReset(c, a) => Resets(c, a)'
        BY <1>1, <2>1, <3>1 DEF ToBackup, Backups, ToProgram, Programs, ToExit, Exits, ToRestore,
           Restores, ToReset, Resets, Before, After, Handling
      <4>5. Follows(c, a)'
        BY <2>1, <4>2, <4>3, <4>4, ApLabelSet DEF Follows, Out, Early, Everywhere, BspPath
      <4>6. Locks(c, a)'
        BY <2>1, <3>2, <3>3, <3>5, <4>3 DEF Locks
      <4> QED
        BY <4>5, <4>6
    <3> QED
      BY <3>4, <3>5
  <2> QED
    BY <2>3, <2>4
<1>7. Stage(c)'
  <2>1. Gathers' = Gathers /\ Open' = Open
    BY <1>1 DEF Gathers, Open
  <2> QED
    BY <1>1, <1>3, <1>4, <2>1 DEF Stage, Owed, At
<1>8. Suits(pc[c]) /\ pc[c] \notin {"startBusy", "startRelease", "startWait"}
  BY <1>1, <1>3 DEF Running
<1>9. /\ insideSmm' <=> pc[c] \in Inside
      /\ present'[c] <=> pc[c] \in PresentBsp
      /\ \A d \in Cpus : pending'[d] => pending[d] \/ Exists(d)
      /\ \A a \in Cpus \ {c} : present'[a] = present[a] /\ (busy'[a] = busy[a] \/ present[a])
  BY <1>1, <1>2, <1>3
<1> QED
  BY <1>1, <1>2, <1>3, <1>5, <1>6, <1>7, <1>8, <1>9, OwnStep

\* WaitForAllAPs keeps RunInv.
LEMMA WaitForAllAPsKeeps ==
  ASSUME RunInv, NEW c \in Cpus, WaitForAllAPs(c)
  PROVE  RunInv'
<1>1. /\ pc[c] \in {"waitArrival", "waitBackup", "waitProgram", "waitExit", "waitRestore",
                    "waitReset"}
      /\ waiting > 0 /\ waiting' = waiting - 1
      /\ run[bspIndex] > 0 /\ run' = [run EXCEPT ![bspIndex] = @ - 1]
      /\ UNCHANGED <<mode, pc, pending, topLevel, sampled, bsp, counter, insideSmm, allCpusInSync,
                     bspIndex, present, busy, apCount, index, target>>
  BY Tables DEF WaitForAllAPs, Wait, smis, locals, sync
<1>2. pc[c] \in BspPath /\ pc[c] # "reopen"
  BY <1>1 DEF BspPath
<1>3. /\ Types /\ Running(c) /\ Stage(c) /\ bspIndex = c
      /\ insideSmm <=> pc[c] \in Inside
      /\ present[c] <=> pc[c] \in PresentBsp
  <2>1. /\ Types /\ Running(c) /\ Stage(c) /\ bspIndex = c
        /\ insideSmm <=> pc[c] \in Inside
    BY <1>2, InBsp DEF Running, RunInv
  <2>2. pc[c] \notin PresentAp
    BY <1>1 DEF PresentAp
  <2> QED
    BY <2>1, <2>2 DEF RunInv, Entering
<1>4. /\ run[c] \in Nat /\ run[c] > 0 /\ run'[c] = run[c] - 1 /\ waiting \in 1 .. N
      /\ \A a \in Cpus \ {c} : run'[a] = run[a]
      /\ run' \in [Cpus -> Nat]
  BY <1>1, <1>3, Constants DEF Types
<1>5. Types' /\ pc' = [pc EXCEPT ![c] = pc[c]]
  <2>1. waiting' \in Counts
    BY <1>1, <1>4, Constants
  <2> QED
    BY <1>1, <1>3, <1>4, <2>1 DEF Types
<1>6. \A a \in Cpus \ {c} : Follows(c, a)' /\ Locks(c, a)'
  BY <1>1, <1>3, <1>4, FollowsKept DEF Running
<1>7. Stage(c)'
  <2>1. ASSUME NEW S
        PROVE  Owed(S, c)' = Owed(S, c) - 1 /\ Owed(S, c) \in Int
    <3>1. /\ Cardinality(At(pc', S \cup {"giveUp"}, c)) = Cardinality(At(pc, S \cup {"giveUp"}, c))
          /\ Cardinality(At(pc, S \cup {"giveUp"}, c)) \in Nat
      BY <1>3, <1>5, AtOwn, AtCount
    <3> QED
      BY <1>4, <3>1 DEF Owed
  <2>2. Cardinality(At(pc', ApLabels, c)) = Cardinality(At(pc, ApLabels, c))
    BY <1>3, <1>5, AtOwn
  <2>3. /\ Gathers' = Gathers /\ Open' = Open
        /\ pc[c] \notin Open /\ pc[c] \notin Handling \cup {"exit"}
    BY <1>1 DEF Gathers, Open, Handling
  <2>4. waiting \in Int /\ Locked \in Int /\ counter \in Int
    BY <1>3, <1>4, Constants DEF Types
  <2>5. \A S : Owed(S, c)' = Owed(S, c) - 1 /\ Owed(S, c) \in Int
    BY <2>1
  <2> HIDE DEF Owed
  <2> QED
    BY <1>1, <1>3, <2>5, <2>2, <2>3, <2>4 DEF Stage
<1>8. Suits(pc[c]) /\ pc[c] \notin {"startBusy", "startRelease", "startWait"}
  BY <1>1, <1>3 DEF Running
<1>9. /\ insideSmm' <=> pc[c] \in Inside
      /\ present'[c] <=> pc[c] \in PresentBsp
      /\ \A d \in Cpus : pending'[d] => pending[d] \/ Exists(d)
      /\ \A a \in Cpus \ {c} : present'[a] = present[a] /\ (busy'[a] = busy[a] \/ present[a])
  BY <1>1, <1>3
<1> QED
  BY <1>1, <1>2, <1>3, <1>5, <1>6, <1>7, <1>8, <1>9, OwnStep

\* Nobody still owes a signal: the APs are all where the stage ends.
LEMMA AllWaited ==
  ASSUME RunInv, NEW c \in Cpus, waiting = 0, NEW e,
         \/ pc[c] = "waitArrival" /\ e = IF mode.mtrr THEN "apBackup" ELSE "apLoop"
         \/ pc[c] = "waitBackup" /\ e = "apProgram"
         \/ pc[c] = "waitProgram" /\ e = "apLoop"
         \/ pc[c] = "waitExit" /\ e = IF mode.mtrr THEN "apRestore" ELSE "apClear"
         \/ pc[c] = "waitRestore" /\ e = "apClear"
         \/ pc[c] = "waitReset" /\ e = "leave"
  PROVE  /\ Running(c) /\ run[c] = 0 /\ counter = Locked
         /\ pc[c] # "waitReset" => apCount = Cardinality(At(pc, ApLabels, c))
         /\ \A a \in Cpus \ {c} : run[a] = 0 /\ (pc[a] \in Out \/ pc[a] = e)
<1>1. Types /\ Running(c) /\ Stage(c)
  BY InBsp DEF RunInv, BspPath, Running
<1>2. counter \in 0 .. Locked /\ Cardinality(At(pc, ApLabels, c)) \in Nat
  BY <1>1, AtCount DEF Types
<1>3. PICK S : /\ waiting = Owed(S, c) + Locked - counter
               /\ counter = Locked \/ pc[c] = "waitArrival"
               /\ \/ pc[c] = "waitArrival" /\ S = UpToArrived
                  \/ pc[c] = "waitBackup" /\ S = UpToBackedUp
                  \/ pc[c] = "waitProgram" /\ S = UpToProgrammed
                  \/ /\ pc[c] = "waitExit"
                     /\ S = IF mode.mtrr THEN UpToTasksDone ELSE UpToReset
                  \/ pc[c] = "waitRestore" /\ S = UpToReset
                  \/ pc[c] = "waitReset" /\ S = UpToDone
  <2>1. ASSUME NEW S
        PROVE  Owed(S, c) \in Int
    <3>1. Cardinality(At(pc, S \cup {"giveUp"}, c)) \in Nat /\ run[c] \in Nat
      BY <1>1, AtCount DEF Types
    <3> QED
      BY <3>1 DEF Owed
  <2>2. pc[c] # "waitArrival" => counter = Locked
    BY <1>1 DEF Stage, Open, Handling, BspPath
  <2>3. \A S : counter = Locked => Owed(S, c) + Locked - counter = Owed(S, c)
    BY <1>2, <2>1, Constants
  <2> HIDE DEF Owed
  <2> QED
    BY <1>1, <2>2, <2>3 DEF Stage
<1>4. /\ run[c] = 0 /\ counter = Locked /\ Cardinality(At(pc, S \cup {"giveUp"}, c)) = 0
  <2>1. Cardinality(At(pc, S \cup {"giveUp"}, c)) \in Nat /\ run[c] \in Nat
    BY <1>1, AtCount DEF Types
  <2> QED
    BY <1>2, <1>3, <2>1, Constants DEF Owed
<1>5. \A a \in Cpus \ {c} : pc[a] \notin S \cup {"giveUp"}
  <2>1. IsFiniteSet(At(pc, S \cup {"giveUp"}, c))
    BY AtCount
  <2>2. At(pc, S \cup {"giveUp"}, c) = {}
    BY <1>4, <2>1, FS_EmptySet
  <2> QED
    BY <2>2 DEF At
<1>6. pc[c] # "waitReset" => apCount = Cardinality(At(pc, ApLabels, c))
  <2>1. pc[c] # "waitReset" => apCount = Cardinality(At(pc, ApLabels, c)) + Locked - counter
    BY <1>1 DEF Stage, Open, Handling, BspPath
  <2> QED
    BY <1>2, <1>4, <2>1, Constants
<1>7. ASSUME NEW a \in Cpus \ {c}
      PROVE  run[a] = 0 /\ (pc[a] \in Out \/ pc[a] = e)
  <2>1. Follows(c, a) /\ (pc[c] = "waitArrival" => Gathers)
    BY <1>1 DEF Running, Suits
  <2>2. /\ ~ToBackup(c, a) /\ ~ToProgram(c, a) /\ ~ToExit(c, a) /\ ~ToRestore(c, a)
        /\ ~ToReset(c, a) /\ ~Tasks(c, a) /\ ~Task(c, a)
        /\ Seen(c) => pc[c] = "waitArrival"
        /\ Backups(c, a) => pc[c] = "waitBackup"
        /\ Programs(c, a) => pc[c] = "waitProgram"
        /\ Exits(c, a) => pc[c] = "waitExit"
        /\ Restores(c, a) => pc[c] = "waitRestore"
        /\ Resets(c, a) => pc[c] = "waitReset"
    BY DEF ToBackup, ToProgram, ToExit, ToRestore, ToReset, Tasks, Task, Seen, Backups, Programs,
       Exits, Restores, Resets, Before, After, Unsettled, Open, Handling
  <2>3. pc[a] \in Out \cup (ApLabels \ (S \cup {"giveUp"}))
    BY <1>5, <2>1 DEF Follows, Everywhere
  <2>4. CASE pc[a] \in Out
    BY <2>1, <2>4 DEF Follows
  <2>5. CASE pc[c] = "waitArrival" /\ pc[a] \in ApLabels
    <3>1. pc[a] \notin Early \cup {"apPresent", "apArrived"}
      BY <1>3, <1>5, <2>5 DEF UpToArrived, Early
    <3> QED
      BY <2>1, <2>2, <2>5, <3>1, ApLabelSet DEF Follows, Early
  <2>6. CASE pc[c] # "waitArrival" /\ pc[a] \in ApLabels
    <3>1. pc[a] \notin Early \cup {"apPresent", "apArrived"}
      BY <2>1, <2>2, <2>6 DEF Follows, Seen, Unsettled, Open, Handling
    <3>2. /\ pc[c] = "waitBackup" => pc[a] \notin {"apBackup", "apBackedUp"}
          /\ pc[c] = "waitProgram" => pc[a] \notin {"apProgram", "apProgrammed"}
          /\ pc[c] = "waitExit" /\ mode.mtrr => pc[a] \notin {"apLoop", "apCheck", "apTasksDone"}
          /\ pc[c] = "waitExit" /\ ~mode.mtrr => pc[a] \notin {"apLoop", "apCheck", "apReset"}
          /\ pc[c] = "waitRestore" => pc[a] \notin {"apRestore", "apReset"}
          /\ pc[c] = "waitReset" => pc[a] \notin {"apClear", "apAbsent", "apDone"}
      BY <1>3, <1>5 DEF UpToDone, UpToReset, UpToTasksDone, UpToProgrammed, UpToBackedUp
    <3> QED
      BY <2>1, <2>2, <2>6, <3>1, <3>2, ApLabelSet DEF Follows, Early
  <2> QED
    BY <2>3, <2>4, <2>5, <2>6
<1> QED
  BY <1>1, <1>4, <1>6, <1>7

\* AllAPsWaitedFor keeps RunInv.
LEMMA AllAPsWaitedForKeeps ==
  ASSUME RunInv, NEW c \in Cpus, AllAPsWaitedFor(c)
  PROVE  RunInv'
<1>1. PICK l : /\ pc' = [pc EXCEPT ![c] = l]
               /\ \/ pc[c] = "waitArrival" /\ l = IF mode.mtrr THEN "releaseBackup" ELSE "lockBusy"
                  \/ pc[c] = "waitBackup" /\ l = "releaseProgram"
                  \/ pc[c] = "waitProgram" /\ l = "lockBusy"
                  \/ /\ pc[c] = "waitExit"
                     /\ l = IF mode.mtrr THEN "releaseRestore" ELSE "releaseReset"
                  \/ pc[c] = "waitRestore" /\ l = "releaseReset"
                  \/ pc[c] = "waitReset" /\ l = "forget"
               /\ index' = IF l \in DOMAIN AfterLoop THEN N ELSE 0
  BY Tables, AllTable DEF AllAPsWaitedFor, Continue, Goto
<1>2. /\ waiting = 0 /\ waiting' = 0
      /\ UNCHANGED <<mode, pending, topLevel, sampled, bsp, counter, insideSmm, allCpusInSync,
                     bspIndex, present, run, busy, apCount, target>>
  <2>1. l \notin DOMAIN AfterAll
    BY <1>1, Tables
  <2>2. AfterAll[pc[c]] = l
    BY <1>1, AllTable
  <2> QED
    BY <2>1, <2>2 DEF AllAPsWaitedFor, Continue, smis, locals, sync, cpuData
<1>3. pc[c] \in BspPath \ Serving /\ pc[c] # "reopen" /\ l \in BspPath
  BY <1>1 DEF BspPath, Serving
<1>4. /\ Types /\ Running(c) /\ Suits(pc[c])
      /\ insideSmm <=> pc[c] \in Inside
      /\ present[c] <=> pc[c] \in PresentBsp
  <2>1. pc[c] \notin PresentAp
    BY <1>1 DEF PresentAp
  <2> QED
    BY <1>3, <2>1, InBsp DEF Running, RunInv, Entering
<1>5. Types'
  <2>1. index' \in Counts /\ waiting' \in Counts
    BY <1>1, <1>2, Constants
  <2> QED
    BY <1>1, <1>2, <1>3, <1>4, <2>1 DEF Types, Everywhere
<1>6. /\ Suits(l)
      /\ l = "lockBusy" => Gathers
      /\ insideSmm' <=> l \in Inside
  <2>1. Suits(l) /\ (l = "lockBusy" => Gathers)
    BY <1>1, <1>4 DEF Suits, Gathers
  <2> QED
    BY <1>1, <1>2, <1>4, <2>1 DEF Inside, BspPath
<1>7. CASE pc[c] # "waitReset"
  <2>1. /\ run[c] = 0 /\ counter = Locked /\ apCount = Cardinality(At(pc, ApLabels, c))
        /\ \A a \in Cpus \ {c} : run[a] = 0 /\ (pc[a] \in Out \/ pc[a] = Opens(l))
    BY <1>1, <1>2, <1>7, AllWaited DEF Opens
  <2>2. present[c] /\ l \in {"releaseBackup", "releaseProgram", "lockBusy", "exit",
                             "releaseExit", "releaseRestore", "releaseReset"}
    BY <1>1, <1>4, <1>7 DEF PresentBsp, BspPath
  <2> QED
    BY <1>1, <1>2, <1>3, <1>4, <1>5, <1>6, <1>7, <2>1, <2>2, NextStage
<1>8. CASE pc[c] = "waitReset"
  <2>1. /\ run[c] = 0 /\ counter = Locked /\ l = "forget"
        /\ \A a \in Cpus \ {c} : run[a] = 0 /\ pc[a] \in Out
    BY <1>1, <1>2, <1>8, AllWaited DEF Out
  <2>2. /\ pc'[c] = "forget" /\ \A a \in Cpus \ {c} : pc'[a] = pc[a]
    BY <1>1, <1>4, <2>1 DEF Types
  <2>3. ASSUME NEW a \in Cpus \ {c}
        PROVE  Follows(c, a)' /\ Locks(c, a)'
    <3>1. pc'[a] \in Out /\ run'[a] = 0 /\ ~present'[a]
      BY <1>2, <1>4, <2>1, <2>2 DEF RunInv, Entering, Out, PresentAp, PresentBsp, BspPath
    <3>2. Follows(c, a)'
      BY <3>1, ApLabelSet DEF Follows, Out, Early, Everywhere, BspPath
    <3>3. Locks(c, a)'
      BY <3>1 DEF Locks
    <3> QED
      BY <3>2, <3>3
  <2>4. Stage(c)'
    <3>1. "forget" \notin Open' /\ "forget" \notin Handling \cup {"exit"}
      BY DEF Open, Handling
    <3> QED
      BY <1>2, <2>1, <2>2, <3>1 DEF Stage
  <2>5. /\ ~present'[c] /\ l \notin PresentBsp /\ pc[c] \notin PresentBsp
    BY <1>2, <1>4, <1>8, <2>1 DEF PresentBsp
  <2>6. l \notin {"startBusy", "startRelease", "startWait"}
    BY <2>1
  <2> QED
    BY <1>1, <1>2, <1>3, <1>4, <1>5, <1>6, <2>3, <2>4, <2>5, <2>6, OwnStep
<1> QED
  BY <1>7, <1>8

\* A release is over: all APs have got their signal.
LEMMA ReleasedAll ==
  ASSUME RunInv, NEW c \in Cpus, index = 0,
         NEW l,
         \/ pc[c] = "releaseBackup" /\ l = "waitBackup"
         \/ pc[c] = "releaseProgram" /\ l = "waitProgram"
         \/ pc[c] = "releaseExit" /\ l = "waitExit"
         \/ pc[c] = "releaseRestore" /\ l = "waitRestore"
         \/ pc[c] = "releaseReset" /\ l = "bspAbsent",
         pc' = [pc EXCEPT ![c] = l],
         index' = 0, waiting' = IF l = "bspAbsent" THEN 0 ELSE apCount,
         UNCHANGED <<mode, pending, topLevel, sampled, bsp, counter, insideSmm, allCpusInSync,
                     bspIndex, present, run, busy, apCount, target>>
  PROVE  RunInv'
<1>1. /\ pc[c] \in BspPath /\ pc[c] # "reopen" /\ l \in BspPath
      /\ pc[c] \notin Unsettled /\ pc[c] \in PresentBsp /\ l \in PresentBsp
      /\ pc[c] \in Inside <=> l \in Inside
  BY DEF BspPath, PresentBsp, Inside, Unsettled, Open, Handling
<1>2. /\ Types /\ Running(c) /\ Stage(c) /\ Suits(pc[c]) /\ insideSmm = (pc[c] \in Inside)
      /\ present[c]
      /\ pc'[c] = l /\ \A a \in Cpus \ {c} : pc'[a] = pc[a]
  BY <1>1, InBsp DEF Running, RunInv, Entering, Types
<1>3. Types'
  BY <1>1, <1>2, Constants DEF Types, Everywhere
<1>4. ASSUME NEW a \in Cpus \ {c}
      PROVE  Follows(c, a)' /\ Locks(c, a)'
  <2>1. Follows(c, a) /\ Locks(c, a) /\ ~(a < index)
    BY <1>2, Constants DEF Running
  <2>2. /\ ~Seen(c) /\ ~ToBackup(c, a) /\ ~ToProgram(c, a) /\ ~ToExit(c, a)
        /\ ~ToRestore(c, a) /\ ~ToReset(c, a) /\ ~Tasks(c, a)
    BY <1>1, <2>1 DEF Seen, ToBackup, ToProgram, ToExit, ToRestore, ToReset, Tasks, Before, Handling
  <2>3. /\ Backups(c, a) => Backups(c, a)'
        /\ Programs(c, a) => Programs(c, a)'
        /\ Exits(c, a) => Exits(c, a)'
        /\ Restores(c, a) => Restores(c, a)'
        /\ Resets(c, a) => Resets(c, a)'
    BY <1>2 DEF Backups, Programs, Exits, Restores, Resets, After
  <2>4. (pc[c] = "startRelease" /\ target = a) <=> (pc[c] = "startRelease" /\ target = a)'
    BY <1>2
  <2> QED
    BY <1>1, <1>2, <2>1, <2>2, <2>3, <2>4, Go
<1>5. Stage(c)'
  <2>1. \A S : Owed(S, c)' = Owed(S, c)
    BY <1>2, AtOwn DEF Owed
  <2>2. Cardinality(At(pc', ApLabels, c)) = Cardinality(At(pc, ApLabels, c))
    BY <1>2, AtOwn
  <2>3. /\ pc[c] \notin Open /\ l \notin Open' /\ pc[c] \notin Handling \cup {"exit"}
        /\ l \notin Handling \cup {"exit"}
    BY DEF Open, Handling
  <2> HIDE DEF Owed
  <2> QED
    BY <1>1, <1>2, <2>1, <2>2, <2>3 DEF Stage
<1>6. Suits(l) /\ l \notin {"startBusy", "startRelease", "startWait"}
  BY <1>2 DEF Suits
<1> QED
  BY <1>1, <1>2, <1>3, <1>4, <1>5, <1>6, OwnStep

\* LoopEnds keeps RunInv.
LEMMA LoopEndsKeeps ==
  ASSUME RunInv, NEW c \in Cpus, LoopEnds(c)
  PROVE  RunInv'
<1>1. PICK l : /\ pc' = [pc EXCEPT ![c] = l]
               /\ \/ pc[c] = "sendIpis" /\ l = "arrival2"
                  \/ pc[c] = "releaseBackup" /\ l = "waitBackup"
                  \/ pc[c] = "releaseProgram" /\ l = "waitProgram"
                  \/ pc[c] = "drain" /\ l = IF Gathers THEN "exit" ELSE "sync"
                  \/ pc[c] = "releaseExit" /\ l = "waitExit"
                  \/ pc[c] = "releaseRestore" /\ l = "waitRestore"
                  \/ pc[c] = "releaseReset" /\ l = "bspAbsent"
               /\ index' = IF l \in DOMAIN AfterLoop THEN N ELSE 0
               /\ waiting' = IF l \in DOMAIN AfterAll THEN apCount ELSE 0
  BY Tables, LoopTable DEF LoopEnds, Continue, Goto
<1>2. /\ index = 0 /\ index' = 0
      /\ UNCHANGED <<mode, pending, topLevel, sampled, bsp, counter, insideSmm, allCpusInSync,
                     bspIndex, present, run, busy, apCount, target>>
  <2>1. l \notin DOMAIN AfterLoop
    BY <1>1, Tables
  <2> QED
    BY <1>1, <2>1 DEF LoopEnds, smis, locals, sync, cpuData
<1>3. waiting' = IF l \in {"waitBackup", "waitProgram", "waitExit", "waitRestore"}
                 THEN apCount ELSE 0
  BY <1>1, Tables
<1>4. /\ Types /\ Running(c) /\ Stage(c) /\ Suits(pc[c])
      /\ pc[c] \in BspPath /\ l \in BspPath /\ pc[c] # "reopen"
  <2>1. pc[c] \in BspPath /\ l \in BspPath /\ pc[c] # "reopen"
    BY <1>1 DEF BspPath
  <2> QED
    BY <2>1, InBsp DEF RunInv, Running
<1>5. Types'
  <2>1. index' \in Counts /\ waiting' \in Counts
    BY <1>2, <1>3, <1>4, Constants DEF Types
  <2> QED
    BY <1>1, <1>2, <1>4, <2>1 DEF Types, Everywhere
<1>6. CASE pc[c] = "sendIpis"
  <2>1. /\ pc[c] \in Pre \ {"bspEnter", "bspPresent"} /\ l \in Pre \ {"bspEnter", "bspPresent"}
        /\ Suits(l)
    BY <1>1, <1>4, <1>6 DEF Pre, Suits
  <2> QED
    BY <1>1, <1>2, <1>5, <2>1, PreGoes
<1>7. CASE pc[c] \in {"releaseBackup", "releaseProgram", "releaseExit", "releaseRestore",
                      "releaseReset"}
  BY <1>1, <1>2, <1>3, <1>7, ReleasedAll
<1>8. CASE pc[c] = "drain"
  <2>1. /\ pc[c] \notin Serving /\ pc[c] \in PresentBsp /\ pc[c] \in Inside
        /\ l \in PresentBsp /\ l \in Inside
    BY <1>1, <1>8 DEF Serving, PresentBsp, Inside, BspPath
  <2>2. present[c] /\ insideSmm /\ run[c] = 0
    BY <1>4, <1>8, <2>1 DEF RunInv, Entering, Running, Stage, Handling
  <2>3. ASSUME NEW a \in Cpus \ {c}
        PROVE  /\ Follows(c, a) /\ Locks(c, a) /\ ~Tasks(c, a) /\ ~Task(c, a)
               /\ ~ToBackup(c, a) /\ ~Backups(c, a) /\ ~ToProgram(c, a) /\ ~Programs(c, a)
               /\ ~Exits(c, a) /\ ~ToRestore(c, a) /\ ~Restores(c, a)
               /\ ~ToReset(c, a) /\ ~Resets(c, a)
    <3>1. Follows(c, a) /\ Locks(c, a) /\ ~(a < index)
      BY <1>2, <1>4, Constants DEF Running
    <3> QED
      BY <1>8, <3>1 DEF Tasks, Task, ToBackup, Backups, ToProgram, Programs, Exits, ToRestore,
         Restores, ToReset, Resets, Before, After
  <2>4. CASE Gathers
    <3>1. counter = Locked /\ apCount = Cardinality(At(pc, ApLabels, c))
      <4>1. /\ counter = Locked
            /\ apCount = Cardinality(At(pc, ApLabels, c)) + Locked - counter
        BY <1>4, <1>8, <2>4 DEF Stage, Open, BspPath
      <4>2. Cardinality(At(pc, ApLabels, c)) \in Nat
        BY AtCount
      <4> QED
        BY <4>1, <4>2, Constants
    <3>2. l = "exit" /\ Suits(l) /\ l \notin DOMAIN AfterLoop
      BY <1>1, <1>8, <2>4, Tables DEF Suits
    <3>3. ASSUME NEW a \in Cpus \ {c}
          PROVE  run[a] = 0 /\ (pc[a] \in Out \/ pc[a] = Opens(l))
      <4>1. ~Seen(c) /\ pc[c] \notin Unsettled
        BY <1>8, <2>4 DEF Seen, Unsettled, Open
      <4>2. pc[a] \in Out \cup ApLabels
        BY <2>3 DEF Follows, Everywhere
      <4>3. CASE pc[a] \in Out
        BY <2>3, <4>3 DEF Follows
      <4>4. CASE pc[a] \in ApLabels
        <5>1. pc[a] = "apLoop" /\ run[a] = 0
          BY <2>3, <4>1, <4>4, ApLabelSet DEF Follows, Early
        <5> QED
          BY <3>2, <5>1 DEF Opens
      <4> QED
        BY <4>2, <4>3, <4>4
    <3> QED
      BY <1>1, <1>2, <1>4, <1>5, <2>1, <2>2, <3>1, <3>2, <3>3, NextStage
  <2>5. CASE ~Gathers
    <3>1. l = "sync" /\ Suits(l) /\ ~mode.mtrr /\ pc'[c] = l /\ \A a \in Cpus \ {c} : pc'[a] = pc[a]
      BY <1>1, <1>4, <1>8, <2>5 DEF Suits, Types, Gathers
    <3>2. ASSUME NEW a \in Cpus \ {c}
          PROVE  Follows(c, a)' /\ Locks(c, a)'
      <4>1. /\ pc'[c] \in Unsettled' /\ Seen(c)' /\ ~mode'.mtrr /\ Gathers' = Gathers
            /\ pc'[a] = pc[a] /\ run'[a] = run[a] /\ busy'[a] = busy[a] /\ present'[a] = present[a]
        BY <1>2, <3>1 DEF Seen, Unsettled, Open, Gathers
      <4>2. Follows(c, a)'
        BY <2>3, <2>5, <3>1, <4>1 DEF Follows
      <4>3. Locks(c, a)'
        BY <1>8, <2>3, <4>1 DEF Locks
      <4> QED
        BY <4>2, <4>3
    <3>3. Stage(c)'
      <4>1. Cardinality(At(pc', ApLabels, c)) = Cardinality(At(pc, ApLabels, c))
        BY <1>1, <1>4, AtOwn
      <4>2. /\ pc[c] \in Open /\ "sync" \in Open' /\ Gathers' = Gathers
            /\ "sync" \notin Handling \cup {"exit"}
        BY <1>2, <1>8, <2>5 DEF Open, Gathers, Handling
      <4> QED
        BY <1>2, <1>4, <2>2, <2>5, <3>1, <4>1, <4>2 DEF Stage
    <3>4. l \notin {"startBusy", "startRelease", "startWait"}
      BY <3>1
    <3> QED
      BY <1>1, <1>2, <1>4, <1>5, <2>1, <2>2, <3>1, <3>2, <3>3, <3>4, OwnStep
  <2> QED
    BY <2>4, <2>5
<1> QED
  BY <1>1, <1>6, <1>7, <1>8

\* BspAbsent keeps RunInv.
LEMMA BspAbsentKeeps ==
  ASSUME RunInv, NEW c \in Cpus, BspAbsent(c)
  PROVE  RunInv'
<1>1. /\ pc[c] = "bspAbsent" /\ pc' = [pc EXCEPT ![c] = "waitReset"]
      /\ present' = [present EXCEPT ![c] = FALSE]
      /\ index' = 0 /\ waiting' = apCount
      /\ UNCHANGED <<mode, pending, topLevel, sampled, bsp, counter, insideSmm, allCpusInSync,
                     bspIndex, run, busy, apCount, target>>
  BY Tables DEF BspAbsent, Continue, Goto, smis, locals, sync
<1>2. /\ pc[c] \in BspPath /\ pc[c] # "reopen" /\ "waitReset" \in BspPath
      /\ pc[c] \notin Inside /\ "waitReset" \notin Inside
      /\ "waitReset" \notin PresentBsp /\ Suits("waitReset")
  BY <1>1 DEF BspPath, Inside, PresentBsp, Suits
<1>3. /\ Types /\ Running(c) /\ Stage(c) /\ ~insideSmm
      /\ pc'[c] = "waitReset" /\ \A a \in Cpus \ {c} : pc'[a] = pc[a]
      /\ ~present'[c] /\ \A a \in Cpus \ {c} : present'[a] = present[a]
  BY <1>1, <1>2, InBsp DEF Running, RunInv, Types
<1>4. Types'
  <2>1. index' \in Counts /\ waiting' \in Counts
    BY <1>1, <1>3, Constants DEF Types
  <2> QED
    BY <1>1, <1>3, <2>1 DEF Types, Everywhere, BspPath
<1>5. ASSUME NEW a \in Cpus \ {c}
      PROVE  Follows(c, a)' /\ Locks(c, a)'
  <2>1. Follows(c, a) /\ Locks(c, a)
    BY <1>3 DEF Running
  <2>2. /\ ~Seen(c) /\ pc[c] \notin Unsettled /\ ~Tasks(c, a)
        /\ ~ToBackup(c, a) /\ ~Backups(c, a) /\ ~ToProgram(c, a) /\ ~Programs(c, a)
        /\ ~ToExit(c, a) /\ ~Exits(c, a) /\ ~ToRestore(c, a) /\ ~Restores(c, a)
        /\ ~ToReset(c, a) /\ Resets(c, a)'
    BY <1>1, <1>3 DEF Seen, Unsettled, Open, Tasks, ToBackup, Backups, ToProgram, Programs,
       ToExit, Exits, ToRestore, Restores, ToReset, Resets, Before, After, Handling
  <2>3. (pc[c] = "startRelease" /\ target = a) <=> (pc[c] = "startRelease" /\ target = a)'
    BY <1>1, <1>3
  <2> QED
    BY <1>1, <1>3, <2>1, <2>2, <2>3, Go
<1>6. Stage(c)'
  <2>1. Owed(UpToDone, c)' = Owed(UpToDone, c)
    BY <1>1, <1>3, AtOwn DEF Owed
  <2>2. "waitReset" \notin Open' /\ "waitReset" \notin Handling \cup {"exit"}
    BY DEF Open, Handling
  <2>3. counter = Locked /\ apCount = Owed(UpToDone, c)
    BY <1>1, <1>2, <1>3 DEF Stage, Open, Handling
  <2> HIDE DEF Owed
  <2> QED
    BY <1>1, <1>3, <2>1, <2>2, <2>3 DEF Stage
<1> QED
  BY <1>1, <1>2, <1>3, <1>4, <1>5, <1>6, OwnStep

\* The end of a run: everybody else is out.
LEMMA AllOut ==
  ASSUME RunInv, NEW c \in Cpus, pc[c] \in {"forget", "reopen"}
  PROVE  /\ Types /\ Running(c) /\ ~insideSmm /\ ~present[c] /\ run[c] = 0 /\ counter = Locked
         /\ \A a \in Cpus \ {c} : pc[a] \in Out /\ run[a] = 0 /\ ~present[a]
<1>1. /\ pc[c] \in BspPath /\ pc[c] \notin Inside /\ pc[c] \notin PresentAp \cup PresentBsp
      /\ pc[c] \notin Unsettled
  BY DEF BspPath, Inside, PresentAp, PresentBsp, Unsettled, Open, Handling
<1>2. Types /\ Running(c) /\ Stage(c) /\ ~insideSmm /\ ~present[c]
  BY <1>1, InBsp DEF Running, RunInv, Entering
<1>3. run[c] = 0 /\ counter = Locked
  BY <1>1, <1>2 DEF Stage, Open, Handling
<1>4. ASSUME NEW a \in Cpus \ {c}
      PROVE  pc[a] \in Out /\ run[a] = 0 /\ ~present[a]
  <2>1. Follows(c, a)
    BY <1>2 DEF Running
  <2>2. /\ ~Seen(c) /\ ~ToBackup(c, a) /\ ~Backups(c, a) /\ ~ToProgram(c, a) /\ ~Programs(c, a)
        /\ ~ToExit(c, a) /\ ~Exits(c, a) /\ ~ToRestore(c, a) /\ ~Restores(c, a)
        /\ ~ToReset(c, a) /\ ~Resets(c, a) /\ ~Task(c, a)
    BY <1>1 DEF Seen, ToBackup, Backups, ToProgram, Programs, ToExit, Exits, ToRestore, Restores,
       ToReset, Resets, Before, After, Handling, Task, Tasks
  <2>3. pc[a] \in Out
    BY <1>1, <2>1, <2>2, ApLabelSet DEF Follows, Everywhere, Early
  <2>4. pc[a] \notin PresentAp \cup PresentBsp
    BY <2>3 DEF Out, PresentAp, PresentBsp, BspPath
  <2> QED
    BY <2>1, <2>3, <2>4 DEF Follows, RunInv, Entering
<1> QED
  BY <1>2, <1>3, <1>4

\* ForgetBsp keeps RunInv.
LEMMA ForgetBspKeeps ==
  ASSUME RunInv, NEW c \in Cpus, ForgetBsp(c)
  PROVE  RunInv'
<1>1. /\ pc[c] = "forget" /\ pc' = [pc EXCEPT ![c] = "reopen"]
      /\ bspIndex' = IF mode.elect THEN None ELSE bspIndex
      /\ apCount' = 0
      /\ UNCHANGED <<mode, pending, topLevel, sampled, bsp, counter, insideSmm, allCpusInSync,
                     present, run, busy, index, waiting, target>>
  BY DEF ForgetBsp, AfterReset, Goto, smis, locals, cpuData
<1>2. /\ Types /\ Existing /\ Entering /\ Running(c)
      /\ ~insideSmm /\ ~present[c] /\ run[c] = 0 /\ counter = Locked
      /\ \A a \in Cpus \ {c} : pc[a] \in Out /\ run[a] = 0 /\ ~present[a]
  BY <1>1, AllOut DEF RunInv
<1>3. pc'[c] = "reopen" /\ \A a \in Cpus \ {c} : pc'[a] = pc[a]
  BY <1>1, <1>2 DEF Types
<1>4. Types'
  <2>1. bspIndex' \in Cpus \cup {None} /\ apCount' \in Counts
    BY <1>1, <1>2, Constants DEF Types
  <2> QED
    BY <1>1, <1>2, <2>1 DEF Types, Everywhere, BspPath
<1>5. Existing'
  BY <1>1, <1>2, <1>3 DEF Existing, Exists
<1>6. Entering'
  <2>1. ~mode.elect => bspIndex' = 0 /\ 0 \in Cpus
    BY <1>1, <1>2 DEF Entering
  <2>2. mode.elect => \A d \in Cpus : bspIndex' # d
    BY <1>1, Constants
  <2>3. "reopen" \notin ApLabels \cup PresentAp \cup PresentBsp \cup {"arrive", "free"}
    BY ApLabelSet DEF PresentAp, PresentBsp
  <2>4. ~mode.elect => bspIndex' = bspIndex
    BY <1>1
  <2>5. Out \cap ApLabels = {}
    BY ApLabelSet DEF Out
  <2> QED
    BY <1>1, <1>2, <1>3, <2>1, <2>2, <2>3, <2>4, <2>5 DEF Entering
<1>7. Running(c)'
  <2>1. /\ "reopen" \in BspPath /\ "reopen" \notin Inside /\ Suits("reopen")'
        /\ "reopen" \notin Open' /\ "reopen" \notin Handling \cup {"exit"}
    BY DEF BspPath, Inside, Suits, Open, Handling
  <2>2. Stage(c)'
    BY <1>1, <1>2, <1>3, <2>1 DEF Stage
  <2>3. ASSUME NEW a \in Cpus \ {c}
        PROVE  /\ Follows(c, a)' /\ Locks(c, a)'
               /\ pc'[a] \notin PresentAp \cup {"apDone"}
    <3>1. pc'[a] \in Out /\ run'[a] = 0 /\ ~present'[a]
      BY <1>1, <1>2, <1>3
    <3> QED
      BY <3>1, ApLabelSet DEF Follows, Locks, Out, Early, Everywhere, BspPath, PresentAp
  <2> QED
    BY <1>1, <1>2, <1>3, <2>1, <2>2, <2>3 DEF Running, Suits
<1> QED
  BY <1>4, <1>5, <1>6, <1>7 DEF RunInv

\* Reopen keeps RunInv.
LEMMA ReopenKeeps ==
  ASSUME RunInv, NEW c \in Cpus, Reopen(c)
  PROVE  RunInv'
<1>1. /\ pc[c] = "reopen" /\ pc' = [pc EXCEPT ![c] = "unsync"] /\ counter' = 0
      /\ UNCHANGED <<mode, pending, topLevel, sampled, bsp, insideSmm, allCpusInSync, bspIndex,
                     present, run, busy, apCount, index, waiting, target>>
  BY DEF Reopen, AfterReset, Goto, smis, locals, cpuData, handler
<1>2. /\ Types /\ Existing /\ Entering
      /\ ~insideSmm /\ ~present[c] /\ run[c] = 0
      /\ \A a \in Cpus \ {c} : pc[a] \in Out /\ run[a] = 0
  BY <1>1, AllOut DEF RunInv
<1>3. pc'[c] = "unsync" /\ \A a \in Cpus \ {c} : pc'[a] = pc[a]
  BY <1>1, <1>2 DEF Types
<1>4. Types'
  <2>1. 0 \in 0 .. Locked
    BY Constants
  <2> QED
    BY <1>1, <1>2, <2>1 DEF Types, Everywhere, Out
<1>5. Existing'
  BY <1>1, <1>2, <1>3 DEF Existing, Exists
<1>6. Entering'
  BY <1>1, <1>2, <1>3, ApLabelSet DEF Entering, PresentAp, PresentBsp, BspPath
<1>7. Idle'
  <2>1. \A a \in Cpus : pc'[a] \in Out /\ run'[a] = 0
    BY <1>1, <1>2, <1>3 DEF Out
  <2>2. At(pc', Early, None) = {}
    BY <2>1 DEF At, Out, Early
  <2>3. Cardinality(At(pc', Early, None)) = 0
    BY <2>2, FS_EmptySet
  <2> QED
    BY <1>1, <1>2, <2>1, <2>3 DEF Idle
<1> QED
  BY <1>4, <1>5, <1>6, <1>7 DEF RunInv

-----------------------------------------------------------------------------
(******************************** Theorems *********************************)

\* The initial states satisfy RunInv.
LEMMA InitKeeps == Init => RunInv
<1> SUFFICES ASSUME Init PROVE RunInv
  OBVIOUS
<1>1. Types
  <2>1. 0 \in Cpus /\ 0 \in 0 .. Locked /\ 0 \in Counts /\ "outside" \in Everywhere
    BY Constants DEF Everywhere, Out
  <2> QED
    BY <2>1 DEF Init, Types
<1>2. Existing
  BY DEF Init, Existing
<1>3. Entering
  <2>1. 0 \in Cpus /\ \A c \in Cpus : c # None
    BY Constants
  <2>2. "outside" \notin ApLabels \cup PresentAp \cup PresentBsp
    BY ApLabelSet DEF PresentAp, PresentBsp, BspPath
  <2> QED
    BY <2>1, <2>2 DEF Init, Entering
<1>4. Idle
  <2>1. At(pc, Early, None) = {}
    BY DEF Init, At, Early
  <2>2. Cardinality(At(pc, Early, None)) = 0
    BY <2>1, FS_EmptySet
  <2> QED
    BY <2>2 DEF Init, Idle, Out
<1> QED
  BY <1>1, <1>2, <1>3, <1>4 DEF RunInv

\* Every step, of any processor, keeps RunInv.
LEMMA StepKeeps == RunInv /\ [Next]_vars => RunInv'
<1> SUFFICES ASSUME RunInv, [Next]_vars PROVE RunInv'
  OBVIOUS
<1>1. CASE TriggerSmi
  BY <1>1, TriggerSmiKeeps
<1>2. ASSUME NEW c \in Cpus, Enter(c)
      PROVE  RunInv'
  BY <1>2, EnterKeeps
<1>3. ASSUME NEW c \in Cpus,
             \/ ReadValidSmi(c) \/ ReadBspInProgress(c) \/ Arrive(c) \/ FreeBusy(c)
             \/ Elect(c) \/ Elected(c) \/ Leave(c)
      PROVE  RunInv'
  BY <1>3, ReadValidSmiKeeps, ReadBspInProgressKeeps, ArriveKeeps, FreeBusyKeeps, ElectKeeps,
     ElectedKeeps, LeaveKeeps
<1>4. ASSUME NEW c \in Cpus, ApStep(c)
      PROVE  RunInv'
  BY <1>4, BspAppearsKeeps, BspTimeoutKeeps, BringBspInKeeps, GiveUpKeeps, ApPresentKeeps,
     ApSignalsKeeps, ApWaitsKeeps, ApChecksKeeps, ApProcedureKeeps, ApAbsentKeeps DEF ApStep
<1>5. ASSUME NEW c \in Cpus, BspStep(c)
      PROVE  RunInv'
  <2>1. ASSUME \/ BspEnter(c) \/ BspPresent(c) \/ ClearTopLevelSmiStatus(c)
               \/ ArrivalTimeout(c) \/ SendSmiIpis(c) \/ ArrivalTimeout2(c)
               \/ SetInSync(c) \/ Lockdown(c) \/ LockBusy(c)
        PROVE  RunInv'
    BY <2>1, BspEnterKeeps, BspPresentKeeps, ClearTopLevelSmiStatusKeeps, ArrivalTimeoutKeeps,
       SendSmiIpisKeeps, ArrivalTimeout2Keeps, SetInSyncKeeps, LockdownKeeps, LockBusyKeeps
  <2>2. ASSUME NEW a \in Cpus, StartupThisAp(c, a)
        PROVE  RunInv'
    BY <2>2, StartupThisApKeeps
  <2>3. ASSUME \/ StartupLocks(c) \/ StartupFails(c) \/ StartupReleases(c) \/ StartupWaits(c)
               \/ HandlersReturn(c) \/ Drain(c) \/ AllPresent(c) \/ NotInside(c)
        PROVE  RunInv'
    BY <2>3, StartupLocksKeeps, StartupReturnsKeeps, StartupReleasesKeeps, HandlersReturnKeeps,
       DrainKeeps, AllPresentKeeps, NotInsideKeeps
  <2>4. ASSUME \/ ReleaseAllAPs(c) \/ WaitForAllAPs(c) \/ AllAPsWaitedFor(c) \/ LoopEnds(c)
               \/ BspAbsent(c) \/ ForgetBsp(c) \/ Reopen(c) \/ ClearInSync(c)
        PROVE  RunInv'
    BY <2>4, ReleaseAllAPsKeeps, WaitForAllAPsKeeps, AllAPsWaitedForKeeps, LoopEndsKeeps,
       BspAbsentKeeps, ForgetBspKeeps, ReopenKeeps, ClearInSyncKeeps
  <2> QED
    BY <1>5, <2>1, <2>2, <2>3, <2>4 DEF BspStep
<1>6. CASE UNCHANGED vars
  <2>1. UNCHANGED <<mode, pc, pending, topLevel, sampled, bsp, counter, insideSmm, allCpusInSync,
                    bspIndex, present, run, busy, apCount, index, waiting, target>>
    BY <1>6 DEF vars, smis, locals, sync, cpuData, handler
  <2>2. Idle' \/ \E b \in Cpus : Running(b)'
    <3>1. UNCHANGED <<mode, pc, bsp, counter, insideSmm, bspIndex, cpuData, handler>>
      BY <2>1 DEF cpuData, handler
    <3> QED
      BY <3>1, Unchanged DEF RunInv
  <2>3. Types' /\ Existing' /\ Entering'
    BY <2>1 DEF RunInv, Types, Existing, Exists, Entering
  <2> QED
    BY <2>2, <2>3 DEF RunInv
<1> QED
  BY <1>1, <1>2, <1>3, <1>4, <1>5, <1>6 DEF Next, Step

\* Every run of the rendezvous goes through its stages in order, whatever the
\* interleaving and whoever is held up.
THEOREM RunInvariant == Spec => []RunInv
<1>1. Init => RunInv
  BY InitKeeps
<1>2. RunInv /\ [Next]_vars => RunInv'
  BY StepKeeps
<1> QED
  BY <1>1, <1>2, PTL DEF Spec

\* Two processors never take themselves for the BSP at once, in any mode.
THEOREM OneBspHolds == Spec => []OneBsp
<1>1. RunInv => OneBsp
  <2> SUFFICES ASSUME RunInv, NEW b \in Cpus, NEW c \in Cpus, pc[b] \in BspPath, pc[c] \in BspPath
               PROVE  b = c
    BY BspLabelSet DEF OneBsp
  <2>1. Running(b)
    BY InBsp
  <2> QED
    BY <2>1 DEF Running, Follows
<1> QED
  BY <1>1, RunInvariant, PTL

\* When the BSP reopens the rendezvous nothing of the run is left, however
\* late an AP has been.
THEOREM CleanSlateHolds == Spec => []CleanSlate
<1>1. RunInv => CleanSlate
  <2> SUFFICES ASSUME RunInv, NEW b \in Cpus, pc[b] \in {"forget", "reopen"}
               PROVE  /\ ~insideSmm
                      /\ \A c \in Cpus : run[c] = 0 /\ ~present[c] /\ pc[c] \notin ApLabels
    BY DEF CleanSlate
  <2>1. Out \cap ApLabels = {} /\ pc[b] \notin ApLabels
    BY ApLabelSet DEF Out
  <2> QED
    BY <2>1, AllOut
<1> QED
  BY <1>1, RunInvariant, PTL

\* No procedure is left running or pending once the BSP has gone past its
\* handlers.
THEOREM DrainedHolds == Spec => []Drained
<1>1. RunInv => Drained
  <2> SUFFICES ASSUME RunInv, NEW b \in Cpus, pc[b] \in {"allPresent", "exit"},
                      NEW a \in Cpus \ {b}, present[a]
               PROVE  run[a] = 0 /\ busy[a] = "released" /\ pc[a] # "apProcedure"
    BY DEF Drained
  <2>1. Running(b) /\ Follows(b, a) /\ Locks(b, a) /\ pc[a] \in PresentAp
    <3>1. Running(b)
      BY InBsp DEF BspPath
    <3>2. Follows(b, a) /\ Locks(b, a)
      BY <3>1 DEF Running
    <3> QED
      BY <3>1, <3>2 DEF RunInv, Entering, Follows, PresentBsp
  <2>2. /\ ~ToBackup(b, a) /\ ~Backups(b, a) /\ ~ToProgram(b, a) /\ ~Programs(b, a)
        /\ ~Exits(b, a) /\ ~ToRestore(b, a) /\ ~Restores(b, a)
        /\ ~ToReset(b, a) /\ ~Resets(b, a) /\ ~Task(b, a) /\ ~Tasks(b, a)
    BY DEF ToBackup, Backups, ToProgram, Programs, Exits, ToRestore, Restores,
       ToReset, Resets, Before, After, Task, Tasks
  <2>3. run[a] = 0 /\ pc[a] # "apProcedure"
    BY <2>1, <2>2 DEF Follows, PresentAp
  <2>4. busy[a] = "released"
    BY <2>1, <2>2 DEF Locks
  <2> QED
    BY <2>3, <2>4
<1> QED
  BY <1>1, RunInvariant, PTL

\* The APs that count are processors that exist, other than the BSP.
LEMMA Counted ==
  ASSUME Types, Existing, NEW c \in Cpus, pc[c] # "outside"
  PROVE  \E E : /\ IsFiniteSet(E) /\ Cardinality(E) = mode.cpus - 1
               /\ At(pc, ApLabels, c) \subseteq E
               /\ \A a \in Cpus \ {c} : Exists(a) => a \in E
<1>1. mode.cpus \in 1 .. N
  BY ModeTypes
<1> DEFINE F == 0 .. mode.cpus - 1
<1>2. IsFiniteSet(F) /\ Cardinality(F) = mode.cpus
  BY <1>1, Constants, Below
<1>3. c \in F
  BY <1>1, Constants DEF Existing, Exists
<1>4. IsFiniteSet(F \ {c}) /\ Cardinality(F \ {c}) = mode.cpus - 1
  BY <1>2, <1>3, FS_RemoveElement
<1>5. \A a \in Cpus \ {c} : Exists(a) => a \in F \ {c}
  BY <1>1, Constants DEF Exists
<1>6. \A a \in At(pc, ApLabels, c) : a \in Cpus \ {c} /\ Exists(a)
  BY ApLabelSet DEF At, Existing
<1> QED
  BY <1>4, <1>5, <1>6

\* The assertions of MpService.c hold.
THEOREM AssertsHold == Spec => []Asserts
<1>1. ASSUME RunInv
      PROVE  Asserts
  <2>1. ASSUME NEW c \in Cpus, pc[c] \in {"arrival", "sendIpis", "arrival2"}
        PROVE  counter <= mode.cpus
    <3>1. Types /\ Existing /\ Stage(c)
      BY <1>1, <2>1, InBsp DEF RunInv, Running, BspPath
    <3>2. counter = 1 + Cardinality(At(pc, ApLabels, c))
      BY <2>1, <3>1 DEF Stage, Open
    <3>3. PICK E : /\ IsFiniteSet(E) /\ Cardinality(E) = mode.cpus - 1
                   /\ At(pc, ApLabels, c) \subseteq E
      BY <2>1, <3>1, Counted
    <3>4. Cardinality(At(pc, ApLabels, c)) <= mode.cpus - 1
      BY <3>3, FS_Subset
    <3>5. Cardinality(At(pc, ApLabels, c)) \in Nat /\ mode.cpus \in Int
      BY <3>1, AtCount, ModeTypes, Constants
    <3> QED
      BY <3>2, <3>4, <3>5
  <2>2. ASSUME NEW c \in Cpus, pc[c] \in {"apSendIpi", "apPresent"}
        PROVE  bspIndex # c
    BY <1>1, <2>2, ApLabelSet DEF RunInv, Entering
  <2>3. ASSUME NEW c \in Cpus, pc[c] = "apProcedure"
        PROVE  busy[c] = "acquired"
    <3>1. PICK b \in Cpus \ {c} : Follows(b, c)
      BY <1>1, <2>3, InRun, ApLabelSet DEF Early
    <3> QED
      BY <2>3, <3>1 DEF Follows, Task
  <2>4. ASSUME NEW c \in Cpus, pc[c] = "leave"
        PROVE  run[c] = 0
    <3>1. CASE Idle
      BY <3>1 DEF Idle
    <3>2. ASSUME NEW b \in Cpus, Running(b)
          PROVE  run[c] = 0
      BY <2>4, <3>2 DEF Running, Follows, Out, BspPath
    <3> QED
      BY <1>1, <3>1, <3>2 DEF RunInv
  <2> QED
    BY <2>1, <2>2, <2>3, <2>4 DEF Asserts
<1>2. RunInv => Asserts
  BY <1>1
<1> QED
  BY <1>2, RunInvariant, PTL

-----------------------------------------------------------------------------
(************************ Where nobody is held up **************************)

\* Nobody gives up, and nobody of the last run is still closing it, once the BSP
\* has shown itself.
Prompted ==
  mode.prompt => \A b \in Cpus :
    pc[b] \in BspPath \ {"bspEnter"} =>
      /\ \A a \in Cpus : pc[a] \notin {"giveUp", "unsync"}
      /\ pc[b] \notin Open => counter = Locked

\* AllCpusInSync is set.
Synced == (BspPath \ Pre) \cup {"lockdown"}

\* The BSP has seen processor c arrive, or sent it an IPI.
Swept(b, c) ==
  \/ pc[b] \in {"arrival2", "sync"} \cup (Synced \cap Inside)
  \/ pc[b] = "sendIpis" /\ c >= index

\* A processor that does not get back to normal mode without an SMI.
Held(b, c) ==
  \/ pending[c]
  \/ pc[c] \in {"valid", "progress", "arrive"} \cup ApLabels \cup BspPath
  \/ pc[c] \in {"late", "leave"} /\ pc[b] \in Synced

\* In the traditional mode the handlers run with every processor held in SMM.
InSync ==
  mode.prompt /\ mode.sync = "traditional" => \A b \in Cpus :
    /\ pc[b] \in Synced => allCpusInSync
    /\ \A c \in Cpus : Exists(c) /\ Swept(b, c) => Held(b, c)

\* A step that lets nobody give up and leaves the counter alone.
LEMMA PromptedKept ==
  ASSUME Types, Prompted, NEW c \in Cpus, NEW l, pc' = [pc EXCEPT ![c] = l],
         UNCHANGED <<mode, counter>>, l \notin {"giveUp", "unsync"},
         l \in BspPath \ {"bspEnter"} =>
           /\ pc[c] \in BspPath \ {"bspEnter"}
           /\ pc[c] \in Open => l \in Open
  PROVE  Prompted'
<1>1. Open' = Open /\ pc'[c] = l /\ \A a \in Cpus \ {c} : pc'[a] = pc[a]
  BY DEF Open, Gathers, Types
<1>2. ASSUME mode.prompt, NEW b \in Cpus, pc'[b] \in BspPath \ {"bspEnter"}
      PROVE  /\ \A a \in Cpus : pc'[a] \notin {"giveUp", "unsync"}
             /\ pc'[b] \notin Open' => counter' = Locked
  <2>1. pc[b] \in BspPath \ {"bspEnter"} /\ (pc[b] \in Open => pc'[b] \in Open)
    BY <1>1, <1>2
  <2>2. /\ \A a \in Cpus : pc[a] \notin {"giveUp", "unsync"}
        /\ pc[b] \notin Open => counter = Locked
    BY <1>2, <2>1 DEF Prompted
  <2> QED
    BY <1>1, <2>1, <2>2
<1> QED
  BY <1>2 DEF Prompted

\* Every step keeps Prompted.
LEMMA PromptedStep == RunInv /\ Prompted /\ [Next]_vars => Prompted'
<1> SUFFICES ASSUME RunInv, Prompted, [Next]_vars PROVE Prompted'
  OBVIOUS
<1>0. Types
  BY DEF RunInv
<1>1. CASE TriggerSmi \/ UNCHANGED vars
  <2>1. UNCHANGED <<mode, pc, counter>>
    BY <1>1 DEF TriggerSmi, vars, sync
  <2> QED
    BY <2>1 DEF Prompted, Open, Gathers
<1>2. ASSUME NEW c \in Cpus, Enter(c) \/ ReadValidSmi(c) \/ ReadBspInProgress(c)
      PROVE  Prompted'
  <2>1. PICK l \in {"valid", "progress", "arrive", "outside"} :
          pc' = [pc EXCEPT ![c] = l] /\ UNCHANGED <<mode, counter>>
    BY <1>2 DEF Enter, ReadValidSmi, ReadBspInProgress, Goto, sync
  <2> QED
    BY <1>0, <2>1, PromptedKept DEF BspPath
<1>3. ASSUME NEW c \in Cpus, FreeBusy(c) \/ Elect(c) \/ Elected(c) \/ Leave(c) \/ ClearInSync(c)
      PROVE  Prompted'
  <2>1. PICK l \in {"apTimer", "elect", "elected", "bspEnter", "outside", "leave"} :
          pc' = [pc EXCEPT ![c] = l] /\ UNCHANGED <<mode, counter>>
    BY <1>3 DEF FreeBusy, Elect, Elected, Leave, ClearInSync, AfterReset, Goto, sync
  <2> QED
    BY <1>0, <2>1, PromptedKept DEF BspPath
<1>4. ASSUME NEW c \in Cpus, Arrive(c)
      PROVE  Prompted'
  <2>1. counter \in 0 .. Locked /\ Inc(counter) = IF counter = Locked THEN 0 ELSE counter + 1
    <3>1. counter \in 0 .. Locked
      BY <1>0 DEF Types
    <3>2. /\ counter = Locked => Inc(counter) = 0
          /\ counter < Locked => Inc(counter) = counter + 1
      BY <3>1, Semaphore
    <3> QED
      BY <3>1, <3>2, Constants
  <2>2. CASE counter = Locked
    BY <1>0, <1>4, <2>1, <2>2, PromptedKept DEF Arrive, Goto, BspPath
  <2>3. CASE counter # Locked
    <3>1. pc' = [pc EXCEPT ![c] = "free"] /\ mode' = mode
      BY <1>4, <2>1, <2>3, Constants DEF Arrive, Goto
    <3>2. Open' = Open /\ "free" \notin BspPath
      BY <3>1 DEF Open, Gathers, BspPath
    <3> QED
      BY <1>0, <2>3, <3>1, <3>2 DEF Prompted, Types
  <2> QED
    BY <2>2, <2>3
<1>5. ASSUME NEW c \in Cpus, BspTimeout(c) \/ BringBspIn(c)
      PROVE  Prompted'
  <2>1. PICK l \in {"apSendIpi", "apTimer2", "giveUp"} :
          /\ pc' = [pc EXCEPT ![c] = l] /\ UNCHANGED <<mode, counter>>
          /\ l = "giveUp" => ~insideSmm \/ bspIndex = None
    BY <1>5 DEF BspTimeout, BringBspIn, AfterTimeout, Goto, sync
  <2>2. CASE l # "giveUp"
    BY <1>0, <2>1, <2>2, PromptedKept DEF BspPath
  <2>3. CASE l = "giveUp"
    <3>1. ASSUME NEW b \in Cpus, pc[b] \in BspPath \ {"bspEnter"}
          PROVE  FALSE
      <4>1. Running(b) /\ Follows(b, c)
        <5>1. Running(b) /\ b # c
          BY <1>5, <3>1, InBsp DEF BspTimeout, BringBspIn, BspPath
        <5> QED
          BY <5>1 DEF Running
      <4>2. pc[c] \in Early
        BY <1>5 DEF BspTimeout, BringBspIn, Early
      <4>3. pc[b] \in Unsettled /\ pc[b] # "reopen" /\ pc[b] \in Inside
        BY <3>1, <4>1, <4>2 DEF Follows, Unsettled, Open, Handling, Inside, BspPath
      <4> QED
        BY <2>1, <2>3, <4>1, <4>3, Constants DEF Running
    <3>2. "giveUp" \notin BspPath
      BY DEF BspPath
    <3> QED
      BY <1>0, <2>1, <2>3, <3>1, <3>2 DEF Prompted, Types
  <2> QED
    BY <2>2, <2>3
<1>6. ASSUME NEW c \in Cpus, GiveUp(c)
      PROVE  Prompted'
  <2>1. pc[c] = "giveUp" /\ pc' = [pc EXCEPT ![c] = "leave"] /\ mode' = mode
    BY <1>6 DEF GiveUp, Goto
  <2>2. "leave" \notin BspPath
    BY DEF BspPath
  <2> QED
    BY <1>0, <2>1, <2>2 DEF Prompted, Types
<1>7. ASSUME NEW c \in Cpus,
             \/ BspAppears(c) \/ ApPresent(c) \/ ApSignals(c) \/ ApWaits(c) \/ ApChecks(c)
             \/ ApProcedure(c) \/ ApAbsent(c)
      PROVE  Prompted'
  <2>1. PICK l \in PresentAp \cup {"apPresent", "apDone", "leave"} :
          pc' = [pc EXCEPT ![c] = l] /\ UNCHANGED <<mode, counter>>
    BY <1>7, Tables, SignalTable, WaitTable
       DEF BspAppears, ApPresent, ApSignals, ApWaits, ApChecks, ApProcedure, ApAbsent, Goto, sync,
       PresentAp
  <2> QED
    BY <1>0, <2>1, PromptedKept DEF BspPath, PresentAp
<1>8. ASSUME NEW c \in Cpus, BspEnter(c)
      PROVE  Prompted'
  <2>1. /\ pc[c] = "bspEnter" /\ pc' = [pc EXCEPT ![c] = "bspPresent"] /\ mode' = mode
        /\ mode.prompt => \A d \in Cpus : pc[d] \notin {"giveUp", "unsync"}
    BY <1>8 DEF BspEnter, Goto, Undisturbed
  <2>2. \A b \in Cpus : pc'[b] \in BspPath => b = c
    <3>1. Running(c)
      BY <2>1, InBsp DEF BspPath
    <3> QED
      BY <1>0, <2>1, <3>1 DEF Running, Follows, Types
  <2>3. "bspPresent" \in Open'
    BY DEF Open
  <2> QED
    BY <1>0, <2>1, <2>2, <2>3 DEF Prompted, Types
<1>9. ASSUME NEW c \in Cpus,
             \/ BspPresent(c) \/ ClearTopLevelSmiStatus(c)
             \/ ArrivalTimeout(c) \/ SendSmiIpis(c) \/ ArrivalTimeout2(c) \/ SetInSync(c)
      PROVE  Prompted'
  <2>1. PICK l : /\ pc' = [pc EXCEPT ![c] = l] /\ UNCHANGED <<mode, counter>>
                 /\ pc[c] \in Pre \ {"bspEnter"}
                 /\ l \in Pre \cup (IF Gathers THEN {} ELSE {"lockBusy"})
    BY <1>0, <1>9 DEF BspPresent, ClearTopLevelSmiStatus, ArrivalTimeout, SendSmiIpis,
       ArrivalTimeout2, SetInSync, Continue, Turn, Goto, sync, Types, Pre
  <2>2. /\ pc[c] \in BspPath \ {"bspEnter"} /\ l \in Open /\ l \notin {"giveUp", "unsync"}
    BY <2>1 DEF Pre, BspPath, Open, Handling
  <2> QED
    BY <1>0, <2>1, <2>2, PromptedKept
<1>10. ASSUME NEW c \in Cpus, Lockdown(c)
       PROVE  Prompted'
  <2>1. PICK l : /\ pc[c] = "lockdown" /\ pc' = [pc EXCEPT ![c] = l] /\ mode' = mode
                 /\ counter' = Locked /\ l \in {"waitArrival", "allPresent"}
    BY <1>10 DEF Lockdown, Continue, Goto
  <2>2. pc[c] \in BspPath \ {"bspEnter"}
    BY <2>1 DEF BspPath
  <2> QED
    BY <1>0, <2>1, <2>2 DEF Prompted, Types
<1>11. ASSUME NEW c \in Cpus,
              \/ LockBusy(c) \/ StartupLocks(c) \/ StartupFails(c) \/ StartupReleases(c)
              \/ StartupWaits(c) \/ HandlersReturn(c) \/ Drain(c)
              \/ \E a \in Cpus : StartupThisAp(c, a)
       PROVE  Prompted'
  <2>1. PICK l : /\ pc' = [pc EXCEPT ![c] = l] /\ UNCHANGED <<mode, counter>>
                 /\ pc[c] \in Handling /\ l \in Handling
    BY <1>0, <1>11 DEF LockBusy, StartupLocks, StartupFails, StartupReleases,
       StartupWaits, StartupReturns, HandlersReturn, Drain, StartupThisAp, Continue, Turn, Goto,
       sync, Types, Handling
  <2>2. /\ pc[c] \in BspPath \ {"bspEnter"} /\ l \notin {"giveUp", "unsync"}
        /\ pc[c] \in Open => l \in Open
    BY <2>1 DEF BspPath, Open, Handling
  <2> QED
    BY <1>0, <2>1, <2>2, PromptedKept
<1>12. ASSUME NEW c \in Cpus,
              \/ AllPresent(c) \/ NotInside(c) \/ ReleaseAllAPs(c) \/ WaitForAllAPs(c)
              \/ AllAPsWaitedFor(c) \/ BspAbsent(c) \/ ForgetBsp(c)
       PROVE  Prompted'
  <2>1. PICK l \in BspPath \ {"bspEnter"} :
          /\ pc' = [pc EXCEPT ![c] = l] /\ UNCHANGED <<mode, counter>>
          /\ pc[c] \in BspPath \ {"bspEnter"} /\ pc[c] \notin Open
    BY <1>0, <1>12, Tables, AllTable DEF AllPresent, NotInside, ReleaseAllAPs, WaitForAllAPs,
       AllAPsWaitedFor, BspAbsent, ForgetBsp, AfterReset, Releases, Continue, Turn, Goto, sync,
       Types, BspPath, Open, Handling
  <2>2. l \notin {"giveUp", "unsync"}
    BY DEF BspPath
  <2> QED
    BY <1>0, <2>1, <2>2, PromptedKept
<1>13. ASSUME NEW c \in Cpus, LoopEnds(c)
       PROVE  Prompted'
  <2>1. PICK l \in BspPath \ {"bspEnter"} :
          /\ pc' = [pc EXCEPT ![c] = l] /\ UNCHANGED <<mode, counter>>
          /\ pc[c] \in BspPath \ {"bspEnter"} /\ (pc[c] \in Open => l \in Open)
    BY <1>0, <1>13, Tables, LoopTable DEF LoopEnds, Continue, Goto, sync, BspPath, Open, Handling
  <2>2. l \notin {"giveUp", "unsync"}
    BY DEF BspPath
  <2> QED
    BY <1>0, <2>1, <2>2, PromptedKept
<1>14. ASSUME NEW c \in Cpus, Reopen(c)
       PROVE  Prompted'
  <2>1. pc[c] = "reopen" /\ pc' = [pc EXCEPT ![c] = "unsync"]
    BY <1>14 DEF Reopen, AfterReset, Goto
  <2>2. \A b \in Cpus : pc'[b] \notin BspPath
    BY <1>0, <2>1, AllOut DEF Types, Out, BspPath
  <2> QED
    BY <2>2 DEF Prompted
<1> QED
  BY <1>1, <1>2, <1>3, <1>4, <1>5, <1>6, <1>7, <1>8, <1>9, <1>10, <1>11, <1>12, <1>13, <1>14
     DEF Next, Step, ApStep, BspStep

\* A step of a processor that is not the BSP, and does not become it.
LEMMA InSyncBeside ==
  ASSUME RunInv, Prompted, InSync, NEW c \in Cpus, NEW l,
         pc[c] \notin BspPath \/ pc[c] = "bspEnter", l \notin BspPath \ {"bspEnter"},
         pc' = [pc EXCEPT ![c] = l], UNCHANGED <<mode, allCpusInSync, index>>,
         \A d \in Cpus \ {c} : pending[d] => pending'[d],
         \A b \in Cpus \ {c} :
           pc[b] \in Inside /\ pc[b] # "bspEnter" /\ mode.prompt /\ mode.sync = "traditional"
             => \/ l \in {"valid", "progress", "arrive"} \cup ApLabels
                \/ l = "late" /\ pc[b] \in Synced
                \/ l = "outside" /\ pending'[c] = pending[c]
                     /\ (pc[c] \in {"late", "leave"} /\ ~allCpusInSync)
                \/ l = "leave" /\ ~Swept(b, c)
  PROVE  InSync'
<1>1. Types
  BY DEF RunInv
<1>2. pc'[c] = l /\ \A a \in Cpus \ {c} : pc'[a] = pc[a]
  BY <1>1 DEF Types
<1>3. ASSUME mode.prompt, mode.sync = "traditional", NEW b \in Cpus
      PROVE  /\ pc'[b] \in Synced => allCpusInSync'
             /\ \A a \in Cpus : Exists(a)' /\ Swept(b, a)' => Held(b, a)'
  <2>1. CASE b = c
    <3>1. l \notin Synced /\ l # "sendIpis" /\ l \notin {"arrival2", "sync"}
      BY DEF Synced, BspPath, Pre
    <3> QED
      BY <1>2, <2>1, <3>1 DEF Swept
  <2>2. CASE b # c
    <3>1. pc[b] \in Synced => allCpusInSync
      BY <1>3 DEF InSync
    <3>2. ASSUME NEW a \in Cpus, Exists(a)', Swept(b, a)'
          PROVE  Held(b, a)'
      <4>1. Exists(a) /\ Swept(b, a)
        BY <1>2, <2>2, <3>2 DEF Exists, Swept
      <4>2. Held(b, a)
        BY <1>3, <4>1 DEF InSync
      <4>3. CASE a # c
        BY <1>2, <2>2, <4>2, <4>3 DEF Held
      <4>4. CASE a = c
        <5>1. pc[b] \in Inside /\ pc[b] # "bspEnter"
          BY <4>1 DEF Swept, Inside, BspPath
        <5>2. \/ l \in {"valid", "progress", "arrive"} \cup ApLabels
              \/ l = "late" /\ pc[b] \in Synced
              \/ l = "outside" /\ pending'[c] = pending[c]
                   /\ (pc[c] \in {"late", "leave"} /\ ~allCpusInSync)
          BY <1>3, <2>2, <4>1, <4>4, <5>1
        <5>3. CASE l \in {"valid", "progress", "arrive"} \cup ApLabels
          BY <1>2, <4>4, <5>3 DEF Held
        <5>4. CASE l = "late" /\ pc[b] \in Synced
          BY <1>2, <2>2, <4>4, <5>4 DEF Held
        <5>5. CASE /\ l = "outside" /\ pending'[c] = pending[c]
                   /\ pc[c] \in {"late", "leave"} /\ ~allCpusInSync
          <6>1. pc[c] \notin {"valid", "progress", "arrive"} \cup ApLabels \cup BspPath
            BY <5>5, ApLabelSet DEF BspPath
          <6>2. pending[c]
            BY <3>1, <4>2, <4>4, <5>5, <6>1 DEF Held
          <6> QED
            BY <4>4, <5>5, <6>2 DEF Held
        <5> QED
          BY <5>2, <5>3, <5>4, <5>5
      <4> QED
        BY <4>3, <4>4
    <3> QED
      BY <1>2, <2>2, <3>1, <3>2
  <2> QED
    BY <2>1, <2>2
<1> QED
  BY <1>3 DEF InSync

\* A step of the BSP.
LEMMA InSyncOwn ==
  ASSUME RunInv, InSync, NEW c \in Cpus, pc[c] \in BspPath, NEW l \in BspPath,
         pc' = [pc EXCEPT ![c] = l], UNCHANGED <<mode, pending>>,
         l \in Synced => \/ pc[c] \in Synced /\ allCpusInSync' = allCpusInSync
                         \/ allCpusInSync' = TRUE,
         mode.sync = "traditional" /\ pc[c] \in Synced => l \in Synced,
         mode.sync = "traditional" =>
           \A a \in Cpus \ {c} :
             Swept(c, a)' => Swept(c, a) \/ (Exists(a) => pc[a] \in ApLabels)
  PROVE  InSync'
<1>1. Types /\ Running(c)
  BY InBsp DEF RunInv
<1>2. pc'[c] = l /\ \A a \in Cpus \ {c} : pc'[a] = pc[a] /\ pc[a] \notin BspPath
  BY <1>1 DEF Types, Running, Follows
<1>3. ASSUME mode.prompt, mode.sync = "traditional", NEW b \in Cpus
      PROVE  /\ pc'[b] \in Synced => allCpusInSync'
             /\ \A a \in Cpus : Exists(a)' /\ Swept(b, a)' => Held(b, a)'
  <2>1. CASE b # c
    <3>1. /\ pc'[b] \notin BspPath /\ Synced \subseteq BspPath
          /\ {"sendIpis", "arrival2", "sync"} \subseteq BspPath
      BY <1>2, <2>1 DEF Synced, BspPath, Pre
    <3> QED
      BY <3>1 DEF Swept
  <2>2. CASE b = c
    <3>1. l \in Synced => allCpusInSync'
      BY <1>3 DEF InSync
    <3>2. ASSUME NEW a \in Cpus, Exists(a)', Swept(c, a)'
          PROVE  Held(c, a)'
      <4>1. CASE a = c
        BY <1>2, <4>1 DEF Held
      <4>2. CASE a # c
        <5>1. Exists(a) /\ pc'[a] = pc[a] /\ pending'[a] = pending[a]
          BY <1>2, <3>2, <4>2 DEF Exists
        <5>2. CASE pc[a] \in ApLabels
          BY <5>1, <5>2 DEF Held
        <5>3. CASE Swept(c, a)
          <6>1. Held(c, a)
            BY <1>3, <5>1, <5>3 DEF InSync
          <6> QED
            BY <1>2, <1>3, <5>1, <6>1 DEF Held
        <5> QED
          BY <1>3, <3>2, <4>2, <5>1, <5>2, <5>3
      <4> QED
        BY <4>1, <4>2
    <3> QED
      BY <1>2, <2>2, <3>1, <3>2
  <2> QED
    BY <2>1, <2>2
<1> QED
  BY <1>3 DEF InSync

\* When the counter has reached the number of processors every one is counted.
LEMMA EverybodyCounted ==
  ASSUME RunInv, NEW c \in Cpus, pc[c] # "outside",
         1 + Cardinality(At(pc, ApLabels, c)) >= mode.cpus,
         NEW a \in Cpus \ {c}, Exists(a)
  PROVE  pc[a] \in ApLabels
<1>1. /\ Cardinality(At(pc, ApLabels, c)) \in Nat /\ IsFiniteSet(At(pc, ApLabels, c))
  BY AtCount
<1>2. PICK E : /\ IsFiniteSet(E) /\ Cardinality(E) = mode.cpus - 1
               /\ At(pc, ApLabels, c) \subseteq E
               /\ a \in E
  BY Counted DEF RunInv
<1>3. mode.cpus \in Int
  BY ModeTypes, Constants DEF RunInv
<1>4. Cardinality(At(pc, ApLabels, c)) = Cardinality(E)
  <2>1. Cardinality(At(pc, ApLabels, c)) <= Cardinality(E)
    BY <1>2, FS_Subset
  <2> QED
    BY <1>1, <1>2, <1>3, <2>1
<1>5. At(pc, ApLabels, c) = E
  BY <1>2, <1>4, FS_Subset
<1> QED
  BY <1>2, <1>5 DEF At

\* Where the traditional mode's BSP is while processors come in or wait.
LEMMA InsideRun ==
  ASSUME RunInv, NEW b \in Cpus, pc[b] \in Inside, NEW c \in Cpus \ {b}
  PROVE  /\ Running(b) /\ Follows(b, c) /\ insideSmm /\ bspIndex = b
         /\ counter = Locked /\ Gathers => pc[b] \in Synced
         /\ pc[c] # "apDone"
<1>1. Running(b) /\ Stage(b) /\ Follows(b, c) /\ Types
  <2>1. Running(b)
    BY InBsp DEF Inside
  <2> QED
    BY <2>1 DEF Running, RunInv
<1>2. insideSmm /\ bspIndex = b
  BY <1>1 DEF Running, Inside
<1>3. counter = Locked /\ Gathers => pc[b] \in Synced
  <2>1. Cardinality(At(pc, ApLabels, b)) \in 0 .. N - 1
    BY AtCount
  <2>2. counter = Locked => pc[b] \notin Open
    BY <1>1, <2>1, Constants DEF Stage
  <2> QED
    BY <2>2 DEF Synced, Open, Pre, Inside
<1>4. pc[c] # "apDone"
  BY <1>1 DEF Follows, Resets, After, Inside
<1> QED
  BY <1>1, <1>2, <1>3, <1>4

\* Every step keeps InSync.
LEMMA InSyncStep == RunInv /\ Prompted /\ InSync /\ [Next]_vars => InSync'
<1> SUFFICES ASSUME RunInv, Prompted, InSync, [Next]_vars PROVE InSync'
  OBVIOUS
<1>0. Types
  BY DEF RunInv
<1>1. CASE TriggerSmi \/ UNCHANGED vars
  <2>1. UNCHANGED <<mode, pc, allCpusInSync, index>>
    BY <1>1 DEF TriggerSmi, vars, sync, handler
  <2>2. \A c \in Cpus : Exists(c) /\ pending[c] => pending'[c]
    BY <1>1 DEF TriggerSmi, vars, smis
  <2> QED
    BY <2>1, <2>2 DEF InSync, Swept, Held, Exists
<1>2. ASSUME NEW c \in Cpus, Enter(c) \/ ReadValidSmi(c) \/ ReadBspInProgress(c)
      PROVE  InSync'
  <2>1. PICK l \in {"valid", "progress", "arrive", "outside"} :
          /\ pc' = [pc EXCEPT ![c] = l] /\ UNCHANGED <<mode, allCpusInSync, index>>
          /\ l = "outside" => ~insideSmm
          /\ pc[c] \in {"outside", "valid", "progress"}
          /\ \A d \in Cpus \ {c} : pending[d] => pending'[d]
    BY <1>0, <1>2 DEF Enter, ReadValidSmi, ReadBspInProgress, Goto, sync, handler, smis, Types
  <2>2. \A b \in Cpus \ {c} : pc[b] \in Inside => l # "outside"
    BY <2>1, InsideRun
  <2>3. pc[c] \notin BspPath /\ l \notin BspPath
    BY <2>1 DEF BspPath
  <2> QED
    BY <2>1, <2>2, <2>3, InSyncBeside
<1>3. ASSUME NEW c \in Cpus, Arrive(c) \/ FreeBusy(c) \/ Elect(c) \/ Elected(c)
      PROVE  InSync'
  <2>1. PICK l \in {"late", "free", "apTimer", "elect", "elected", "bspEnter"} :
          /\ pc' = [pc EXCEPT ![c] = l] /\ UNCHANGED <<mode, allCpusInSync, index, pending>>
          /\ l = "late" => Inc(counter) = 0
          /\ l = "bspEnter" => bspIndex = c
          /\ pc[c] \in {"arrive", "free", "elect", "elected"}
    BY <1>3 DEF Arrive, FreeBusy, Elect, Elected, Goto, sync, handler, smis
  <2>2. l = "late" => counter = Locked
    <3>1. counter \in 0 .. Locked
      BY <1>0 DEF Types
    <3>2. counter < Locked => Inc(counter) = counter + 1
      BY <3>1, Semaphore
    <3> QED
      BY <2>1, <3>1, <3>2, Constants
  <2>3. \A b \in Cpus \ {c} :
          /\ pc[b] \in Inside => l # "bspEnter"
          /\ pc[b] \in Inside /\ mode.sync = "traditional" /\ l = "late" => pc[b] \in Synced
    BY <2>1, <2>2, InsideRun DEF Gathers
  <2>4. pc[c] \notin BspPath /\ l \notin BspPath \ {"bspEnter"}
    BY <2>1 DEF BspPath
  <2> QED
    BY <2>1, <2>3, <2>4, InSyncBeside, ApLabelSet
<1>4. ASSUME NEW c \in Cpus, Leave(c)
      PROVE  InSync'
  <2>1. /\ pc' = [pc EXCEPT ![c] = "outside"] /\ UNCHANGED <<mode, allCpusInSync, index, pending>>
        /\ pc[c] \in {"late", "leave"} /\ ~allCpusInSync
    BY <1>4 DEF Leave, Goto, sync, handler, smis
  <2>2. pc[c] \notin BspPath /\ "outside" \notin BspPath
    BY <2>1 DEF BspPath
  <2> QED
    BY <2>1, <2>2, InSyncBeside
<1>5. ASSUME NEW c \in Cpus, ClearInSync(c)
      PROVE  InSync'
  <2>1. pc[c] = "unsync" /\ pc' = [pc EXCEPT ![c] = "leave"] /\ mode' = mode
    BY <1>5 DEF ClearInSync, AfterReset, Goto
  <2>2. ASSUME mode'.prompt, NEW b \in Cpus
        PROVE  pc'[b] \notin Synced /\ \A a \in Cpus : ~Swept(b, a)'
    <3>1. pc'[b] \notin BspPath \ {"bspEnter"}
      BY <1>0, <2>1, <2>2 DEF Prompted, Types, BspPath
    <3> QED
      BY <3>1 DEF Synced, Swept, Inside, BspPath, Pre
  <2> QED
    BY <2>2 DEF InSync
<1>6. ASSUME NEW c \in Cpus, ApStep(c)
      PROVE  InSync'
  <2>1. PICK l :
          /\ pc' = [pc EXCEPT ![c] = l] /\ UNCHANGED <<mode, allCpusInSync, index>>
          /\ \A d \in Cpus : pending[d] => pending'[d]
          /\ pc[c] \in ApLabels
          /\ \/ l \in ApLabels
             \/ l = "leave" /\ pc[c] \in {"giveUp", "apDone"}
    <3>1. CASE BspAppears(c) \/ BspTimeout(c) \/ BringBspIn(c) \/ GiveUp(c)
      BY <1>0, <3>1, ApLabelSet DEF BspAppears, BspTimeout, BringBspIn, GiveUp, SendSmiIpi,
         AfterTimeout, Goto, sync, handler, smis, Types
    <3>2. CASE ApPresent(c) \/ ApSignals(c) \/ ApWaits(c)
      BY <3>2, ApLabelSet, Tables, SignalTable, WaitTable DEF ApPresent, ApSignals, ApWaits,
         Goto, sync, handler, smis
    <3>3. CASE ApChecks(c) \/ ApProcedure(c) \/ ApAbsent(c)
      BY <3>3, ApLabelSet DEF ApChecks, ApProcedure, ApAbsent, Goto, sync, handler, smis
    <3> QED
      BY <1>6, <3>1, <3>2, <3>3 DEF ApStep
  <2>2. ASSUME NEW b \in Cpus \ {c}, pc[b] \in Inside, mode.prompt
        PROVE  l # "leave"
    <3>1. pc[b] \in BspPath \ {"bspEnter"}
      BY <2>2 DEF Inside
    <3>2. pc[c] # "giveUp"
      BY <2>2, <3>1 DEF Prompted
    <3>3. pc[c] # "apDone"
      BY <2>2, InsideRun
    <3> QED
      BY <2>1, <3>2, <3>3, ApLabelSet
  <2>3. pc[c] \notin BspPath /\ l \notin BspPath
    BY <2>1, ApLabelSet DEF BspPath
  <2> QED
    BY <2>1, <2>2, <2>3, InSyncBeside
<1>7. ASSUME NEW c \in Cpus,
             \/ BspEnter(c) \/ BspPresent(c) \/ ClearTopLevelSmiStatus(c)
             \/ ArrivalTimeout2(c) \/ SetInSync(c) \/ Lockdown(c)
      PROVE  InSync'
  <2>1. PICK l : /\ pc' = [pc EXCEPT ![c] = l] /\ UNCHANGED <<mode, pending>>
                 /\ \/ pc[c] = "bspEnter" /\ l = "bspPresent"
                    \/ pc[c] = "bspPresent" /\ l = "clearStatus"
                    \/ pc[c] = "clearStatus" /\ l = IF Gathers THEN "arrival" ELSE "lockBusy"
                    \/ pc[c] = "arrival2" /\ l = "sync"
                    \/ pc[c] = "sync" /\ l = "lockdown"
                    \/ /\ pc[c] = "lockdown"
                       /\ l = IF Gathers THEN "waitArrival" ELSE "allPresent"
                 /\ allCpusInSync' = IF pc[c] = "sync" THEN TRUE ELSE allCpusInSync
    BY <1>7 DEF BspEnter, BspPresent, ClearTopLevelSmiStatus, ArrivalTimeout2, SetInSync, Lockdown,
       Continue, Goto, sync, smis
  <2>2. /\ pc[c] \in BspPath /\ l \in BspPath
        /\ mode.sync = "traditional" => Gathers
    BY <2>1 DEF BspPath, Gathers
  <2>3. /\ l = "lockBusy" \/ (l \in Synced =>
             \/ pc[c] \in Synced /\ allCpusInSync' = allCpusInSync
             \/ allCpusInSync' = TRUE)
        /\ mode.sync = "traditional" /\ pc[c] \in Synced => l \in Synced
    BY <2>1 DEF Synced, Pre, BspPath
  <2>4. mode.sync = "traditional" => \A a \in Cpus \ {c} : Swept(c, a)' => Swept(c, a)
    BY <1>0, <2>1, <2>2 DEF Swept, Synced, Inside, Pre, BspPath, Types
  <2>5. CASE mode.sync = "traditional"
    <3>1. l # "lockBusy"
      BY <2>1, <2>2, <2>5
    <3> QED
      BY <2>1, <2>2, <2>3, <2>4, <3>1, InSyncOwn
  <2>6. CASE mode.sync # "traditional"
    BY <2>1, <2>6 DEF InSync
  <2> QED
    BY <2>5, <2>6
<1>8. ASSUME NEW c \in Cpus, ArrivalTimeout(c)
      PROVE  InSync'
  <2>1. PICK l \in {"sync", "sendIpis"} :
          /\ pc[c] = "arrival" /\ pc' = [pc EXCEPT ![c] = l]
          /\ l = "sync" => counter >= mode.cpus
          /\ l = "sendIpis" => index' = N
          /\ UNCHANGED <<mode, pending, allCpusInSync>>
    BY <1>8, Tables DEF ArrivalTimeout, AllArrived, Continue, Goto, sync, smis
  <2>2. /\ pc[c] \in BspPath /\ l \in BspPath /\ l \notin Synced /\ pc[c] \notin Synced
    BY <2>1 DEF BspPath, Synced, Pre
  <2>3. ASSUME NEW a \in Cpus \ {c}, Swept(c, a)', Exists(a)
        PROVE  pc[a] \in ApLabels
    <3>1. CASE l = "sync"
      <4>1. counter = 1 + Cardinality(At(pc, ApLabels, c))
        <5>1. Stage(c)
          BY <2>2, InBsp DEF Running
        <5> QED
          BY <2>1, <5>1 DEF Stage, Open
      <4> QED
        BY <2>1, <2>3, <3>1, <4>1, EverybodyCounted DEF Exists
    <3>2. CASE l = "sendIpis"
      <4>1. pc'[c] = "sendIpis" /\ index' = N /\ ~(a >= N)
        BY <1>0, <2>1, <3>2, Constants DEF Types
      <4> QED
        BY <2>3, <4>1 DEF Swept, Synced, Pre
    <3> QED
      BY <3>1, <3>2
  <2> QED
    BY <2>1, <2>2, <2>3, InSyncOwn
<1>9. ASSUME NEW c \in Cpus, SendSmiIpis(c)
      PROVE  InSync'
  <2>1. /\ pc[c] = "sendIpis" /\ index > 0 /\ index' = index - 1
        /\ UNCHANGED <<mode, pc, allCpusInSync, present>>
        /\ \A d \in Cpus : pending[d] => pending'[d]
        /\ \A d \in Cpus : d = This /\ Exists(d) /\ ~present[d] => pending'[d]
    BY <1>0, <1>9 DEF SendSmiIpis, SendSmiIpi, Turn, sync, cpuData, Types
  <2>2. Running(c) /\ \A a \in Cpus \ {c} : Follows(c, a) /\ pc[a] \notin BspPath
    <3>1. Running(c)
      BY <2>1, InBsp DEF BspPath
    <3> QED
      BY <3>1 DEF Running, Follows
  <2>3. ASSUME mode.prompt, mode.sync = "traditional", NEW b \in Cpus, NEW a \in Cpus,
               Exists(a), Swept(b, a)'
        PROVE  Held(b, a)'
    <3>1. b = c
      BY <2>1, <2>2, <2>3 DEF Swept, Inside, BspPath
    <3>2. CASE Swept(b, a)
      <4>1. Held(b, a)
        BY <2>3, <3>2 DEF InSync
      <4> QED
        BY <2>1, <4>1 DEF Held
    <3>3. CASE ~Swept(b, a)
      <4>1. a = This
        <5>1. a >= index - 1 /\ ~(a >= index)
          BY <2>1, <2>3, <3>1, <3>3 DEF Swept, Synced, Pre
        <5>2. a \in Int /\ index \in Int
          BY <1>0, Constants DEF Types
        <5> QED
          BY <5>1, <5>2 DEF This
      <4>2. CASE a = c
        BY <2>1, <4>2 DEF Held, BspPath
      <4>3. CASE a # c /\ present[a]
        <5>1. pc[a] \in ApLabels
          BY <2>2, <4>3, ApLabelSet DEF RunInv, Entering, Follows, PresentAp, PresentBsp, BspPath
        <5> QED
          BY <2>1, <5>1 DEF Held
      <4>4. CASE ~present[a]
        BY <2>1, <2>3, <4>1, <4>4 DEF Held
      <4> QED
        BY <4>2, <4>3, <4>4
    <3> QED
      BY <3>2, <3>3
  <2> QED
    BY <2>1, <2>3 DEF InSync, Exists
<1>10. ASSUME NEW c \in Cpus,
              \/ LockBusy(c) \/ StartupLocks(c) \/ StartupFails(c) \/ StartupReleases(c)
              \/ StartupWaits(c) \/ HandlersReturn(c) \/ Drain(c)
              \/ \E a \in Cpus : StartupThisAp(c, a)
       PROVE  InSync'
  <2>1. PICK l : /\ pc' = [pc EXCEPT ![c] = l] /\ UNCHANGED <<mode, pending, allCpusInSync>>
                 /\ pc[c] \in Handling /\ l \in Handling
    BY <1>0, <1>10 DEF LockBusy, StartupLocks, StartupFails, StartupReleases,
       StartupWaits, StartupReturns, HandlersReturn, Drain, StartupThisAp, Continue, Turn, Goto,
       sync, smis, Types, Handling
  <2>2. /\ pc[c] \in BspPath /\ l \in BspPath /\ pc[c] \in Synced /\ l \in Synced
        /\ pc[c] \in Inside
    BY <2>1 DEF BspPath, Handling, Synced, Pre, Inside
  <2>3. \A a \in Cpus \ {c} : Swept(c, a)
    BY <2>2 DEF Swept
  <2> QED
    BY <2>1, <2>2, <2>3, InSyncOwn
<1>11. ASSUME NEW c \in Cpus,
              \/ AllPresent(c) \/ NotInside(c) \/ ReleaseAllAPs(c) \/ WaitForAllAPs(c)
              \/ AllAPsWaitedFor(c) \/ BspAbsent(c) \/ ForgetBsp(c)
       PROVE  InSync'
  <2>1. PICK l :
          /\ pc' = [pc EXCEPT ![c] = l] /\ UNCHANGED <<mode, pending, allCpusInSync>>
          /\ pc[c] \in BspPath \ Pre /\ l \in BspPath \ Pre
          /\ l \in Inside => pc[c] \in Inside
    BY <1>0, <1>11, Tables, AllTable DEF AllPresent, NotInside, ReleaseAllAPs, WaitForAllAPs,
       AllAPsWaitedFor, BspAbsent, ForgetBsp, AfterReset, Releases, Continue, Turn, Goto, sync,
       smis, Types, BspPath, Pre, Inside
  <2>2. pc[c] \in Synced /\ l \in Synced
    BY <2>1 DEF Synced
  <2>3. \A a \in Cpus \ {c} : Swept(c, a)' => Swept(c, a)
    BY <1>0, <2>1, <2>2 DEF Swept, Types, Pre
  <2> QED
    BY <2>1, <2>2, <2>3, InSyncOwn
<1>12. ASSUME NEW c \in Cpus, LoopEnds(c)
       PROVE  InSync'
  <2>1. PICK l :
          /\ pc' = [pc EXCEPT ![c] = l] /\ UNCHANGED <<mode, pending, allCpusInSync>>
          /\ index = 0
          /\ \/ pc[c] = "sendIpis" /\ l = "arrival2"
             \/ pc[c] = "drain" /\ l = IF Gathers THEN "exit" ELSE "sync"
             \/ /\ pc[c] \in BspPath \ Pre /\ l \in BspPath \ Pre
                /\ l \in Inside => pc[c] \in Inside
    BY <1>12, Tables, LoopTable DEF LoopEnds, Continue, Goto, sync, smis, BspPath, Pre, Inside
  <2>2. CASE mode.sync # "traditional"
    BY <2>1, <2>2 DEF InSync
  <2>3. CASE mode.sync = "traditional"
    <3>1. /\ pc[c] \in BspPath /\ l \in BspPath /\ (l \in Synced <=> pc[c] \in Synced)
      BY <2>1, <2>3 DEF BspPath, Pre, Synced, Gathers
    <3>2. \A a \in Cpus \ {c} : Swept(c, a)' => Swept(c, a)
      <4>1. \A a \in Cpus : a >= index
        BY <2>1, Constants
      <4> QED
        BY <1>0, <2>1, <2>3, <4>1 DEF Swept, Synced, Types, Pre, Inside, BspPath, Gathers
    <3> QED
      BY <2>1, <3>1, <3>2, InSyncOwn
  <2> QED
    BY <2>2, <2>3
<1>13. ASSUME NEW c \in Cpus, Reopen(c)
       PROVE  InSync'
  <2>1. pc[c] = "reopen" /\ pc' = [pc EXCEPT ![c] = "unsync"]
    BY <1>13 DEF Reopen, AfterReset, Goto
  <2>2. \A b \in Cpus : pc'[b] \notin BspPath
    BY <1>0, <2>1, AllOut DEF Types, Out, BspPath
  <2>3. \A b \in Cpus : pc'[b] \notin Synced /\ \A a \in Cpus : ~Swept(b, a)'
    BY <2>2 DEF Synced, Swept, BspPath, Pre
  <2> QED
    BY <2>3 DEF InSync
<1> QED
  BY <1>1, <1>2, <1>3, <1>4, <1>5, <1>6, <1>7, <1>8, <1>9, <1>10, <1>11, <1>12, <1>13
     DEF Next, Step, BspStep

\* Every reachable state satisfies RunInv; where nobody is held up the BSP also
\* waits for everybody (Prompted) and, in the traditional mode, sweeps everybody
\* in before the handlers (InSync).
THEOREM PromptInvariant == Spec => [](RunInv /\ Prompted /\ InSync)
<1>1. Init => RunInv /\ Prompted /\ InSync
  <2> SUFFICES ASSUME Init PROVE RunInv /\ Prompted /\ InSync
    OBVIOUS
  <2>1. \A b \in Cpus : pc[b] \notin BspPath
    BY DEF Init, BspPath
  <2>2. \A b \in Cpus : pc[b] \notin Synced /\ \A a \in Cpus : ~Swept(b, a)
    BY <2>1 DEF Synced, Swept, BspPath, Pre
  <2> QED
    BY <2>1, <2>2, InitKeeps DEF Prompted, InSync
<1>2. RunInv /\ Prompted /\ InSync /\ [Next]_vars => (RunInv /\ Prompted /\ InSync)'
  BY StepKeeps, PromptedStep, InSyncStep
<1> QED
  BY <1>1, <1>2, PTL DEF Spec

\* How many signals a semaphore holds.
LEMMA RunBound ==
  ASSUME RunInv, NEW c \in Cpus
  PROVE  run[c] \in Counts
<1>1. run[c] \in Nat /\ Types
  BY DEF RunInv, Types
<1>2. CASE Idle
  BY <1>2, Constants DEF Idle
<1>3. ASSUME NEW b \in Cpus, Running(b), b # c
      PROVE  run[c] \in Counts
  <2>1. Follows(b, c)
    BY <1>3 DEF Running
  <2>2. run[c] \in {0, 1}
    BY <2>1, ApLabelSet DEF Follows, Everywhere, Early
  <2> QED
    BY <2>2, Constants
<1>4. CASE Running(c)
  <2>1. Stage(c) /\ pc[c] \in BspPath
    BY <1>4 DEF Running
  <2>2. \A S : Owed(S, c) \in Nat /\ Owed(S, c) >= run[c]
    <3>1. \A S : Cardinality(At(pc, S \cup {"giveUp"}, c)) \in Nat
      BY AtCount
    <3> QED
      BY <1>1, <3>1 DEF Owed
  <2>3. apCount \in 0 .. N /\ waiting \in 0 .. N /\ counter \in 0 .. Locked
    BY <1>1, Constants DEF Types
  <2>4. CASE pc[c] \in Open
    <3>1. Cardinality(At(pc, ApLabels, c)) \in 0 .. N - 1
      BY AtCount
    <3>2. counter - 1 \in 0 .. N
      BY <2>1, <2>4, <3>1, Constants DEF Stage
    <3>3. run[c] = 0 \/ counter - 1 = Owed(UpToArrived, c)
      BY <2>1, <2>4 DEF Stage
    <3>4. Owed(UpToArrived, c) \in Nat /\ Owed(UpToArrived, c) >= run[c]
      BY <2>2
    <3> HIDE DEF Owed
    <3> QED
      BY <1>1, <3>2, <3>3, <3>4, Constants
  <2>5. CASE pc[c] \notin Open
    <3>1. \/ run[c] = 0
          \/ \E S : apCount = Owed(S, c) \/ waiting = Owed(S, c)
                      \/ waiting = Owed(S, c) + Locked - counter
      <4> HIDE DEF Owed
      <4>1. \/ pc[c] \in Handling \cup {"exit", "allPresent", "forget", "reopen"}
            \/ pc[c] \in {"waitArrival", "releaseBackup", "waitBackup", "releaseProgram",
                          "waitProgram", "releaseExit", "waitExit"}
            \/ pc[c] \in {"releaseRestore", "waitRestore", "releaseReset", "bspAbsent", "waitReset"}
        BY <2>1, <2>5 DEF BspPath, Open, Handling
      <4> QED
        BY <2>1, <4>1 DEF Stage
    <3> HIDE DEF Owed
    <3> QED
      BY <1>1, <2>2, <2>3, <3>1, Constants
  <2> QED
    BY <2>4, <2>5
<1> QED
  BY <1>2, <1>3, <1>4 DEF RunInv

\* Where nobody is held up the variables have their types: the counter does not
\* run past what it counts.
THEOREM TypeOKHolds == Spec => [](mode.prompt => TypeOK)
<1>1. RunInv /\ Prompted => (mode.prompt => TypeOK)
  <2> SUFFICES ASSUME RunInv, Prompted, mode.prompt PROVE TypeOK
    OBVIOUS
  <2>1. Types
    BY DEF RunInv
  <2>2. run \in [Cpus -> Counts]
    BY <2>1, RunBound DEF Types
  <2>3. counter \in Counts \cup {Locked}
    <3>1. CASE Idle
      <4>1. Cardinality(At(pc, Early, None)) \in 0 .. N
        BY AtCount
      <4> QED
        BY <3>1, <4>1, Constants DEF Idle
    <3>2. ASSUME NEW b \in Cpus, Running(b)
          PROVE  counter \in Counts \cup {Locked}
      <4>1. CASE pc[b] \in Open
        <5>1. Cardinality(At(pc, ApLabels, b)) \in 0 .. N - 1
          BY AtCount
        <5> QED
          BY <3>2, <4>1, <5>1, Constants DEF Running, Stage
      <4>2. CASE pc[b] \notin Open
        BY <3>2, <4>2 DEF Running, Prompted, Open
      <4> QED
        BY <4>1, <4>2
    <3> QED
      BY <3>1, <3>2 DEF RunInv
  <2>4. pc \in [Cpus -> Labels]
    BY <2>1, LabelSet DEF Types
  <2> QED
    BY <2>1, <2>2, <2>3, <2>4 DEF Types, TypeOK
<1> QED
  BY <1>1, PromptInvariant, PTL

\* Where nobody is held up each wait of the BSP is for as many signals as its
\* APs have given or will give for that stage.
THEOREM BalancedHolds == Spec => [](mode.prompt => Balanced)
<1>1. RunInv /\ Prompted => (mode.prompt => Balanced)
  <2> SUFFICES ASSUME RunInv, Prompted, mode.prompt PROVE Balanced
    OBVIOUS
  <2>1. ASSUME NEW b \in Cpus, pc[b] \in DOMAIN AfterAll
        PROVE  /\ Stage(b) /\ counter = Locked
               /\ \A S : Owed(S, b) + Locked - counter = Owed(S, b)
               /\ \A S : Owed(S, b) = run[b] + Cardinality({a \in Cpus \ {b} : pc[a] \in S})
    <3>1. pc[b] \in BspPath \ {"bspEnter"} /\ pc[b] \notin Open
      BY <2>1, Tables DEF BspPath, Open, Handling
    <3>2. Stage(b) /\ counter = Locked /\ \A a \in Cpus : pc[a] # "giveUp"
      BY <3>1, InBsp DEF Running, Prompted
    <3>3. ASSUME NEW S
          PROVE  /\ Owed(S, b) = run[b] + Cardinality({a \in Cpus \ {b} : pc[a] \in S})
                 /\ Owed(S, b) \in Int
      <4>1. At(pc, S \cup {"giveUp"}, b) = {a \in Cpus \ {b} : pc[a] \in S}
        BY <3>2 DEF At
      <4>2. Cardinality(At(pc, S \cup {"giveUp"}, b)) \in Nat
        BY AtCount
      <4>3. run[b] \in Nat
        BY <2>1, <3>1 DEF RunInv, Types, BspPath
      <4>4. Owed(S, b) = run[b] + Cardinality({a \in Cpus \ {b} : pc[a] \in S})
        BY <4>1 DEF Owed
      <4>5. Owed(S, b) \in Int
        <5>1. Owed(S, b) = run[b] + Cardinality(At(pc, S \cup {"giveUp"}, b))
          BY DEF Owed
        <5> HIDE DEF Owed
        <5> QED
          BY <4>2, <4>3, <5>1
      <4> HIDE DEF Owed
      <4> QED
        BY <4>4, <4>5
    <3>4. ASSUME NEW S
          PROVE  Owed(S, b) + Locked - counter = Owed(S, b)
      <4>1. Owed(S, b) \in Int /\ counter = Locked
        BY <3>2, <3>3
      <4> HIDE DEF Owed
      <4> QED
        BY <4>1, Constants
    <3> HIDE DEF Owed
    <3> QED
      BY <3>2, <3>3, <3>4
  <2>2. ASSUME NEW b \in Cpus
        PROVE  /\ pc[b] = "waitArrival" => waiting =
                    run[b] + Cardinality({a \in Cpus \ {b} : pc[a] \in UpToArrived})
               /\ pc[b] = "waitBackup" => waiting =
                    run[b] + Cardinality({a \in Cpus \ {b} : pc[a] \in UpToBackedUp})
               /\ pc[b] = "waitProgram" => waiting =
                    run[b] + Cardinality({a \in Cpus \ {b} : pc[a] \in UpToProgrammed})
               /\ pc[b] = "waitExit" => waiting =
                    run[b] + Cardinality({a \in Cpus \ {b} :
                               pc[a] \in IF mode.mtrr THEN UpToTasksDone ELSE UpToReset})
               /\ pc[b] = "waitRestore" => waiting =
                    run[b] + Cardinality({a \in Cpus \ {b} : pc[a] \in UpToReset})
               /\ pc[b] = "waitReset" => waiting =
                    run[b] + Cardinality({a \in Cpus \ {b} : pc[a] \in UpToDone})
    <3>1. CASE pc[b] \in DOMAIN AfterAll
      <4>1. /\ pc[b] = "waitArrival" => waiting = Owed(UpToArrived, b)
            /\ pc[b] = "waitBackup" => waiting = Owed(UpToBackedUp, b)
            /\ pc[b] = "waitProgram" => waiting = Owed(UpToProgrammed, b)
            /\ pc[b] = "waitExit" =>
                 waiting = Owed(IF mode.mtrr THEN UpToTasksDone ELSE UpToReset, b)
            /\ pc[b] = "waitRestore" => waiting = Owed(UpToReset, b)
            /\ pc[b] = "waitReset" => waiting = Owed(UpToDone, b)
        <5> HIDE DEF Owed
        <5> QED
          BY <2>1, <3>1 DEF Stage
      <4> HIDE DEF Owed
      <4> QED
        BY <2>1, <3>1, <4>1
    <3>2. CASE pc[b] \notin DOMAIN AfterAll
      BY <3>2, Tables
    <3> QED
      BY <3>1, <3>2
  <2> QED
    BY <2>2 DEF Balanced
<1> QED
  BY <1>1, PromptInvariant, PTL

\* Where nobody is held up no processor is in normal mode while the traditional
\* mode's BSP runs the handlers, unless an SMI it has yet to take is pending.
THEOREM NoNormalModeHolds == Spec => [](mode.prompt => NoNormalMode)
<1>1. RunInv /\ InSync => (mode.prompt => NoNormalMode)
  <2> SUFFICES ASSUME RunInv, InSync, mode.prompt, mode.sync = "traditional", insideSmm,
                      NEW b \in Cpus,
                      pc[b] \in BspPath \ {"bspEnter", "bspPresent", "clearStatus", "arrival",
                                           "sendIpis", "arrival2"},
                      NEW c \in Cpus, Exists(c), pc[c] = "outside"
               PROVE  pending[c]
    BY BspLabelSet DEF NoNormalMode
  <2>1. pc[b] \in Inside
    BY InBsp DEF Running
  <2>2. Swept(b, c)
    BY <2>1 DEF Swept, Synced, Pre, BspPath
  <2>3. Held(b, c)
    BY <2>2 DEF InSync
  <2> QED
    BY <2>3, ApLabelSet DEF Held, BspPath
<1> QED
  BY <1>1, PromptInvariant, PTL
=============================================================================
