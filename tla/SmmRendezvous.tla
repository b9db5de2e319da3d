--------------------------- MODULE SmmRendezvous ---------------------------
(***************************************************************************)
(* The rendezvous of the processors in system management mode,             *)
(* UefiCpuPkg/PiSmmCpuDxeSmm/MpService.c.  An SMI takes every processor    *)
(* into SmiRendezvous; one of them, the BSP, gathers the others, runs the  *)
(* SMI handlers, which may start procedures on the others, and lets        *)
(* everybody go.                                                           *)
(*                                                                         *)
(* A processor is its program counter; a step accesses the shared memory   *)
(* once.  Memory is sequentially consistent: the processors are x86, and   *)
(* between a store and the load it could pass there is a locked operation  *)
(* or an access to a device.  A time-out may happen whenever the code      *)
(* waits for one.  An SMI a processor has not taken yet is latched; the    *)
(* processor takes it at any later time, as one does that is delayed or    *)
(* blocked.                                                                *)
(*                                                                         *)
(* Abstracted: what the MTRRs hold, hot-plug, the SMM profile, the debug   *)
(* agent, SwitchBsp, and platform hooks that elect the BSP themselves.     *)
(***************************************************************************)
EXTENDS Integers, FiniteSets

CONSTANTS
  N,     \* mMaxNumberOfCpus
  None,  \* BspIndex before the election, (UINT32)-1
  Modes  \* the configurations to choose from

Cpus   == 0 .. N - 1

\* (UINT32)-1, with words just wide enough for what is counted.
Locked == N + 2
Inc(x) == (x + 1) % (Locked + 1)

\* Mutant: an AP that gives up leaves its arrival counted.
Keep(x) == x

Dec(x) == (x - 1) % (Locked + 1)

\* cpus: mNumberOfCpus; the others have INVALID_APIC_ID.  sync: SyncMode.
\* mtrr: SmmCpuFeaturesNeedConfigureMtrrs ().  elect: PcdCpuSmmEnableBspElection.
\* block: PcdCpuSmmBlockStartupThisAp.  status: the platform has a status bit
\* for PlatformValidSmi to read and ClearTopLevelSmiStatus to clear; without one
\* every SMI is valid.  prompt: the look at InsideSmm after a time-out is timely.
\* When a BSP flags its presence, an AP that has found the flag clear has taken
\* its arrival back, a BSP that leaves has cleared AllCpusInSync, and until then
\* no AP times out.  To be late by a few instructions is enough to break this: a
\* BSP that finds all processors counted goes on without a time-out.
ModeType == [cpus : 1 .. N, sync : {"traditional", "relaxed"}, mtrr : BOOLEAN, elect : BOOLEAN,
             block : BOOLEAN, status : BOOLEAN, prompt : BOOLEAN]

ASSUME ConstantsAssumption ==
  /\ N \in Nat /\ N > 1
  /\ None \notin Nat
  /\ Modes \subseteq ModeType

VARIABLES
  mode,
  pc,            \* where each processor is
  pending,       \* whether an SMI is latched for it
  topLevel,      \* the platform's SMI status bit
  sampled,       \* ValidSmi, then BspInProgress, of SmiRendezvous
  bsp,           \* BspIndex, the local variable of APHandler
  counter,       \* *Counter
  insideSmm,     \* *InsideSmm
  allCpusInSync, \* *AllCpusInSync
  bspIndex,      \* mSmmMpSyncData->BspIndex
  present,       \* *CpuData[].Present
  run,           \* *CpuData[].Run
  busy,          \* *CpuData[].Busy
  apCount,       \* ApCount of BSPHandler
  index,         \* Index of the loops of BSPHandler and the functions it calls
  waiting,       \* NumberOfAPs of WaitForAllAPs
  target         \* CpuIndex of InternalSmmStartupThisAp

smis    == <<pending, topLevel>>
locals  == <<sampled, bsp>>
sync    == <<counter, insideSmm, allCpusInSync, bspIndex>>
cpuData == <<present, run, busy>>
handler == <<apCount, index, waiting, target>>
vars    == <<mode, pc, smis, locals, sync, cpuData, handler>>

Exists(c) == c < mode.cpus

Gathers == mode.sync = "traditional" \/ mode.mtrr

Goto(c, label) == pc' = [pc EXCEPT ![c] = label]

\* WaitForSemaphore, ReleaseSemaphore of a Run semaphore, which is never locked.
Wait(c)    == run[c] > 0 /\ run' = [run EXCEPT ![c] = @ - 1]
Release(c) == run' = [run EXCEPT ![c] = @ + 1]
-----------------------------------------------------------------------------
(****************************** SmiRendezvous ******************************)

\* Something raises an SMI: all processors get it.
TriggerSmi ==
  /\ \E c \in Cpus : Exists(c) /\ ~pending[c]
  /\ pending' = [c \in Cpus |-> Exists(c)]
  /\ topLevel' = mode.status
  /\ UNCHANGED <<mode, pc, locals, sync, cpuData, handler>>

SendSmiIpi(c) == pending' = [pending EXCEPT ![c] = TRUE]

\* Without a status bit PlatformValidSmi reads nothing.
Enter(c) ==
  /\ pc[c] = "outside" /\ pending[c]
  /\ Goto(c, IF mode.status THEN "valid" ELSE "progress")
  /\ sampled' = [sampled EXCEPT ![c] = ~mode.status]
  /\ pending' = [pending EXCEPT ![c] = FALSE]
  /\ UNCHANGED <<mode, topLevel, bsp, sync, cpuData, handler>>

ReadValidSmi(c) ==
  /\ pc[c] = "valid"
  /\ Goto(c, "progress")
  /\ sampled' = [sampled EXCEPT ![c] = topLevel]
  /\ UNCHANGED <<mode, smis, bsp, sync, cpuData, handler>>

ReadBspInProgress(c) ==
  /\ pc[c] = "progress"
  /\ Goto(c, IF insideSmm \/ sampled[c] THEN "arrive" ELSE "outside")
  /\ sampled' = [sampled EXCEPT ![c] = insideSmm]
  /\ UNCHANGED <<mode, smis, bsp, sync, cpuData, handler>>

\* ReleaseSemaphore leaves a locked semaphore alone.
Arrive(c) ==
  /\ pc[c] = "arrive"
  /\ IF Inc(counter) = 0
     THEN Goto(c, "late") /\ sampled' = [sampled EXCEPT ![c] = FALSE] /\ UNCHANGED counter
     ELSE Goto(c, "free") /\ counter' = Inc(counter) /\ UNCHANGED sampled
  /\ UNCHANGED <<mode, smis, bsp, insideSmm, allCpusInSync, bspIndex, cpuData, handler>>

FreeBusy(c) ==
  /\ pc[c] = "free"
  /\ busy' = [busy EXCEPT ![c] = "released"]
  /\ Goto(c, IF sampled[c] THEN "apTimer" ELSE IF mode.elect THEN "elect" ELSE "elected")
  /\ sampled' = [sampled EXCEPT ![c] = FALSE]
  /\ UNCHANGED <<mode, smis, bsp, sync, present, run, handler>>

\* Mutant: a processor makes itself the BSP whoever is.
TakesOver(c) == c

\* The compare exchange with -1.
Elects(c) == IF bspIndex = None THEN c ELSE bspIndex

Elect(c) ==
  /\ pc[c] = "elect"
  /\ bspIndex' = Elects(c)
  /\ Goto(c, "elected")
  /\ UNCHANGED <<mode, smis, locals, counter, insideSmm, allCpusInSync, cpuData, handler>>

Elected(c) ==
  /\ pc[c] = "elected"
  /\ Goto(c, IF bspIndex = c THEN "bspEnter" ELSE "apTimer")
  /\ UNCHANGED <<mode, smis, locals, sync, cpuData, handler>>

\* The two loops that spin while AllCpusInSync, of one who is late and of one
\* who has taken part.
Leave(c) ==
  /\ pc[c] \in {"late", "leave"} /\ ~allCpusInSync
  /\ Goto(c, "outside")
  /\ UNCHANGED <<mode, smis, locals, sync, cpuData, handler>>

(******************************** APHandler ********************************)

\* The BSP is there, within the first time-out or the second.
BspAppears(c) ==
  /\ pc[c] \in {"apTimer", "apTimer2"} /\ insideSmm
  /\ Goto(c, "apPresent")
  /\ UNCHANGED <<mode, smis, locals, sync, cpuData, handler>>

\* Mutant: an AP sends IPIs until the BSP comes.
AlwaysSendsIpi(c) == "apSendIpi"

AfterTimeout(c) == IF pc[c] = "apTimer" THEN "apSendIpi" ELSE "giveUp"

\* A time-out, and the look at InsideSmm that follows it.
BspTimeout(c) ==
  /\ pc[c] \in {"apTimer", "apTimer2"} /\ ~insideSmm
  /\ mode.prompt => \A d \in Cpus : pc[d] # "bspEnter"
  /\ Goto(c, AfterTimeout(c))
  /\ UNCHANGED <<mode, smis, locals, sync, cpuData, handler>>

BringBspIn(c) ==
  /\ pc[c] = "apSendIpi"
  /\ IF bspIndex # None
     THEN SendSmiIpi(bspIndex) /\ Goto(c, "apTimer2")
     ELSE Goto(c, "giveUp") /\ UNCHANGED pending
  /\ UNCHANGED <<mode, topLevel, locals, sync, cpuData, handler>>

\* WaitForSemaphore (Counter), which takes one off a locked semaphore too.
GiveUp(c) ==
  /\ pc[c] = "giveUp" /\ counter # 0
  /\ counter' = Dec(counter)
  /\ Goto(c, "leave")
  /\ UNCHANGED <<mode, smis, locals, insideSmm, allCpusInSync, bspIndex, cpuData, handler>>

ApPresent(c) ==
  /\ pc[c] = "apPresent"
  /\ bsp' = [bsp EXCEPT ![c] = bspIndex]
  /\ present' = [present EXCEPT ![c] = TRUE]
  /\ Goto(c, IF Gathers THEN "apArrived" ELSE "apLoop")
  /\ UNCHANGED <<mode, smis, sampled, sync, run, busy, handler>>

\* Mutant: an AP does not wait for the signal to reset its state.
ResetsAtOnce ==
  [apArrived    |-> IF mode.mtrr THEN "apBackup" ELSE "apLoop",
   apBackedUp   |-> "apProgram",
   apProgrammed |-> "apLoop",
   apTasksDone  |-> "apRestore",
   apReset      |-> "apAbsent",
   apDone       |-> "leave"]

\* What an AP does after it has signalled the BSP ...
AfterSignal ==
  [apArrived    |-> IF mode.mtrr THEN "apBackup" ELSE "apLoop",
   apBackedUp   |-> "apProgram",
   apProgrammed |-> "apLoop",
   apTasksDone  |-> "apRestore",
   apReset      |-> "apClear",
   apDone       |-> "leave"]

\* ... and after a signal from the BSP.
AfterWait ==
  [apBackup  |-> "apBackedUp",
   apProgram |-> "apProgrammed",
   apLoop    |-> "apCheck",
   apRestore |-> "apReset",
   apClear   |-> "apAbsent"]

ApSignals(c) ==
  /\ pc[c] \in DOMAIN AfterSignal
  /\ Release(bsp[c])
  /\ Goto(c, AfterSignal[pc[c]])
  /\ bsp' = IF pc[c] = "apDone" THEN [bsp EXCEPT ![c] = None] ELSE bsp
  /\ UNCHANGED <<mode, smis, sampled, sync, present, busy, handler>>

ApWaits(c) ==
  /\ pc[c] \in DOMAIN AfterWait
  /\ Wait(c)
  /\ Goto(c, AfterWait[pc[c]])
  /\ UNCHANGED <<mode, smis, locals, sync, present, busy, handler>>

ApChecks(c) ==
  /\ pc[c] = "apCheck"
  /\ Goto(c, IF insideSmm THEN "apProcedure"
             ELSE IF mode.mtrr THEN "apTasksDone" ELSE "apReset")
  /\ UNCHANGED <<mode, smis, locals, sync, cpuData, handler>>

\* The procedure has run, and Busy is released.
ApProcedure(c) ==
  /\ pc[c] = "apProcedure"
  /\ busy' = [busy EXCEPT ![c] = "released"]
  /\ Goto(c, "apLoop")
  /\ UNCHANGED <<mode, smis, locals, sync, present, run, handler>>

ApAbsent(c) ==
  /\ pc[c] = "apAbsent"
  /\ present' = [present EXCEPT ![c] = FALSE]
  /\ Goto(c, "apDone")
  /\ UNCHANGED <<mode, smis, locals, sync, run, busy, handler>>

(******************************* BSPHandler ********************************)

\* The loops over Index, and what follows each.  releaseX and waitX are
\* ReleaseAllAPs and WaitForAllAPs: X is for the arrival, the backup, the
\* programming and the restoring of MTRRs, the exit, and the reset.
AfterLoop ==
  [sendIpis       |-> "arrival2",
   releaseBackup  |-> "waitBackup",
   releaseProgram |-> "waitProgram",
   drain          |-> IF Gathers THEN "exit" ELSE "sync",
   releaseExit    |-> "waitExit",
   releaseRestore |-> "waitRestore",
   releaseReset   |-> "bspAbsent"]

AfterAll ==
  [waitArrival |-> IF mode.mtrr THEN "releaseBackup" ELSE "lockBusy",
   waitBackup  |-> "releaseProgram",
   waitProgram |-> "lockBusy",
   waitExit    |-> IF mode.mtrr THEN "releaseRestore" ELSE "releaseReset",
   waitRestore |-> "releaseReset",
   waitReset   |-> "forget"]

Releases == DOMAIN AfterLoop \ {"sendIpis", "drain"}

\* The end of BSPHandler.
AfterReset == [forget |-> "reopen", reopen |-> "unsync", unsync |-> "leave"]

\* The BSP goes on at label, with ApCount = count.
Continue(c, label, count) ==
  /\ Goto(c, label)
  /\ index' = IF label \in DOMAIN AfterLoop THEN N ELSE 0
  /\ waiting' = IF label \in DOMAIN AfterAll THEN count ELSE 0

\* One more turn of its loop.
Turn == index > 0 /\ index' = index - 1 /\ UNCHANGED <<pc, waiting>>
This == index - 1

LoopEnds(c) ==
  /\ pc[c] \in DOMAIN AfterLoop /\ index = 0
  /\ Continue(c, AfterLoop[pc[c]], apCount)
  /\ UNCHANGED <<mode, smis, locals, sync, cpuData, apCount, target>>

Released == This # bspIndex /\ present[This]

ReleaseAllAPs(c) ==
  /\ pc[c] \in Releases
  /\ Turn
  /\ IF Released THEN Release(This) ELSE UNCHANGED run
  /\ UNCHANGED <<mode, smis, locals, sync, present, busy, apCount, target>>

WaitForAllAPs(c) ==
  /\ pc[c] \in DOMAIN AfterAll /\ waiting > 0
  /\ Wait(bspIndex)
  /\ waiting' = waiting - 1
  /\ UNCHANGED <<mode, pc, smis, locals, sync, present, busy, apCount, index, target>>

AllAPsWaitedFor(c) ==
  /\ pc[c] \in DOMAIN AfterAll /\ waiting = 0
  /\ Continue(c, AfterAll[pc[c]], apCount)
  /\ UNCHANGED <<mode, smis, locals, sync, cpuData, apCount, target>>

\* No AP has yet to act on its time-out, and no BSP to clear AllCpusInSync.
Undisturbed == \A d \in Cpus : pc[d] \notin {"giveUp", "unsync"}

BspEnter(c) ==
  /\ pc[c] = "bspEnter"
  /\ mode.prompt => Undisturbed
  /\ insideSmm' = TRUE
  /\ Goto(c, "bspPresent")
  /\ UNCHANGED <<mode, smis, locals, counter, allCpusInSync, bspIndex, cpuData, handler>>

BspPresent(c) ==
  /\ pc[c] = "bspPresent"
  /\ present' = [present EXCEPT ![c] = TRUE]
  /\ Goto(c, "clearStatus")
  /\ UNCHANGED <<mode, smis, locals, sync, run, busy, handler>>

ClearTopLevelSmiStatus(c) ==
  /\ pc[c] = "clearStatus"
  /\ topLevel' = FALSE
  /\ Goto(c, IF Gathers THEN "arrival" ELSE "lockBusy")
  /\ UNCHANGED <<mode, pending, locals, sync, cpuData, handler>>

\* Mutant: the counter is taken for that of the APs.
AllApsArrived == counter >= mode.cpus - 1

AllArrived == counter >= mode.cpus

\* SmmWaitForApArrival: at the end of the first wait IPIs are sent if not all
\* processors have arrived.
ArrivalTimeout(c) ==
  /\ pc[c] = "arrival"
  /\ Continue(c, IF AllArrived THEN "sync" ELSE "sendIpis", 0)
  /\ UNCHANGED <<mode, smis, locals, sync, cpuData, apCount, target>>

SendSmiIpis(c) ==
  /\ pc[c] = "sendIpis"
  /\ Turn
  /\ IF Exists(This) /\ ~present[This] THEN SendSmiIpi(This) ELSE UNCHANGED pending
  /\ UNCHANGED <<mode, topLevel, locals, sync, cpuData, apCount, target>>

ArrivalTimeout2(c) ==
  /\ pc[c] = "arrival2"
  /\ Goto(c, "sync")
  /\ UNCHANGED <<mode, smis, locals, sync, cpuData, handler>>

SetInSync(c) ==
  /\ pc[c] = "sync"
  /\ allCpusInSync' = TRUE
  /\ Goto(c, "lockdown")
  /\ UNCHANGED <<mode, smis, locals, counter, insideSmm, bspIndex, cpuData, handler>>

\* Mutant: ApCount is the number of all processors that have arrived.
Everybody == counter

AllButBsp == counter - 1

Lockdown(c) ==
  /\ pc[c] = "lockdown"
  /\ counter' = Locked
  /\ apCount' = AllButBsp
  /\ Continue(c, IF Gathers THEN "waitArrival" ELSE "allPresent", AllButBsp)
  /\ UNCHANGED <<mode, smis, locals, insideSmm, allCpusInSync, bspIndex, cpuData, target>>

LockBusy(c) ==
  /\ pc[c] = "lockBusy" /\ busy[c] = "released"
  /\ busy' = [busy EXCEPT ![c] = "acquired"]
  /\ Goto(c, "handlers")
  /\ UNCHANGED <<mode, smis, locals, sync, present, run, handler>>

(* SmmCoreEntry: the SMI handlers, which call SmmStartupThisAp. *)

StartupThisAp(c, a) ==
  /\ pc[c] = "handlers" /\ a # c /\ present[a]
  /\ target' = a
  /\ Goto(c, "startBusy")
  /\ UNCHANGED <<mode, smis, locals, sync, cpuData, apCount, index, waiting>>

StartupLocks(c) ==
  /\ pc[c] = "startBusy" /\ busy[target] = "released"
  /\ busy' = [busy EXCEPT ![target] = "acquired"]
  /\ Goto(c, "startRelease")
  /\ UNCHANGED <<mode, smis, locals, sync, present, run, handler>>

StartupReturns(c) ==
  /\ Goto(c, "handlers")
  /\ target' = None
  /\ UNCHANGED <<mode, smis, locals, sync, present, busy, apCount, index, waiting>>

\* A call that does not block is refused while the AP is busy.
StartupFails(c) ==
  /\ pc[c] = "startBusy" /\ ~mode.block /\ busy[target] = "acquired"
  /\ StartupReturns(c)
  /\ UNCHANGED run

StartupReleases(c) ==
  /\ pc[c] = "startRelease"
  /\ Release(target)
  /\ IF mode.block
     THEN /\ Goto(c, "startWait")
          /\ UNCHANGED <<mode, smis, locals, sync, present, busy, handler>>
     ELSE StartupReturns(c)

StartupWaits(c) ==
  /\ pc[c] = "startWait" /\ busy[target] = "released"
  /\ StartupReturns(c)
  /\ UNCHANGED run

\* Mutant: the SMI status bit is cleared after the handlers.
HandlersReturnAndClear(c) ==
  /\ pc[c] = "handlers"
  /\ topLevel' = FALSE
  /\ Continue(c, "drain", 0)
  /\ UNCHANGED <<mode, pending, locals, sync, cpuData, apCount, target>>

HandlersReturn(c) ==
  /\ pc[c] = "handlers"
  /\ Continue(c, "drain", 0)
  /\ UNCHANGED <<mode, smis, locals, sync, cpuData, apCount, target>>

\* Mutant: no AP's task is waited for.
DrainsNobody(c) == TRUE

\* The Busy lock of an AP is acquired and released.
Drains(c) == This = c \/ ~present[This] \/ busy[This] = "released"

Drain(c) ==
  /\ pc[c] = "drain"
  /\ Turn
  /\ Drains(c)
  /\ UNCHANGED <<mode, smis, locals, sync, cpuData, apCount, target>>

\* Present flags are only being set meanwhile: a count of them in one step sees
\* what the last turn of the loop over them sees.
AllPresent(c) ==
  /\ pc[c] = "allPresent" /\ Cardinality({d \in Cpus : present[d]}) > apCount
  /\ Goto(c, "exit")
  /\ UNCHANGED <<mode, smis, locals, sync, cpuData, handler>>

NotInside(c) ==
  /\ pc[c] = "exit"
  /\ insideSmm' = FALSE
  /\ Continue(c, "releaseExit", 0)
  /\ UNCHANGED <<mode, smis, locals, counter, allCpusInSync, bspIndex, cpuData, apCount, target>>

\* Mutant: the BSP does not wait until the APs have reset their state.
BspAbsentFirst(c) ==
  /\ pc[c] = "bspAbsent"
  /\ present' = [present EXCEPT ![c] = FALSE]
  /\ Continue(c, "forget", 0)
  /\ UNCHANGED <<mode, smis, locals, sync, run, busy, apCount, target>>

BspAbsent(c) ==
  /\ pc[c] = "bspAbsent"
  /\ present' = [present EXCEPT ![c] = FALSE]
  /\ Continue(c, "waitReset", apCount)
  /\ UNCHANGED <<mode, smis, locals, sync, run, busy, apCount, target>>

ForgetBsp(c) ==
  /\ pc[c] = "forget"
  /\ bspIndex' = IF mode.elect THEN None ELSE bspIndex
  /\ apCount' = 0
  /\ Goto(c, AfterReset["forget"])
  /\ UNCHANGED <<mode, smis, locals, counter, insideSmm, allCpusInSync, cpuData, index, waiting, target>>

Reopen(c) ==
  /\ pc[c] = "reopen"
  /\ counter' = 0
  /\ Goto(c, AfterReset["reopen"])
  /\ UNCHANGED <<mode, smis, locals, insideSmm, allCpusInSync, bspIndex, cpuData, handler>>

ClearInSync(c) ==
  /\ pc[c] = "unsync"
  /\ allCpusInSync' = FALSE
  /\ Goto(c, AfterReset["unsync"])
  /\ UNCHANGED <<mode, smis, locals, counter, insideSmm, bspIndex, cpuData, handler>>
-----------------------------------------------------------------------------
(****************************** Specification ******************************)

\* InitializeMpSyncData.
Init ==
  /\ mode \in Modes
  /\ pc = [c \in Cpus |-> "outside"]
  /\ pending = [c \in Cpus |-> FALSE]
  /\ topLevel = FALSE
  /\ sampled = [c \in Cpus |-> FALSE]
  /\ bsp = [c \in Cpus |-> None]
  /\ counter = 0
  /\ insideSmm = FALSE
  /\ allCpusInSync = FALSE
  /\ bspIndex = IF mode.elect THEN None ELSE 0
  /\ present = [c \in Cpus |-> FALSE]
  /\ run = [c \in Cpus |-> 0]
  /\ busy = [c \in Cpus |-> "zero"]
  /\ apCount = 0 /\ index = 0 /\ waiting = 0 /\ target = None

ApStep(c) ==
  \/ BspAppears(c) \/ BspTimeout(c) \/ BringBspIn(c) \/ GiveUp(c)
  \/ ApPresent(c) \/ ApSignals(c) \/ ApWaits(c) \/ ApChecks(c)
  \/ ApProcedure(c) \/ ApAbsent(c)

BspStep(c) ==
  \/ BspEnter(c) \/ BspPresent(c) \/ ClearTopLevelSmiStatus(c)
  \/ ArrivalTimeout(c) \/ SendSmiIpis(c) \/ ArrivalTimeout2(c)
  \/ SetInSync(c) \/ Lockdown(c) \/ LockBusy(c)
  \/ \E a \in Cpus : StartupThisAp(c, a)
  \/ StartupLocks(c) \/ StartupFails(c) \/ StartupReleases(c) \/ StartupWaits(c)
  \/ HandlersReturn(c) \/ Drain(c) \/ AllPresent(c) \/ NotInside(c)
  \/ ReleaseAllAPs(c) \/ WaitForAllAPs(c) \/ AllAPsWaitedFor(c) \/ LoopEnds(c)
  \/ BspAbsent(c) \/ ForgetBsp(c) \/ Reopen(c) \/ ClearInSync(c)

\* What a processor in SMM does.
Step(c) ==
  \/ ReadValidSmi(c) \/ ReadBspInProgress(c) \/ Arrive(c) \/ FreeBusy(c)
  \/ Elect(c) \/ Elected(c) \/ Leave(c)
  \/ ApStep(c) \/ BspStep(c)

Next == TriggerSmi \/ \E c \in Cpus : Enter(c) \/ Step(c)

Spec == Init /\ [][Next]_vars

\* A processor in SMM goes on; nothing says that one outside ever comes in.  A
\* loop that spins on AllCpusInSync reads it many times while the flag is clear
\* between two runs; the SMI handlers return.
FairSpec ==
  /\ Spec
  /\ \A c \in Cpus : WF_vars(Step(c)) /\ SF_vars(Leave(c))
  /\ SF_vars(\E c \in Cpus : HandlersReturn(c))
-----------------------------------------------------------------------------
(******************************* Properties ********************************)

\* The labels of the AP path, for who has counted itself: those up to each
\* signal an AP gives.
UpToArrived    == {"free", "elect", "elected", "apTimer", "apSendIpi", "apTimer2",
                   "apPresent", "apArrived"}
UpToBackedUp   == UpToArrived \cup {"apBackup", "apBackedUp"}
UpToProgrammed == UpToBackedUp \cup {"apProgram", "apProgrammed"}
UpToTasksDone  == UpToProgrammed \cup {"apLoop", "apCheck", "apProcedure", "apTasksDone"}
UpToReset      == UpToTasksDone \cup {"apRestore", "apReset"}
UpToDone       == UpToReset \cup {"apClear", "apAbsent", "apDone"}

ApLabels == UpToDone \cup {"giveUp"}

BspLabels ==
  DOMAIN AfterLoop \cup DOMAIN AfterAll
  \cup {"bspEnter", "bspPresent", "clearStatus", "arrival", "arrival2", "sync",
        "lockdown", "lockBusy", "handlers", "startBusy", "startRelease", "startWait",
        "allPresent", "exit", "bspAbsent", "forget", "reopen"}

Labels == {"outside", "valid", "progress", "arrive", "late", "leave", "unsync"}
          \cup ApLabels \cup BspLabels

Counts == 0 .. N

TypeOK ==
  /\ mode \in Modes
  /\ pc \in [Cpus -> Labels]
  /\ pending \in [Cpus -> BOOLEAN] /\ topLevel \in BOOLEAN
  /\ sampled \in [Cpus -> BOOLEAN]
  /\ bsp \in [Cpus -> Cpus \cup {None}]
  /\ counter \in 0 .. Locked /\ (mode.prompt => counter \in Counts \cup {Locked})
  /\ insideSmm \in BOOLEAN /\ allCpusInSync \in BOOLEAN
  /\ bspIndex \in Cpus \cup {None}
  /\ present \in [Cpus -> BOOLEAN]
  /\ run \in [Cpus -> Counts]
  /\ busy \in [Cpus -> {"zero", "released", "acquired"}]
  /\ apCount \in Counts /\ index \in Counts /\ waiting \in Counts
  /\ target \in Cpus \cup {None}

\* The assertions of the code: the counter does not exceed the number of
\* processors when the BSP waits for arrivals (MpService.c:218); an AP is not
\* the BSP (:574, :612); an AP that runs a procedure finds its lock held
\* (:672); a processor that leaves has no signal left (:1154).
Asserts ==
  /\ \A c \in Cpus : pc[c] \in {"arrival", "sendIpis", "arrival2"} => counter <= mode.cpus
  /\ \A c \in Cpus : pc[c] \in {"apSendIpi", "apPresent"} => bspIndex # c
  /\ \A c \in Cpus : pc[c] = "apProcedure" => busy[c] = "acquired"
  /\ \A c \in Cpus : pc[c] = "leave" => run[c] = 0

\* There is one BSP at a time.
OneBsp == \A b, c \in Cpus : pc[b] \in BspLabels /\ pc[c] \in BspLabels => b = c

\* In each WaitForAllAPs the signals that have come, and the APs that will
\* still give theirs, are as many as the BSP waits for: the processors it
\* counted when it locked the counter are those on the AP path, however late
\* their Present flags, and none signals twice or for another stage.  Where a
\* processor may be late the first wait can be for an AP that has given up, and
\* end with the signal of one that was not counted; the others balance again.
Balanced ==
  LET Signals(label, upTo) ==
        \A b \in Cpus :
          pc[b] = label =>
            waiting = run[b] + Cardinality({a \in Cpus \ {b} : pc[a] \in upTo})
  IN /\ mode.prompt => Signals("waitArrival", UpToArrived)
     /\ Signals("waitBackup", UpToBackedUp)
     /\ Signals("waitProgram", UpToProgrammed)
     /\ Signals("waitExit", IF mode.mtrr THEN UpToTasksDone ELSE UpToReset)
     /\ Signals("waitRestore", UpToReset)
     /\ Signals("waitReset", UpToDone)

\* When the BSP lets processors check in again, nothing is left of the run:
\* every AP has cleared its flag and is out of its handler, and no semaphore
\* holds a signal.
CleanSlate ==
  \A b \in Cpus :
    pc[b] \in {"forget", "reopen"} =>
      /\ ~insideSmm
      /\ \A c \in Cpus : /\ run[c] = 0 /\ ~present[c]
                         /\ pc[c] \notin ApLabels

\* Once the BSP has left the SMI handlers and waited for the APs' tasks, no AP
\* has a procedure running or pending.
Drained ==
  \A b \in Cpus :
    pc[b] \in {"allPresent", "exit"} =>
      \A a \in Cpus \ {b} :
        present[a] => run[a] = 0 /\ busy[a] = "released" /\ pc[a] # "apProcedure"

\* With the traditional mode, from the end of SmmWaitForApArrival to the end of
\* the handlers no processor executes normal mode code: it is in SMM, or an SMI
\* it cannot take yet is pending.
NoNormalMode ==
  \A b \in Cpus :
    /\ mode.sync = "traditional" /\ insideSmm
    /\ pc[b] \in BspLabels \ {"bspEnter", "bspPresent", "clearStatus", "arrival",
                              "sendIpis", "arrival2"}
    => \A c \in Cpus : Exists(c) /\ pc[c] = "outside" => pending[c]

\* A BSP whose APs have arrived, and starts to signal them or its handlers.
Gathered == {"releaseBackup", "lockBusy"}

\* Whoever is in SMM leaves it, even if the BSP or an AP never comes.  Where
\* processors may be late, a BSP whose APs have arrived comes to its end: by
\* MpService.c:374-377 and 393-396 it may wait for ever when an AP enters at that
\* point, but such an AP finds the counter locked and takes no part.
Leaves ==
  \A c \in Cpus :
    (mode.prompt \/ pc[c] \in Gathered)
      ~> (pc[c] = "outside" \/ (~mode.prompt /\ pc[c] = "leave"))

\* If processors take their SMIs, the handlers start after each one a platform's
\* status bit reports.
Served ==
  (\A c \in Cpus : WF_vars(Enter(c)))
    => (topLevel ~> \E c \in Cpus : pc[c] = "lockBusy")
=============================================================================
