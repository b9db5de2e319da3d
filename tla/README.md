# Verification of the firmware core

TLA+ models of the parts of this UEFI firmware (EDK II with the Bay Trail
platform packages) that have to be right under power loss, failing flash,
interrupts, re-entrance and late processors; TLC runs that check them on small
instances; and theorems that TLAPS checks for every value of the constants.

All paths below are under `src/edk2/` unless they start with `src/`.
`FTW` is `MdeModulePkg/Universal/FaultTolerantWriteDxe`, `VAR` is
`MdeModulePkg/Universal/Variable/RuntimeDxe`, `DXE` is
`MdeModulePkg/Core/Dxe`, `SMM` is `UefiCpuPkg/PiSmmCpuDxeSmm`.

    AtomicStore             what a store that survives power loss promises
    FaultTolerantWrite      FTW driver          implements AtomicStore
    MCFaultTolerantWrite    its runs: FtwSingle, FtwMulti, FtwIo
    FaultTolerantWriteProofs  its types, its safety and the refinement, proved
    VariableStore           variable driver     implements AtomicStore
    MCVariableStore         its runs: VarAtomic, VarSpace, VarFaults,
                            VarRollback
    Subsequences            selections from and sums over sequences
    SubsequencesProofs      what they are, proved
    VariableStoreProofs     its types and its safety, proved
    VariableStoreRefinement when it implements AtomicStore, proved
    DxeEvent                events, timers, priority levels of the DXE core
    MCDxeEvent              its runs: EventMain, EventClose
    DxeEventProofs          its types and its safety, proved
    SmmRendezvous           the processors in system management mode
    MCSmmRendezvous         its runs: SmmPrompt, SmmHeldUp
    SmmRendezvousProofs     all its safety properties, proved
    HandleDatabase          handles, protocols, the connection of drivers
    MCHandleDatabase        its run: Handles
    HandleDatabaseProofs    its types and its safety but Reconnected, proved
    HandleDatabaseReconnected  Reconnected, proved

Inside this directory: `tlc -workers 2 -config FtwSingle.cfg
MCFaultTolerantWrite.tla` checks a run, `tlapm SmmRendezvousProofs.tla` the
proofs of a module. `PROJECT.json` ties each definition to the source lines it
models (`map`), each run to its properties, each property to a change of the
model that violates it (`mutants`), and lists the hazards at their lines.

## 1. Inventory

The firmware is a sequence of phases that each run on one processor: SEC and PEI
(before memory), DXE (drivers, the boot manager), the operating system with the
runtime services, and SMM, which all processors enter together. Nothing in it
has threads. What is hard comes from four places: power that fails between two
flash operations; flash operations that fail; the timer interrupt, with the
notification functions that run inside the calls that lower the priority level;
and the processors that arrive in SMM at different times.

| component | state | operations | how it meets the others | what is hard | what makes it correct |
|---|---|---|---|---|---|
| Fault tolerant write (`FTW`) | working block (header, queue of write headers and records), spare area, target volume; `FtwLastWriteHeader/Record` in RAM | Allocate, Write, Restart, Abort, GetLastWrite; refresh and reclaim of the work space; initialization | calls the flash (FVB) driver; called by the variable driver's reclaim | crash at every flash operation, and again during recovery | a write is atomic; no block is ever lost |
| Variable store (`VAR/Variable.c`, `Reclaim.c`) | entries with state bytes in flash, a memory copy, the HOB PEI left, the next offset and two totals | Get/Set/delete, FlushHobVariableToFlash, Reclaim, ReclaimForOS, initialization | reclaim through FTW; HOB from PEI; the ReadyToBoot and ExitBootServices events | crash between the state bytes; failed writes; two places a variable may be in; space accounting | SetVariable is atomic; memory copy = flash; totals = walk; nothing lost |
| Events, timers, TPL (`DXE/Event`) | current TPL, pending bits, event queues, SignalCount, timer list, system time | RaiseTPL, RestoreTPL, CreateEvent, SignalEvent, CheckEvent, CloseEvent, SetTimer, timer tick | every driver; the interrupt handler of `PcAtChipsetPkg/8254TimerDxe` | interrupts and nested notifications at every unlock | no signal or timer lost; levels exclude; no use after close |
| SMM rendezvous (`UefiCpuPkg/PiSmmCpuDxeSmm/MpService.c`) | Counter, InsideSmm, AllCpusInSync, BspIndex, Present/Run/Busy of each CPU | BSPHandler, APHandler, SmiRendezvous, SmmStartupThisAp | SMM core; the SMI IPI | real concurrency, late CPUs, time-outs | no signal, flag or count outlives a run; nobody runs normal code during it; everybody leaves |
| Handle database, driver binding (`DXE/Hand`) | handles, protocol interfaces, list of opens | Install, Reinstall, Uninstall, Open, Close, Connect, Disconnect | drivers' Start and Stop called with the lock released | re-entrance while a list is walked | one manager of an interface; children have a parent; a refused uninstall reconnects |
| DXE dispatcher (`DXE/Dispatcher`) | discovered drivers, scheduled queue, apriori | CoreDispatcher, Schedule, Trust | FVs discovered, dependency expressions over protocols | BEFORE/AFTER, drivers that add FVs | each driver once, after what it depends on |
| Memory, GCD, images (`DXE/Mem`, `Gcd`, `Image`) | memory maps | allocate, free, convert, load, start | everything | algorithms on intervals | map is a partition |
| SMM core (`MdeModulePkg/Core/PiSmmCore`) | handlers, handles | SmiManage, register | IPL in DXE | a handler unregisters handlers | |
| Variable policy, measurement, authentication | policy tables, certificates | checks before SetVariable | called by the store | cryptography | |
| Front ends (`FaultTolerantWriteSmm*.c`, `VariableSmm*.c`) | whether SMM is locked | marshal calls between DXE and SMM | | buffer checks | |
| Timer, interrupt controller drivers | registers | period, EOI | the tick | nested interrupts | |
| PEI core | PPIs, HOBs | dispatch, notify | hands HOBs to DXE | shadowing to memory | |
| MP services (`UefiCpuPkg/CpuDxe/CpuMp.c`) | CPU states | StartupAllAPs/ThisAP | timer events | time-outs against completions | |
| Bay Trail platform (`src/edk2-platforms`) | chipset registers, setup | board initialization, FVB driver | | hardware manual | |
| Bus, network, console, file systems | protocol stacks | | events, handle database | | |
| Other architectures, shell, applications, CryptoPkg, build tools | | | | | |

The first five rows are modelled; the dispatcher is the rest of the plan (section
10). The others are listed with a reason in `PROJECT.json`.

## 2. AtomicStore

A store of keys in which a submitted write takes effect on all its keys at once
(`Commit`) or is dropped (`Drop`), and one that took effect is not undone. Two
drivers are shown to implement it: FTW over the blocks of a volume
(`AtomicWrites`), the variable driver over variables (`AtomicSet`). Both use
`INSTANCE AtomicStore WITH store <- ..., inflight <- ...`, the store being what
a reader will find once the recovery is over, not what lies in the flash now.
`VariableStore` takes the atomic reclaim from that promise: where it calls FTW,
it makes one step.

## 3. FaultTolerantWrite

**State.** `target`, `spare` and `work` are flash and survive a power loss; the
others are RAM. A queue (`Queues`) records what a walk over the working block
finds: `used` units of complete headers, then a last header (`alloc`, `writes`,
`n` records, `done` of them complete), whether the current record is
`SPARE_COMPLETED` (`backed`), which extents were written into it (`record`), and
where a header that no walk finds was written (`stray`). A unit is 40 bytes, the
size of `EFI_FAULT_TOLERANT_WRITE_HEADER` and of a record. Records name blocks.

**Actions.** `pc` is the next flash operation; one action performs it with the
RAM work up to the next one, so that a power loss can come between any two.
`Call...` start a protocol function, `ret` says where a refresh or a reclaim
goes on.

| code | actions |
|---|---|
| `WorkSpaceRefresh` | `Refresh` |
| `FtwReclaimWorkSpace`, `FlushSpareBlockToWorkingBlock` | `ReclaimErase ... ReclaimRestore`, `FlushInvalid ... FlushValid` |
| `FtwAllocate` | `Allocate`, `AllocateHeader`, `AllocateWrites` |
| `FtwWrite` | `Write`, `WriteRecordHeader`, `WriteErase`, `WriteData`, `WriteSpared`, `WriteErase2`, `WriteRestore` |
| `FtwWriteRecord`, `FlushSpareBlockToTargetBlock` | `TargetErase`, `TargetData`, `TargetDest`, `TargetComplete` |
| `FtwRestart`, `FtwAbort`, `FtwGetLastWrite` | `Restart`, `RestartErase`, `Abort`, `GetLastWrite` |
| `InitFtwProtocol` | `PowerOn`, `InitCheck`, `InitFlushed`, `InitFirst`, `InitTrailing`, `InitRestart`, `InitFinal` |

**Failures.** `PowerLoss` cuts the operation at `pc` off: it has done nothing,
or part of its work (`Interrupted`: erased areas hold anything, target blocks
are `Torn` one by one). There is no bound on the number of power losses. With
`Failing` a flash operation may also fail under a running driver (`IoError`).
With `MissingFvb` the target's protocol may be absent when initialization wants
to restart a write.

**Left out.** The bytes of private data; the boot block with its SAR record; a
write whose target is the working block itself; the order of bytes within one
torn header or record (it depends on the part); I/O errors during initialization
(the code asserts that there are none); a caller that passes the wrong FVB
handle to Restart.

**Properties.**

- `TypeOK`.
- `Available`, the promise at the head of `FtwWrite`
  (`FTW/FaultTolerantWrite.c:289`): every block is intact, or in the spare area
  of a write that a boot will restart.
- `Recoverable`: a write that is `SPARE_COMPLETED` has its whole content in the
  spare area and one legible record of its place.
- `AtomicWrites`: refinement of `AtomicStore`.
- `AllocateGranted`: the header Allocate wrote is the one every later walk
  finds.
- `LostOnlyByAbort`: with failing flash, content is lost only at a caller's
  abort.
- `ReturnsToCaller`: whatever the power did, if it stays on from some time on
  the driver always comes back, from calls and from its initialization.

**Runs.**

| run | instance | states | shows |
|---|---|---|---|
| FtwSingle | 2 target blocks, 2 contents, 5 units of queue, every range, one record per allocation (what the variable driver does), liveness | 36,864 | `TypeOK`, `Recoverable`, `Available`, `AllocateGranted`, `AtomicWrites`, `ReturnsToCaller` |
| FtwMulti | allocations of two records, queue of 7 | 11,148 | `Recoverable`, `AtomicWrites` |
| FtwIo | every flash operation but those of a reclaim may fail | 34,387 | `Recoverable`, `LostOnlyByAbort` |

*Why the bounds are enough.* Two blocks let a write change one block and keep
its neighbour, and let an erase be cut between blocks. Two contents tell old
from new. Five units hold two single writes and a rest that is too small for a
third, so the reclaim happens with a queue that fits exactly and with one that
does not; seven do the same for headers with two records. There is one spare
area and one caller at a time, as in the code.

*Fairness.* `WF(Driver)`: the driver is sequential code that runs while there
is power. `WF(PowerOn)`: a machine that is off is switched on again. Nothing is
assumed of callers or of `PowerLoss`; `ReturnsToCaller` speaks only of
behaviours where the power stays on in the end.

**Proved** (`FaultTolerantWriteProofs`).

- `TypeCorrect`: `Spec => []TypeOK` for every size of volume, queue and
  allocation, every set of failing operations, with or without the FVB, and any
  number of power losses. `TypeOK` is not inductive: nothing in it says that the
  next header fits, or that a buffer which is flushed to the working block holds
  a queue. `TypeInv` adds `Fits` (every queue in flash and in buffers fits and
  counts its records right), `Serves` (which function a return label belongs
  to), `AllocatesWithin` (what is about to be written fits where it goes, across
  a reclaim in between) and `HasRecord` (a record is written only where the last
  header has one left).
- `WritesRecoverable`, `WritesAllocateGranted`, `WritesLostOnlyByAbort`, under
  `OrderlyWrites == SingleWrites \/ FixedWrites`. `SingleWrites ==
  AllocSizes \subseteq {1} /\ Failing = {} /\ ~MissingFvb` is the use the variable
  driver makes of it with a working flash. `FixedWrites` lets every flash operation
  fail but those of a reclaim, if callers rewrite always the same blocks, as the
  variable driver does: after a failure a record of other blocks would be
  written over the first one, and FtwRestart could read either. Section 8 says
  what goes wrong without the conjuncts they share.
- `SingleWritesAvailable`, under `SingleWrites`: with FtwIo's `Failing`
  `Available` is false, for a caller may abort what only the spare area has.
  `WritesLostOnlyByAbort` says that this is the only way: no step but FtwAbort
  turns a state where every block is available into one where one is not.

The invariant is `SafeInv`: `EmptyImages` (a reclaim keeps nothing, because
nothing is pending), `OneHeader`, `ValidWork` (the working block is given up only
when it has nothing to lose), `Records` (what the record and the spare area hold
at each operation), `KeptInSpare` (the spare area is touched only after the last
bit; a write that a failure has ended may wait there while other calls come),
`Copied` (which blocks are written already). Once content is lost a later write
may copy torn blocks to the spare area: what holds always is `Faithful`, that
they are torn in the target as well, and from it follows that a step loses
nothing more. TLC found `SafeInv` true on FtwSingle and FtwIo first.

The proofs have one lemma per group of actions and one step per action and
conjunct.

- `SingleWritesAtomic`: `SingleWrites => (Spec => AtomicWrites)`, the refinement
  of AtomicStore. `SafeInv` says where the content of an interrupted write is,
  but not that it is the right content. `Mapping` adds that the spare area is
  filled with the request merged into the blocks of the target. Under `Logical`
  and `InFlight`, `WriteSpared`, the SPARE_COMPLETED bit, is the one step that
  commits; a caller's request submits; what ends it before the bit, by an error
  or a power loss, drops it; each other step stutters. The proof has one lemma
  per group of actions for what the action does to the two mapped variables.

The only assumption is `ConstantsAssumption`. Its conjunct about `NoRequest` is
needed by the refinement alone: "no request" is not itself a request. Liveness
is checked by TLC only.

## 4. VariableStore

**State.** `flash` is the sequence of entries, each with a name, a content and
a state byte: `header` (nothing but its header), `valid`
(VAR_HEADER_VALID_ONLY), `added`, `transition` (IN_DELETED_TRANSITION),
`deleted`, and `torn` for a header of which only the StartId was written.
`dirty` says that the area behind them is not erased. `cache` is the memory
copy, `offset`, `hwTotal`, `commonTotal` the sizes the driver keeps, `hob` what
PEI left, `phase` and `reclaimed` the boot phase. A unit is a variable header.

**Actions.** As for FTW, `pc` is the next flash operation of `UpdateVariable`.

| code (`VAR/Variable.c`) | definitions |
|---|---|
| `FindVariableEx`, `GetVariable` | `Current`, `InDeleted`, `Read`, `Get` |
| `Reclaim` | `Kept`, `ReclaimTo`, `ReclaimFails`, `ReclaimWith` |
| `VariableServiceSetVariable`, start of `UpdateVariable` | `SetVariable`, `Start` |
| `UpdateVariable`, state bytes | `DeleteOld`, `DeleteCurrent`, `MarkOld` |
| `UpdateVariable`, a new entry | `FindSpace`, `WriteHeader`, `WriteValid`, `WriteData`, `WriteAdded` |
| `UpdateVariableStore` failing | `StateFails`, `EntryFails` |
| `FlushHobVariableToFlash` | `FlushHob`, `FlushNext`, `FlushEnd` |
| `InitNonVolatileVariableStore`, `VariableWriteServiceInitialize` | `PowerOn`, `WriteServiceInitialize` |
| `ReclaimForOS`, exit boot services | `ReadyToBoot`, `ExitBootServices` |

**Failures.** `PowerLoss` at any step, at most `MaxLosses` times, with torn
headers if `TornHeaders`; a state byte, a new entry, a reclaim or the repair at
boot fails, as `Failing` says. A reclaim is one atomic FTW write, which fails
with the flash unchanged. A failed write of an entry has done nothing or all.
The next header then goes over what the failed one has left. Flash bits are only
cleared, so that StartId stays and a walk reads an entry there
(`IsValidVariableHeader`, `Variable.c:264`, looks at nothing else): its
attributes, its sizes and its name are the AND of both, its state is the one that
was reached before (`Mixtures`). Over other bytes that are not erased a header
leaves an entry with any state and no more than its own size, or nothing that a
walk finds (`Unknown`).

**Left out.** Volatile variables; authenticated and append writes; the quota of
user variables and `CheckRemainingSpaceForConsistency`; variables without
runtime access; the languages (`AutoUpdateLangVariable`); the error flag byte;
the reentrant call of a machine check at runtime (`Variable.c:3264`). The store
has safety properties only: its calls are loop-free but for the walk over the
HOB, whose set shrinks.

**Properties.** `TypeOK`; `Accounted` (offset and totals are those of a walk,
however they were computed); `Within` (entries never pass the end of the store);
`InSync` (memory copy = flash between calls); `SetVisible` (what was set is what
GetVariable returns); `NeverLost` (a variable in flash keeps some value until it
is deleted); `HobKept` (a variable leaves the HOB only when it is in flash or
replaced); `RoomForOs` (after ReadyToBoot there is room for a variable or
nothing to reclaim); `AtomicSet` (refinement of `AtomicStore`).

**Runs.**

| run | instance | states | shows |
|---|---|---|---|
| VarAtomic | a common variable and a hardware error record, contents of 1 and 2 units, store of 10 with 2 reserved for boot, one in the HOB or none, 1 power loss, torn headers | 110,803 | `SetVisible`, `AtomicSet`, `RoomForOs` |
| VarSpace | three variables, store of 8, a HOB variable that may not fit, 1 power loss, state bytes and reclaims fail | 809,180 | `Accounted`, `InSync`, `NeverLost`, `HobKept` |
| VarFaults | two common variables, store of 6, everything may fail, 1 power loss | 1,444,611 | `TypeOK`, `Within` |
| VarRollback | one variable, 2 power losses | violation | `AtomicSet` fails: finding 1 |

*Why the bounds are enough.* Two contents of different size make an update
smaller or larger than what it replaces, so that one fits only after a reclaim
and one not even then. Stores of 6 to 12 units hold two to five entries: full
stores, stores full of deleted entries and stores with room are all reached. One
power loss covers every single interruption and the boot after it; the case that
needs two is finding 1. In a run in which entries fail (VarFaults) `InSync`,
`Accounted`, `NeverLost` and `SetVisible` are not claimed, and `Within` only for
variables of one kind: section 8 says why.

**Proved** (`VariableStoreProofs`), for every set of variables and contents,
every size of the store and any number of power losses.

- `TypeCorrect`: `Spec => []TypeOK`, whatever fails. The invariant is `TypeInv`:
  it adds which labels belong to an update, that an update of a new entry has a
  content, and `Asked`: what is set is the caller's request or the HOB's
  variable.
- `AccountedHolds`, `InSyncHolds`, `NeverLostHolds`, `HobKeptHolds` assume
  `EntriesWork`: no write of a new entry fails, nor the repair at boot. State
  bytes and reclaims may fail. Without the assumption TLC violates each of
  `Accounted`, `InSync` and `NeverLost`, section 8 says how. The invariant is
  `StoreInv` (`StoreInvariant`):
  - `Mirrors`: the memory copy is the flash, but for the entry that is being
    written, which is the last one in flash and has the state its label says;
  - `Accounts`: the offset and the totals are those of the memory copy, also in
    the middle of an update;
  - `Replaces`: the entries an update replaces are its variable's, their states
    are written, and when they are deleted there is an ADDED one besides them.

  `Accounted` and `InSync` are parts of it. `NeverLost` needs `Replaces`, and of
  a reclaim that for each variable it sees one copy is kept (`KeptEntries`);
  `HobKept` needs `Asked` and, for a variable from the HOB that is successfully
  set, that the new entry is in the flash when it returns.
- `WithinHolds`: with `EntriesWork` and no torn headers the entries of both kinds
  stay within the store; TLC checks the other half, entries that fail in a store of
  common variables. The invariant `LimitsInv` says that each of the two totals is
  within its limit, and during a write also with the whole new entry. It needs
  of a reclaim that neither total grows (`KeptTotals`): each entry put back comes
  from one of its own (`KeptFrom`), and a sum of numbers paired with numbers of
  another sum is no more than that (`SumPaired`). With a torn header, which
  counts as a hardware error record, the totals are not those that were checked.

- `SetIsAtomic`: `Spec /\ [][~LeavesOldCopy]_vars => AtomicSet`, the refinement
  of AtomicStore, with `EntriesWork`. An update that was interrupted after its
  new entry became ADDED leaves an IN_DELETED_TRANSITION copy; the next update
  finds it (`old`) and marks the ADDED one too. `LeavesOldCopy` is a step that
  ends this second update, refused or interrupted, before it has deleted the
  older copy. Without such a step no variable is ever left with two
  IN_DELETED_TRANSITION copies (`OldCopyStep`, `OneOldCopy`), and FindVariableEx,
  Reclaim and a delete agree. With it they do not: VarRollback is the
  counterexample with two power losses, section 8 has one with a single loss.
  The hypothesis excludes nothing of VarAtomic: `OneOldCopy` holds in all its
  states. The invariant is `CopyInv`: `Ordered` (one ADDED copy at most, after
  the old ones) and `Copies` (during an update the copies of its variable are
  those it replaces and the new one when it is ADDED). The lemmas say of each
  action which of the copies it changes and so what each variable reads:
  `WriteAdded` or the reclaim in `FindSpace` commits an update, `DeleteCurrent` a
  delete, `Start` submits, and each other step stutters or, if it ends an update
  before, drops it.
- `SetVisibleHolds`: with `EntriesWork`, no `LeavesOldCopy` and no `KeepsHob`, a
  HOB variable that cannot be flushed. The last one is needed: section 8 has the
  case. The invariant adds `HobVisited` (a variable of the HOB is being moved or
  waits for it) and `Settled` (what the caller set successfully is in flash, and
  the loop over the HOB will not set it again); that the loop leaves the caller's
  variable alone follows from the refinement.
- `RoomForOsHolds`: with `EntriesWork`, no `LeavesOldCopy`, no failing reclaim
  (the code asserts that there is none) and a largest variable that is not empty.
  Without `LeavesOldCopy` being excluded TLC refutes it (one variable, store of
  5, three power losses): a reclaim that integrates a new variable puts the
  older of two copies back beside it, both ADDED, and the one at ReadyToBoot
  keeps both.

The accounting needs sums over a sequence that grows or of which one state byte
changes, and a reclaim needs the selection of entries in their order. Both are
recursive in nature. `Subsequences` defines them in a form the prover can expand
and `SubsequencesProofs` derives the lemmas that are needed (`NthElement`,
`SubsequenceElements`, `SumAppend`, `SumOrder`, `SumPaired`) from the least
element of a set of numbers (`Smallest`, from the well-foundedness of `<`),
because induction theorems with an operator parameter cannot be used.

The only assumption on constants is `ConstantsAssumption`. Its conjuncts about
`NoRequest` say that it is not itself a request.

## 5. DxeEvent

**State.** One processor: `stack` is a sequence of frames, the last one runs.
A frame has a label (where its code goes on), the level it keeps, an event and a
time. `tpl`, `interrupts`, `queue`, `pending`, `count`, `registered`, `armed`,
`trigger`, `period`, `now` are `gEfiCurrentTpl`, the interrupt flag,
`gEventQueue`, `gEventPending`, `SignalCount`, `gEventSignalQueue`,
`mEfiTimerList`, the two times of an event and `mEfiSystemTime`. `life` is the
event's memory.

**Actions.** What is done under the event lock is one step at TPL_HIGH_LEVEL
with interrupts off, and pushes the `Restore` frame that releases the lock:
its `CoreRestoreTpl` is explicit, with the dispatch of what it unmasks and the
window between its last look at `gEventPending` and the new level
(`RestoreDone`, `RestoreLower`). The list of timers is under a lock at TPL 30
that leaves interrupts on, so its calls are several steps and the tick comes
between them.

| code (`DXE/Event`) | definitions |
|---|---|
| `CoreRestoreTpl`, `CoreRaiseTpl` | `RestoreDispatch`, `RestoreDone`, `RestoreLower`, `RaiseTpl` |
| `CoreDispatchEventNotifies` | `DispatchNext`, `DispatchNotify`, `DispatchEnd` |
| `CoreNotifyEvent`, `CoreNotifySignalList`, `CoreSignalEvent` | `NotifyEvents`, `Members`, `Signal`, `SignalEvent`, `SignalGroup` |
| `CoreCheckEvent`, `CoreCreateEventInternal`, `CoreCloseEvent` | `CheckEvent`, `CheckEventAgain`, `CreateEvent`, `CloseEvent`, `CloseUnlink`, `CloseFree` |
| `CoreTimerTick`, `CoreCheckTimers`, `CoreSetTimer` | `TimerTick`, `CheckTimers...`, `SetTimer...` |

`Uses` says which code calls which service on which event. It is where an
instance describes its drivers.

**Left out.** Protocol notifications, runtime events, argument checks and
allocation failures; callers that raise above TPL_NOTIFY; the wrap of 64-bit
times. An interrupt between the handler's RestoreTPL and its return counts as
one after it. `gEventPending` is read once per turn of the loop (`Tpl.c:126` and
`:127`), as optimizing builds do; section 8 has the other case.

**Properties.** `TypeOK`; `Deliverable` (an event with a signal count is on its
way to its function, and every queue that is not empty has its bit set);
`Preempts` (a function runs only above the level of all it interrupted);
`ListsSound` (no event twice in a list and timers in order, with its parts
`TimerLock`: one call at a time in the timer list, at its level, and
`PeriodicStays`: a periodic timer stays armed); `TickNotices` (a tick leaves no
expired timer unnoticed); `ClosedUnused` (no list and no call under way refers
to a freed event).

**Runs.** EventMain (3,232,347 states): code at TPL_APPLICATION, a timer `t`
that sets itself again from its function, a timer `w` that is waited for, and an
event `g` in the same group as `t` whose function runs one level higher; delays
0 and 2, so that timers expire at once, later and in an order other than that
they were set in, and a periodic delay of 0 becomes one tick; two ticks, so that
a tick finds a timer of the one before unserved. All properties hold as long as
nobody closes `t`. EventClose: one self-arming timer whose creator closes it;
`ClosedUnused` fails, finding 2.
Two ticks and three events at two levels let a signal or a tick come at each step
of every service, notification functions nest twice, and a late timer be
late by a whole period. There are no liveness properties: a firmware that is
interrupted faster than it serves makes no progress, and the code claims none.

**Proved** (`DxeEventProofs`), for any events, levels, groups, delays and uses:
`TypeOK`, `Preempts`, `Deliverable`, `ListsSound` and `TickNotices`, all from one
invariant, `Inv`. The assumptions on the constants are those of
`ConstantsAssumption`; nothing is assumed of who calls what. `ClosedUnused`, which
EventClose refutes in general, is proved where `Uses` satisfies `BottomCloses`.

`Preempts` relates frames of the stack any distance apart and is not inductive.
What is, `Sound`, speaks of each frame by itself (`FrameOk`: its level, what kind
of event it is about) and of neighbours (`On`: a function lies on the dispatcher
of its level, a dispatcher on the RestoreTPL whose level it is above, whatever
else on a frame that runs at the level it goes back to). `Rising` gets from it, by
induction on the distance, that no frame goes back to a lower level than the
frames under it run at, and `FunctionAbove` that a function is strictly above the
code under its dispatcher. The lock of the timer list is one consequence
(`SoundLock`): two frames in `CoreSetTimer` or `CoreCheckTimers` would each run at
TPL 30 and neither can have interrupted the other.

`Deliverable` needs that an open event is registered or being freed (`Created`),
or a group could be queued without the event that was signalled. `ListsSound`
needs that a timer in hand is not in the list (`TimersSound`), and that nothing
refers to an event that was not created. `TickNotices` follows from the order of
the list, and from `Delivered` where the SignalCount of CheckTimer is set already.
The parts that speak of the stack do so by the events its frames have in hand
(`EventsOf`); the steps that move no such event, most of them, are one lemma
(`Quiet`).

`BottomCloses` says that only the code at the bottom of the stack closes events,
and that those it closes are otherwise used by their own functions only, to
signal and check them; creating an event and raising the TPL are free. The uses of
EventMain satisfy it, those of EventClose do not: a function that sets the timer
its creator is closing is finding 2. `CloseInv` makes the property inductive: a
frame of CoreCloseEvent is the second of the stack (`OnlyBase`); an event in it is
a timer whose CoreSetTimer lies right above (`Cancelling`) or is neither armed nor
in the hands of a call that arms it (`Timed`); once it is unlinked no list and no
other frame refers to it (`References`), not even one of its own function, which
only a queue could have started. `CallAllowed` is where the hypothesis enters: what
runs above that frame is a notification function, so that it may not set, cancel
or close the event.

## 6. SmmRendezvous

**State.** Every processor is a program counter (`pc`) with the registers that
matter (`sampled`: ValidSmi, then BspInProgress; `bsp`: APHandler's BspIndex).
Shared memory is `counter`, `insideSmm`, `allCpusInSync`, `bspIndex`, and
`present`, `run` and `busy` of each processor: `mSmmMpSyncData`. The BSP is one
processor at a time (`OneBsp`), so the variables of BSPHandler are there once:
`apCount`, `index`, `waiting`, `target`. `pending` is the SMI a processor has
latched and not taken, `topLevel` the platform's status bit. `counter` wraps, so
that a decrement of the locked value is what it is in the code.

**Actions.** A step accesses shared memory once. The semaphores are those of
`SMM/MpService.c:33-112`: a release that does nothing on a locked semaphore, a
wait that spins at 0.

| code (`SMM/MpService.c`) | definitions |
|---|---|
| `SmiRendezvous` | `Enter` ... `FreeBusy`, `Elects`, `Elect`, `Elected`, `Leave` |
| `APHandler` | `BspAppears`, `BspTimeout`, `BringBspIn`, `GiveUp`, `ApPresent`, `ApSignals`, `ApWaits`, `ApChecks`, `ApProcedure`, `ApAbsent` |
| `BSPHandler` | `BspEnter` ... `Lockdown`, `LockBusy`, `HandlersReturn`, `Drain`, `AllPresent`, `NotInside`, `BspAbsent`, `ForgetBsp`, `Reopen`, `ClearInSync` |
| `SmmWaitForApArrival` | `AllArrived`, `ArrivalTimeout`, `SendSmiIpis`, `ArrivalTimeout2` |
| `WaitForAllAPs`, `ReleaseAllAPs` | `WaitForAllAPs`, `AllAPsWaitedFor`, `ReleaseAllAPs` |
| `InternalSmmStartupThisAp` | `StartupThisAp` ... `StartupWaits` |

The stages of the two handlers are the same step with another label: `AfterLoop`,
`AfterAll`, `AfterSignal`, `AfterWait` say where the code goes on, which differs
with SyncMode and with MTRRs.

**Assumptions.** Memory is sequentially consistent: the processors are x86, and
between a store and a load it could pass stands a locked operation or a device
access. A time-out may come whenever the code waits for one, however early. An
SMI is taken at any later time, or never. The platform's hooks are the null
instances of this repository; `cpus` is `mNumberOfCpus`, which may be less than
`N`, `mMaxNumberOfCpus`.

With `prompt` three sequences are timely (`Undisturbed`): an AP that has found
InsideSmm clear after its second time-out has taken its arrival back before a BSP
sets InsideSmm; a BSP that leaves has cleared AllCpusInSync by then; and no AP
times out between the election of a BSP and its write of InsideSmm. This is a strong
assumption. No time-out protects these windows: a BSP that finds all processors
counted goes from `MpService.c:321` through its wait for arrivals without waiting,
so that an AP which is a few instructions late, by an SMI to its sibling thread or
a slow bus, is late enough. SmmHeldUp shows what the assumption excludes. What
holds without it is said with each property and theorem.

**Fairness.** A processor in SMM goes on (`WF(Step(c))`). Nothing is assumed of
`Enter`: a processor outside may never come, which is what the time-outs are
for. `SF(Leave(c))`: a processor that spins on AllCpusInSync reads it many times
while it is clear between two runs, and need not miss all of them.
`SF(HandlersReturn)`: the SMI handlers end, however many procedures they start.

**Properties.** `TypeOK`; `Asserts` (the assertions of the code); `OneBsp`;
`Balanced` (in each WaitForAllAPs the signals that came and those that will come
are as many as the BSP waits for; without `prompt` in each but the first);
`CleanSlate` (when processors may check in again nothing is left of the last
run); `Drained` (after the handlers no AP has a procedure); `NoNormalMode` (in
the traditional mode no processor runs normal code from the end of
SmmWaitForApArrival to the end of the handlers); `Leaves` (whoever is in SMM
leaves it; without `prompt`, a BSP whose APs have arrived comes to the end of
its run, whatever enters meanwhile); `Served` (after an SMI with a status bit
the handlers start, if processors take their SMIs).

**Runs.** SmmPrompt, 217,820 states: seven configurations, three processors in
the platform's traditional mode and in the relaxed mode with procedures that do
not block; two processors with MTRRs, with an elected BSP and a status bit, all
of it in the relaxed mode, and the relaxed mode with MTRRs without `prompt`.
Deadlock is not checked because in this last configuration the system really may
stop: the BSP waits for the arrival of an AP that has given up (finding 3). With
`prompt`, `Leaves` says that it does not. Three processors are a BSP with two
APs, enough for one AP that is late, absent or busy while the other one is not,
and for every loop over APs to have a first and a last turn; two suffice for the
stages MTRRs add and for the race of an election. SMIs are not counted: run
follows run. SmmHeldUp: the platform's configuration without `prompt`;
`NoNormalMode` fails, finding 3.

**Proved** (`SmmRendezvousProofs`), for every number of processors and every set
of configurations: all the safety properties.

- `OneBspHolds`, `AssertsHold`, `CleanSlateHolds`, `DrainedHolds` hold in every
  configuration, also without `prompt`. None of the properties is inductive; the
  invariant `RunInv` (`RunInvariant`) says: nobody is the BSP (`Idle`), or one
  processor is (`Running(b)`) and
  - each other processor is where the stage of the BSP lets it be, and has a
    signal only if the BSP has given one that it has not taken (`Follows`);
  - a `Busy` is locked only for a procedure under way (`Locks`);
  - `counter`, `apCount` and `waiting` are the numbers of processors that are
    still to signal, with those that are about to take their arrival back
    (`Stage`). `Owed(S, b)` is that number: the signals the BSP has not taken
    yet and the processors that are still to give one.

  `Entering` says the same of the processors on the way in, and who may be in
  `BspIndex` when.
- `TypeOKHolds`, `BalancedHolds`, `NoNormalModeHolds` are
  `Spec => [](mode.prompt => ...)`: without `prompt` TLC violates `NoNormalMode`,
  the counter may be one below locked, and the first wait may be for one signal
  too many, so that `TypeOK` and `Balanced` say there what is left.
  `PromptInvariant` adds `Prompted` (while there is a BSP nobody takes an arrival
  back, so that the counter is locked once it has been) and `InSync` (in the
  traditional mode whoever the BSP has counted or sent an IPI does not go back
  to normal mode without an SMI).

The argument per action is: one processor changes its label, by `AtStep` each
count changes by at most one, and `Stage` says which. Each action is a lemma; the
loops over the processors (`ReleaseAllAPs`, `AllAPsWaitedFor`, `LoopEnds`) share
`NextStage`. `Leaves` and `Served` are liveness and stay with TLC.

**Left out.** What the MTRRs hold, SwitchBsp, hot-plug, the SMM profile, the
debug agent, page tables; hooks that elect the BSP themselves.

## 7. HandleDatabase

**State.** `protocols[h]` is a handle's list of interfaces, empty when it has
been freed; `opens[<<h, p>>]` the OpenList of an interface. `entry`, `position`,
`signaled` are one protocol's list of interfaces with a registered notification,
`unseen` what the notification function has still to be told of (a history).
`bindings` are the driver bindings. `stack` holds the calls under way, one frame
each, as the code has them: Uninstall calls Disconnect, which calls a driver's
Stop, which calls Uninstall for its child, which is refused and calls Connect.

**Actions.** What a function does between two calls of drivers, with the lock,
is one step.

| code (`DXE/Hand`) | definitions |
|---|---|
| `CoreInstallProtocolInterfaceNotify` | `Install`, `CallInstall` |
| `CoreDisconnectControllersUsingProtocolInterface` | `FindDriver`, `Refuse`, `Refused`, `Unused` |
| `CoreUninstallProtocolInterface`, `CoreReinstallProtocolInterface` | `NotFound`, `Uninstalls`; `Reinstalls`, `Reinstalled`, `MoveToTail` |
| `CoreRemoveInterfaceFromProtocol`, `CoreLocateHandle` by notification | `RemoveInterface`, `BacksUp`; `CallLocate` |
| `CoreOpenProtocol`, `CoreCloseProtocol`, `CoreHandleProtocol` | `OpenStatus`, `Opened`, `OpenDenied`, `OpenFindDriver`, `OpenSucceeds`; `Close`; `CallGet` |
| `CoreDisconnectController` | `CollectAgents`, `NoDriver`, `CollectChildren`, `StopChildren`, `StopDriver`, `DriverAsked`, `AllAsked` |
| `CoreConnectController`, `CoreConnectSingleController` | `CollectDrivers`, `CheckDrivers`, `TryDriver`, `Tried`, `Descend`, `Descended` |

**Environment.** A bus driver makes child handles with a block interface, a disk
driver puts a volume on the same handle, a file system driver uses it. They
follow the UEFI driver model: open by driver in Start, by child for each child,
uninstall and close in Stop, undo when either fails. A program and a
notification function make calls; `Scenarios` says which, which drivers are
there at first, which may refuse to stop and which may fail to start.

**Assumptions.** The drivers raise the level to TPL_CALLBACK in Start and Stop,
as those of USB do, so the notification function runs only between the steps of
the services themselves. It installs drivers, connects, gets interfaces and
locates, but

- it does not remove or close anything: the walk at `Handle.c:642-659` reads
  `OpenData->AgentHandle` after it has released the lock, and the interface it
  goes on with may be gone;
- it opens nothing exclusively: whether somebody else has done so is asked
  before the lock is released (`Handle.c:1124-1147`) and not again;
- it connects nothing during a disconnect: the agents and the children are
  counted in one section of the lock and collected in another one
  (`DriverSupport.c:778-837`, `:859-923`), with a buffer of the first size.
  `CollectAgents` and `CollectChildren` are single steps for that reason.

**Properties.** `TypeOK`; `OneManager` (an interface has one manager or one
exclusive user, whatever was connected while others were being disconnected);
`ParentsStay` (who has a child of a controller also manages the controller, and
the child exists); `ReaderMissesNothing` (who goes on asking after each signal is
told of every interface, once); `Reconnected` (when a recursive connect is done,
and so after a refused uninstall or a reinstall, every controller below has all
the drivers that support it); `Returns` (every call comes to its end, although
the walks begin again after each driver).

**Fairness.** `WF(Step)`: one processor, and a call that is under way goes on.
`Returns` excuses an endless series of interruptions only.

**Run.** Handles, 306,619 states, six scenarios: a program with two devices that
connects, disconnects, removes, adds and reinstalls, with a disk driver or a bus
driver that may refuse; exclusive opens while a notification function connects;
drivers that are loaded during a connect; a notification function that connects
and locates, with a file system driver that may refuse; drivers whose Start may
fail. Two devices let one child refuse and the other one stop; three drivers
whose order is the reverse of what they need make the loop over drivers start
again twice, and a refusal travel up through three levels of calls.

**Proofs** (`HandleDatabaseProofs`, `HandleDatabaseReconnected`). `Known` is
inductive by itself, whatever the scenario: the types of the tables and of the
frames a step needs (`Tables`, `Formed`), and the list of interfaces with the
position of the notification in it: an interface is in the list when it is
installed, at one place; `unseen` holds what stands behind the position, and
when that is anything, the event is signalled or a reinstall under way will
signal it. `KnownStays` has a case per action; the steps that remove or move an
interface are those that matter, for they take away the place the position
stands at. From it follows `ReaderMissesNothing`, without a hypothesis
(`MissesNothing`).

`OneManager` needs `Openers` besides: an OpenList names a user once, and a call
that opens exclusively stands only at the bottom of the stack. It needs
the hypothesis `NoneExclusive`: the notification function opens nothing
exclusively. The code asks whether somebody else has the interface exclusively,
releases the lock to disconnect the driver and does not ask again
(`Handle.c:1124-1147`), so the assumption stands in the theorem (`Managers`).

`TypeOK` and `ParentsStay` depend on how the calls under way lie on one another:
that nothing has opens that is not installed, say, holds because the disk driver
still manages a block interface whose volume is there, and a driver that has
said it has stopped has done so. `Ordered` adds that to `Known` and `Openers`:

- `Lists`: no list has repetitions, and there are opens of what is installed only;
- `Parents`: volumes and children are there while their driver manages the
  controller;
- `Laid`: which call may stand on which (`Upon`), how far each one has come and
  with what in its buffers (`Modest`); all calls above the bus driver's Stop are
  about the child it is stopping;
- `Unders`: the bus driver has the children it is still to stop, and no others
  if it is to stop on the controller after them;
- `TopHeld`: what the last call may rely on, for instance that a driver about to
  be stopped on the controller has no children left.

TLC found each part true on the run Handles before it was proved. `OrderStays`
goes through the calls, the services and the drivers' Start and Stop; most steps
only change the top of the stack and use the lemmas on what an invocation, a
return and an interruption do to `Laid` and `Unders`. From `OrderedAlways` follow
`TypesHold` and `ParentsHold`. Both have the hypothesis `Harmless`, the
assumptions above: the notification function does not disconnect, uninstall,
reinstall or open exclusively, in any scenario. All scenarios of the run satisfy
it; what it connects, installs, opens, closes, locates or loads is free.

`Reconnected` says what a call finds at its end, so its invariant has to say what
each call under way still has to do. `Reaching` adds to `Ordered`:

- `Linked`: of two calls that lie on one another, which connects for which
  (`Pair`, `Made`): above a call that connects are only such calls and Starts,
  unless it waits in a removal, and a refused removal connects its own
  controller with all below it. What is connected exists, the drivers that are
  asked are there (`Alive`), the root has no other interface than the bus's.
- `Covered`, when no Start fails: a call that asks the drivers in turn (`Tries`)
  has in its list each driver that does not yet manage the controller, and each
  one it has passed is satisfied or some call above is still to ask all drivers
  about the same controller (`Awaited`). A call that has asked them all (`Rests`)
  may say this of every controller of its family that it has not still to look
  at. A Start makes a child (`Starts`) only below a bus that no call has done with.

At the end of a recursive call nothing is left to look at and nothing lies above
it, so each controller of its family is satisfied. No induction over the tree is
needed: the root is the only controller with children. A claim survives a step
that leaves nothing new to start but at one controller and loses no manager
(`Spares`); the steps that matter are the others: a driver that stops, and a Start
that gives the controller, or the child it makes, something to start.

`ReachingAlways` is the theorem of the invariant, found true in all 306,619
states of Handles before. `ReconnectedHolds` has, besides `Harmless`, the
hypothesis `Waking`: the notification function closes nothing, and when it loads
drivers the bus driver is there already. All scenarios of the run satisfy it, and
TLC refutes `Reconnected` without either half:

- a function that closes an exclusive open, after all drivers have refused the
  controller because of it, leaves a controller they would support;
- a function that loads the bus driver, after a call has collected the children
  of the controller, and connects the controller without recursion, leaves a
  child that nobody connects (`DriverSupport.c:184-212`).

**Left out.** Device paths, the order of drivers by overrides and version
(`Order` stands for one), several interfaces of one protocol on a handle,
Install/UninstallMultiple, OpenCount, exclusive opens by drivers, the searches
that change nothing, failing allocations.

## 8. Findings

With a run that violates what the source says:

1. **An update is undone** (VarRollback, `VAR/Variable.c:1122`). Of two
   IN_DELETED_TRANSITION copies, Reclaim keeps the first and `FindVariableEx`
   reads the last.
2. **A closed event's function runs** (EventClose, `DXE/Event/Tpl.c:126`). A
   tick between the last look at `gEventPending` and the new level leaves an
   unmasked event pending. CoreCloseEvent's cancel of the timer then dispatches
   it, it sets the timer again, and the event is freed in the list.
3. **An AP leaves while the handlers run** (SmmHeldUp, `SMM/MpService.c:594`).
   An AP that gives up looks at InsideSmm, is held up, and takes its arrival
   back after the BSP has found all arrived. If the BSP has locked the counter
   by then, the decrement also leaves it at 0xFFFFFFFE: the BSP counted one AP
   more than will signal, and waits for it for ever. A
   delay of a few instructions is enough.

Seen while modelling, without a run of their own:

- FTW: FtwAllocate computes `Offset`, reclaims, and writes the header at the old
  `Offset`, where no walk finds it (`FaultTolerantWrite.c:123`). `AllocateGranted`
  fails with `AllocSizes = {1, 2}` and a queue of 6. With no FVB handle for the
  target at boot, nothing is restarted and the record is aborted all the same,
  after the target may have been erased (`FtwMisc.c:1362`): `Available` fails
  with `MissingFvb = TRUE`. After a power loss in the second write of an
  allocation a half written record stays, and the next FtwWrite writes over it
  without an erase (`FaultTolerantWrite.c:442`): the record then reads as a mix
  of two. FtwMulti passes because its caller rewrites the same range. A reclaim
  that fails half way leaves the working block marked invalid while the driver
  goes on serving; FtwIo leaves the operations of a reclaim out for that reason.
- Variables, the HOB: setting what flash already has returns before the HOB's copy,
  which GetVariable prefers, is dropped (`Variable.c:2376`): `SetVisible` fails with
  a HOB variable that does not fit. The write protocol is installed also after
  `VariableWriteServiceInitialize` failed (`VariableDxe.c:423-444`).
- Variables, space: a torn header is counted as a hardware error record at the next
  boot (`Variable.c:3819`), and the sum of both kinds is never compared with the
  store, so that an entry can pass its end; VarSpace and VarFaults exclude torn
  headers. Such a total also makes the unsigned subtraction at `Variable.c:3618`
  wrap, which skips the reclaim for the operating system as far as hardware error
  records are concerned.

  An entry can pass the end without a torn header too, when a header is written
  over a left-over one of the other kind (`Variable.c:2655`): StartId stays
  (`:264`), the AND of both attributes is that of a common variable, and the
  next boot finds nothing to repair (`:3964`). With a common variable `a` and a
  hardware error record `h`, contents of 2 units, a store of 6 and a limit of 3
  for each kind: the header of `a` is written and its state byte fails; `h` is
  set, over that header, and counted as a hardware error record; `a` is set
  behind it; the power is lost. The boot counts 6 units of common variables and
  none of hardware error records, so that `h` is appended at 6: 9 units in a
  store of 6. With both kinds TLC refutes `Within`; VarFaults has common
  variables only for that reason.
- Variables, failing entries: a failed write of a new entry leaves memory copy
  and flash apart, and the next set writes over bytes that are not erased, so
  that `InSync`, `Accounted` and `NeverLost` fail.
- Variables, two old copies: deleting a variable that has two
  IN_DELETED_TRANSITION copies deletes one, and it reads as the other one again.
  One power loss is enough: it cuts an update off after ADDED; at runtime a
  second update marks the newer copy and is refused for lack of space; the
  delete that follows succeeds (two variables, store of 8, contents of 1 and 2
  units). VarAtomic does not reach it: with two copies its store is below the
  threshold at ReadyToBoot and is reclaimed.
- Events: a build that reads `gEventPending` a second time for `HighBitSet64`
  can find it empty. A period close to 2^64 wraps, and CoreCheckTimers then does
  not end. A signal between CloseEvent's unlink and its end queues the event
  again.
- SMM: `MpService.c:374-377` and `:393-396` say of the two releases of the MTRR
  stages that "WaitForSemaphore() may wait for ever if an AP happens to enter
  SMM at exactly this point" and ask for a large PcdCpuSmmMaxSyncLoops. The
  model disagrees. The counter has been locked down before (`:360`), so that an
  AP which enters there finds it locked, spins on AllCpusInSync (`:1061-1077`)
  and is neither counted nor released; and as many APs as the BSP has counted
  have flagged their presence and signalled (`:365`) before it releases anybody.
  (An arrival taken back from the locked counter, finding 3, lets one AP in that was
  not counted; its signal is the one the BSP is waiting for, and it locks the
  counter again.) `Leaves`
  holds from there on, with time-outs at any moment and with processors held up
  anywhere (the configuration `HeldUpMtrrs`), `Balanced` for these waits as
  well. The wait for ever that the code does have lies one step earlier, in the
  wait for the arrivals at `:365`: finding 3. It needs a time-out of an AP that
  gives up, which a longer one makes rarer, and no time-out of the BSP.
- Handles: what section 7 assumes of notification functions.
  `DriverSupport.c:709-711` promises EFI_SUCCESS for a driver that is not
  managing the controller; the code returns EFI_NOT_FOUND (`:951-955`).
  UninstallMultiple's roll-back installs on a handle that is freed when its last
  interface went (`Handle.c:858-860`).

## 9. What is checked how

| | TLC, small instance | TLAPS, every instance |
|---|---|---|
| FTW `TypeOK` | FtwSingle | `TypeCorrect` |
| FTW `Recoverable`, `AllocateGranted` | FtwSingle; FtwMulti and FtwIo for `Recoverable` | `WritesRecoverable`, `WritesAllocateGranted`, one record per allocation; flash that works, or fixed blocks and no failing reclaim |
| FTW `Available` | FtwSingle | `SingleWritesAvailable`, one record per allocation, working flash |
| FTW `AtomicWrites` | FtwSingle, FtwMulti | `SingleWritesAtomic`, the same |
| FTW `LostOnlyByAbort` | FtwIo | `WritesLostOnlyByAbort`, as `WritesRecoverable` |
| FTW `ReturnsToCaller` | FtwSingle | liveness is out of the prover's reach |
| Variable store `TypeOK` | VarFaults | `TypeCorrect` |
| Variable store `Accounted`, `InSync`, `NeverLost`, `HobKept` | VarSpace | `AccountedHolds` ..., new entries and the repair do not fail |
| Variable store `AtomicSet` | VarAtomic; VarRollback refutes it in general | `SetIsAtomic`, the same and without `LeavesOldCopy` |
| Variable store `SetVisible`, `RoomForOs` | VarAtomic | `SetVisibleHolds` also without `KeepsHob`; `RoomForOsHolds` with reclaims that work |
| Variable store `Within` | VarFaults, common variables, with failing entries; false for both kinds (section 8) | `WithinHolds`, new entries and the repair do not fail, no torn headers |
| Events `TypeOK`, `Preempts`, `Deliverable`, `ListsSound`, `TickNotices` | EventMain | `Types` ..., all configurations |
| Events `ClosedUnused` | EventMain; EventClose refutes it in general | `ClosedStaysUnused`, under `BottomCloses` |
| SMM rendezvous `OneBsp`, `Asserts`, `CleanSlate`, `Drained` | SmmPrompt | `OneBspHolds` ..., all configurations |
| SMM rendezvous `TypeOK`, `Balanced`, `NoNormalMode` | SmmPrompt | `TypeOKHolds` ..., all with `prompt` |
| SMM rendezvous, `Leaves`, `Served` | SmmPrompt; `Leaves` without `prompt` from the end of the arrivals on | liveness |
| Handles `ReaderMissesNothing` | Handles | `MissesNothing`, all scenarios |
| Handles `OneManager` | Handles | `Managers`, no exclusive opens by the notification function |
| Handles `TypeOK`, `ParentsStay` | Handles | `TypesHold`, `ParentsHold`, under `Harmless` |
| Handles `Reconnected` | Handles | `ReconnectedHolds`, under `Harmless` and `Waking` |
| Handles, `Returns` | Handles | liveness |

Every safety property that a passing run checks is a theorem, for all values of
the constants, under the hypotheses of the table. What the prover cannot do are
the liveness properties (`ReturnsToCaller`, `Leaves`, `Served`, `Returns`):
those stay with TLC.

## 10. Plan

Done: FaultTolerantWrite with its proofs, VariableStore, DxeEvent,
SmmRendezvous, HandleDatabase.

Left to model: the dispatcher (`DXE/Dispatcher`: apriori, BEFORE/AFTER,
dependency expressions, volumes that appear while drivers start; abstract
specification: an order in which each driver comes once and after what it
needs); the roll-backs of Install- and UninstallMultiple in HandleDatabase; the
reclaim of VariableStore as Allocate and Write of the FTW model instead of one
step.

Proved: `TypeOK`, the safety and the refinement of FTW for the variable driver's
use of it, its behaviour under failing flash among them; all the safety of
SmmRendezvous and HandleDatabase; all the properties of VariableStore and DxeEvent.
Liveness stays with TLC.
Findings that have their explanation here give up their run when a new module
needs it.

**Not modelled.** The components listed as such in `PROJECT.json`, each with its
reason: sequential algorithms without failures, register programming, protocol
stacks above the core, other architectures, vendored code and build tools. They
are nearly all of the repository's lines.
