---------------------------- MODULE VariableStore ----------------------------
(***************************************************************************)
(* The non-volatile variables of the UEFI variable driver,                 *)
(* MdeModulePkg/Universal/Variable/RuntimeDxe.  They are appended to a     *)
(* store in flash, where a state byte of each takes it from "header        *)
(* written" to "added" and later to "deleted"; a reclaim compacts the      *)
(* store through the Fault Tolerant Write driver, for which it is one      *)
(* atomic write.  The driver works from a memory copy of the store and     *)
(* from the variables that PEI left in a HOB, which it moves to flash.     *)
(*                                                                         *)
(* One action is one flash operation with the RAM work up to the next one; *)
(* the power can fail inside each of them.  Sizes are in units of one      *)
(* variable header.                                                        *)
(*                                                                         *)
(* Abstracted: volatile, authenticated and appended variables, the quota   *)
(* of user variables, variables without runtime access, the languages.     *)
(***************************************************************************)
EXTENDS Integers, Sequences, Subsequences

CONSTANTS
  Names,           \* the variables
  HwNames,         \* those with EFI_VARIABLE_HARDWARE_ERROR_RECORD
  Values,          \* their contents
  DataSize,        \* the units of name and data of each content
  NoValue,         \* no such variable, and the content that deletes one
  NoRequest,       \* nothing is being set
  StoreSize,       \* VariableStoreHeader->Size without that header
  HwErrSize,       \* PcdHwErrStorageSize
  BootReserve,     \* PcdBoottimeReservedNvVariableSpaceSize
  MaxVariableSize, \* PcdMaxVariableSize
  MaxHwErrSize,    \* PcdMaxHardwareErrorVariableSize
  Hobs,            \* what PEI may leave: functions from Names
  MaxLosses,       \* bound: how often the power is lost
  TornHeaders,     \* TRUE iff a header can be cut after its StartId
  Failing          \* what can fail: "state", the write of a state byte of an
                   \* entry; "entry", that of a new one; "ftw", a reclaim;
                   \* "repair", the reclaim before variables can be written

ASSUME ConstantsAssumption ==
  /\ HwNames \subseteq Names
  /\ NoValue \notin Values
  /\ NoRequest \notin [name : Names, value : Values \cup {NoValue}]
  /\ NoRequest \notin [keys : SUBSET Names, value : Values \cup {NoValue}]
  /\ DataSize \in [Values -> Nat]
  /\ StoreSize \in Nat /\ HwErrSize \in Nat /\ HwErrSize < StoreSize
  /\ BootReserve \in Nat /\ BootReserve < StoreSize - HwErrSize
  /\ MaxVariableSize \in Nat /\ MaxHwErrSize \in Nat
  /\ Hobs \subseteq [Names -> Values \cup {NoValue}]
  /\ MaxLosses \in Nat /\ TornHeaders \in BOOLEAN

VARIABLES
  flash,       \* the variable entries of the store in flash
  dirty,       \* flash: the area after them is not all erased
  cache,       \* mNvVariableCache, its memory copy
  offset,      \* NonVolatileLastVariableOffset
  hwTotal,     \* HwErrVariableTotalSize
  commonTotal, \* CommonVariableTotalSize
  hob,         \* the variables of the HOB that are still ADDED there
  flushing,    \* FlushHobVariableToFlash runs, HobVariableBase is 0
  todo,        \* the variables it has yet to visit
  phase,       \* power off, boot services, runtime
  reclaimed,   \* Reclaimed of ReclaimForOS
  pc,          \* the operation the driver performs next
  request,     \* the last SetVariable
  status,      \* its result
  job,         \* what UpdateVariable sets: the request, a HOB's variable
  cur,         \* Variable->CurrPtr, an index of cache, 0 for NULL
  old,         \* Variable->InDeletedTransitionPtr
  losses       \* power losses so far

sizes == <<offset, hwTotal, commonTotal>>
hobs  == <<hob, flushing, todo>>
call  == <<request, status, job, cur, old>>
mode  == <<phase, reclaimed, losses>>
vars  == <<flash, dirty, cache, sizes, hobs, mode, pc, call>>
-----------------------------------------------------------------------------
(**************************** Variable entries ****************************)

\* VARIABLE_HEADER.State.  "torn": a StartId and nothing else; "header": a
\* header with an erased state; "valid": VAR_HEADER_VALID_ONLY.
States == {"torn", "header", "valid", "added", "transition", "deleted"}

Jobs == [name : Names, value : Values \cup {NoValue}]
Entries == [name : Names, value : Values, state : States]

Entry(j, state) == [name |-> j.name, value |-> j.value, state |-> state]

\* NameSizeOfVariable and DataSizeOfVariable are 0 while the state is erased.
SizeOf(e) == IF e.state \in {"torn", "header"} THEN 1 ELSE 1 + DataSize[e.value]

\* The attributes of a torn header are erased, so every bit of them is set.
IsHwErr(e) == e.state = "torn" \/ e.name \in HwNames

Total(s)       == SumOf([i \in DOMAIN s |-> SizeOf(s[i])])
HwTotal(s)     == SumOf([i \in DOMAIN s |-> IF IsHwErr(s[i]) THEN SizeOf(s[i]) ELSE 0])
CommonTotal(s) == Total(s) - HwTotal(s)

CommonSpace        == StoreSize - HwErrSize
CommonRuntimeSpace == CommonSpace - BootReserve

\* Whether a store keeps the limits of the two kinds of variables.
Fits(s) == /\ Total(s) <= StoreSize
           /\ HwTotal(s) <= HwErrSize /\ CommonTotal(s) <= CommonSpace

AllOf(s, n, state) == {i \in DOMAIN s : s[i].name = n /\ s[i].state = state}

First(S) == CHOOSE i \in S : \A j \in S : i <= j
LastOrNull(S) == IF S = {} THEN 0 ELSE CHOOSE i \in S : \A j \in S : j <= i

\* FindVariableEx: the first ADDED one, else the last IN_DELETED_TRANSITION.
Current(s, n) == IF AllOf(s, n, "added") # {} THEN First(AllOf(s, n, "added"))
                 ELSE LastOrNull(AllOf(s, n, "transition"))

\* The last IN_DELETED_TRANSITION one before the ADDED one it returns.
InDeleted(s, n) ==
  IF AllOf(s, n, "added") = {} THEN 0
  ELSE LastOrNull({i \in AllOf(s, n, "transition") : i < Current(s, n)})

Read(s, n) == IF Current(s, n) = 0 THEN NoValue ELSE s[Current(s, n)].value

\* GetVariable: FindVariable looks into the HOB before the memory copy.
Get(n) == IF ~flushing /\ hob[n] # NoValue THEN hob[n] ELSE Read(cache, n)
-----------------------------------------------------------------------------
(********************************* Reclaim *********************************)

\* The entries of s at the indices in S, as ADDED ones.
Reinstall(s, S) ==
  LET kept == Subsequence(s, S)
  IN  [k \in DOMAIN kept |-> [kept[k] EXCEPT !.state = "added"]]

\* Mutant: the new copy of a variable is not kept in preference to the old one.
KeptInFlashOrder(s) ==
  LET live == {i \in DOMAIN s \ {cur, old} : s[i].state \in {"added", "transition"}}
  IN  Reinstall(s, {i \in live : \A j \in live : j < i => s[j].name # s[i].name})

\* What Reclaim keeps of s: the ADDED variables but the one being updated, then
\* the first IN_DELETED_TRANSITION one of each name that has no other.
Kept(s) ==
  LET added    == {i \in DOMAIN s \ {cur} : s[i].state = "added"}
      deleting == {i \in DOMAIN s \ {cur, old} : s[i].state = "transition"}
      promoted == {i \in deleting :
                     \A j \in added \cup deleting :
                       s[j].name = s[i].name => j >= i /\ j \notin added}
  IN  Reinstall(s, added) \o Reinstall(s, promoted)

\* The totals after a walk over s.
Count(s) == /\ offset' = Total(s)
            /\ hwTotal' = HwTotal(s) /\ commonTotal' = CommonTotal(s)

\* Both outcomes end with the memory copy read back from flash.
ReclaimTo(s) == /\ flash' = s /\ cache' = s /\ dirty' = FALSE
                /\ Count(s)

\* Mutant: the memory copy stays the buffer of the reclaim that failed.
ReclaimFailsWithBuffer ==
  /\ cache' = Kept(flash)
  /\ Count(flash)
  /\ UNCHANGED <<flash, dirty>>

ReclaimFails == /\ cache' = flash
                /\ Count(flash)
                /\ UNCHANGED <<flash, dirty>>
-----------------------------------------------------------------------------
(******************* UpdateVariable's start and its end *******************)

\* Mutant: the pointers are kept.
ExitWithPointers(label) == pc' = label /\ job' = NoRequest /\ UNCHANGED <<cur, old>>

Exit(label) == pc' = label /\ job' = NoRequest /\ cur' = 0 /\ old' = 0

\* FlushHobVariableToFlash(name) up to its loop: the variable that was set is
\* no longer needed in the HOB.
FlushHob(skip) ==
  LET left == [n \in Names |-> IF n \in skip THEN NoValue ELSE hob[n]] IN
  /\ hob' = left
  /\ todo' = {n \in Names : left[n] # NoValue}
  /\ flushing' = (todo' # {})
  /\ Exit(IF flushing' THEN "flush" ELSE "idle")

\* Mutant: the HOB loses a variable that could not be flushed.
FailDropsHob(error) ==
  /\ IF flushing THEN Exit("flush") /\ hob' = [hob EXCEPT ![job.name] = NoValue]
                                    /\ UNCHANGED status
                 ELSE Exit("idle") /\ status' = error /\ UNCHANGED hob
  /\ UNCHANGED <<request, flushing, todo>>

\* UpdateVariable returns: for a variable of the HOB to the loop of
\* FlushHobVariableToFlash, otherwise to the caller of SetVariable.
Fail(error) ==
  /\ IF flushing THEN Exit("flush") /\ UNCHANGED status
                 ELSE Exit("idle") /\ status' = error
  /\ UNCHANGED <<request, hobs>>

Succeed ==
  /\ IF flushing
     THEN /\ hob' = [hob EXCEPT ![job.name] = NoValue]
          /\ Exit("flush")
          /\ UNCHANGED <<flushing, todo, status>>
     ELSE /\ status' = "success"
          /\ FlushHob({job.name})
  /\ UNCHANGED request

\* UpdateVariable(j) up to its first flash operation, where it has one.
Start(j) ==
  /\ job' = j /\ cur' = Current(cache, j.name) /\ old' = InDeleted(cache, j.name)
  /\ pc' = IF j.value = NoValue
           THEN IF old' = 0 THEN "delete_cur" ELSE "delete_old"
           ELSE IF cur' = 0 THEN "space" ELSE "mark"

(****************************** SetVariable *******************************)

\* Setting a variable to what it is returns at once.
Unchanged(j) == j.value # NoValue /\ Read(cache, j.name) = j.value

\* Deleting a variable that only the HOB has.
HobOnly(j) == j.value = NoValue /\ Current(cache, j.name) = 0 /\ hob[j.name] # NoValue

NotFound(j) == j.value = NoValue /\ Current(cache, j.name) = 0 /\ hob[j.name] = NoValue

\* It is refused until FTW is there: in the boot phase the write service is
\* already initialized.
SetVariable(j) ==
  /\ pc = "idle" /\ phase \in {"boot", "runtime"}
  /\ request' = j
  /\ \/ /\ Unchanged(j)
        /\ status' = "success" /\ Exit("idle") /\ UNCHANGED hobs
     \/ /\ NotFound(j)
        /\ status' = "not_found" /\ Exit("idle") /\ UNCHANGED hobs
     \/ /\ HobOnly(j)
        /\ status' = "success" /\ FlushHob({j.name})
     \/ /\ ~Unchanged(j) /\ ~HobOnly(j) /\ ~NotFound(j)
        /\ status' = "none" /\ Start(j) /\ UNCHANGED hobs
  /\ UNCHANGED <<flash, dirty, cache, sizes, mode>>

\* FlushHobVariableToFlash, its loop and its end.
FlushNext(n) ==
  LET j == [name |-> n, value |-> hob[n]] IN
  /\ pc = "flush" /\ n \in todo
  /\ todo' = todo \ {n}
  /\ IF Unchanged(j) THEN hob' = [hob EXCEPT ![n] = NoValue] /\ Exit("flush")
                     ELSE Start(j) /\ UNCHANGED hob
  /\ UNCHANGED <<flash, dirty, cache, sizes, flushing, mode, request, status>>

\* Variables that could not be flushed stay in the HOB.
FlushEnd ==
  /\ pc = "flush" /\ todo = {}
  /\ flushing' = FALSE
  /\ Exit("idle")
  /\ UNCHANGED <<flash, dirty, cache, sizes, hob, todo, mode, request, status>>

Flush == (\E n \in Names : FlushNext(n)) \/ FlushEnd
-----------------------------------------------------------------------------
(************************ UpdateVariable, state bytes **********************)

\* The state byte of entry i, in flash and then in the memory copy: bits are
\* only cleared.  An entry that was written over unknown bytes may not be found.
Advance(s, i, state) ==
  IF i \in DOMAIN s /\ s[i].state # "deleted" THEN [s EXCEPT ![i].state = state] ELSE s

WriteState(i, state) ==
  /\ flash' = Advance(flash, i, state)
  /\ cache' = Advance(cache, i, state)
  /\ UNCHANGED <<dirty, sizes, mode>>

\* UpdateVariableStore fails before the byte is written.
StateFails ==
  /\ pc \in {"delete_old", "delete_cur", "mark"} /\ "state" \in Failing
  /\ Fail("device_error")
  /\ UNCHANGED <<flash, dirty, cache, sizes, mode>>

Goto(label) == pc' = label /\ UNCHANGED <<call, hobs>>

DeleteOld ==
  /\ pc = "delete_old"
  /\ WriteState(old, "deleted")
  /\ Goto("delete_cur")

\* The last write of a delete and of an update.
DeleteCurrent ==
  /\ pc = "delete_cur"
  /\ WriteState(cur, "deleted")
  /\ Succeed

\* Mutant: the old variable is deleted before the new one is written.
MarkOldDeleted ==
  /\ pc = "mark"
  /\ WriteState(cur, "deleted")
  /\ Goto("space")

MarkOld ==
  /\ pc = "mark"
  /\ WriteState(cur, "transition")
  /\ Goto("space")

(*********************** UpdateVariable, a new entry ***********************)

VarSize(j) == 1 + DataSize[j.value]

\* Mutant: the size of the new entry is not counted.
NoSpaceForNothing(j) ==
  IF j.name \in HwNames THEN hwTotal > HwErrSize ELSE commonTotal > CommonSpace

NoSpace(j) ==
  IF j.name \in HwNames THEN VarSize(j) + hwTotal > HwErrSize
  ELSE VarSize(j) + commonTotal >
         (IF phase = "runtime" THEN CommonRuntimeSpace ELSE CommonSpace)

\* Reclaim integrates the new variable in place of the one it replaces.
ReclaimWith(j) ==
  LET new == Kept(flash) \o <<Entry(j, "added")>> IN
  \/ /\ ~Fits(new)
     /\ cache' = flash
     /\ Fail("out_of_resources") /\ UNCHANGED <<flash, dirty, sizes>>
  \/ /\ Fits(new)
     /\ ReclaimTo(new) /\ Succeed
  \/ /\ Fits(new) /\ "ftw" \in Failing
     /\ ReclaimFails /\ Fail("device_error")

FindSpace ==
  /\ pc = "space"
  /\ \/ /\ ~NoSpace(job)
        /\ Goto("header") /\ UNCHANGED <<flash, dirty, cache, sizes>>
     \/ /\ NoSpace(job) /\ phase = "runtime"
        /\ Fail("out_of_resources") /\ UNCHANGED <<flash, dirty, cache, sizes>>
     \/ /\ NoSpace(job) /\ phase = "boot"
        /\ ReclaimWith(job)
  /\ UNCHANGED mode

Erased == ~dirty /\ offset = Total(flash)

\* The last entry of s is what a write that failed has left at the offset.
LeftOver(s) == offset < Total(s)

\* What a walk reads where the header of e is written over that of l.  Flash
\* bits are only cleared: StartId stays, so it is not the end of the store, the
\* state stays, and the attributes, the sizes and the name are the AND of both.
Mixtures(e, l) ==
  {m \in Entries :
     /\ m.state = l.state
     /\ IF e.name = l.name THEN m.name = l.name
        ELSE m.name \in HwNames <=> {e.name, l.name} \subseteq HwNames
     /\ IF e.value = l.value THEN m.value = l.value
        ELSE /\ m.value # NoValue
             /\ DataSize[m.value] <= DataSize[e.value]
             /\ DataSize[m.value] <= DataSize[l.value]}

\* What it reads where the header of e is written over unknown bytes, unless
\* these spoil StartId.
Unknown(e) ==
  {m \in Entries : /\ m.state # "torn" /\ m.value # NoValue
                   /\ m.name \in HwNames => e.name \in HwNames
                   /\ DataSize[m.value] <= DataSize[e.value]}

\* A header at the offset.  Where it makes an entry shorter, what was written
\* of the longer one follows it.
HeaderWritten ==
  \/ /\ Erased
     /\ flash' = Append(flash, Entry(job, "header")) /\ UNCHANGED dirty
  \/ /\ LeftOver(flash)
     /\ \E m \in Mixtures(Entry(job, "header"), flash[Len(flash)]) :
          /\ flash' = [flash EXCEPT ![Len(flash)] = m]
          /\ dirty' \in {dirty, dirty \/ SizeOf(m) < SizeOf(flash[Len(flash)])}
  \/ /\ dirty /\ ~LeftOver(flash)
     /\ UNCHANGED <<flash, dirty>>
  \/ /\ dirty /\ offset = Total(flash)
     /\ \E m \in Unknown(job) : flash' = Append(flash, m)
     /\ dirty' \in BOOLEAN

WriteHeader ==
  /\ pc = "header"
  /\ HeaderWritten
  /\ Goto("valid")
  /\ UNCHANGED <<cache, sizes, mode>>

\* The state of the new entry, when it is one in flash.  What an earlier write
\* has advanced stays so.
Raise(state) ==
  flash' = IF LeftOver(flash) /\ flash[Len(flash)].state \in {"header", "valid"}
           THEN Advance(flash, Len(flash), state) ELSE flash

WriteValid ==
  /\ pc = "valid"
  /\ Raise("valid")
  /\ Goto("data")
  /\ UNCHANGED <<dirty, cache, sizes, mode>>

\* Nobody reads the data before the entry is ADDED; where flash does not have
\* an entry of its size, a walk ends in it.
DataWritten ==
  /\ dirty' = (dirty \/ Total(flash) < offset + VarSize(job))
  /\ UNCHANGED flash

WriteData ==
  /\ pc = "data"
  /\ DataWritten
  /\ Goto("added")
  /\ UNCHANGED <<cache, sizes, mode>>

\* Where an update goes on when the new variable is ADDED.
Replace ==
  IF cur = 0 THEN Succeed
  ELSE Goto(IF old = 0 THEN "delete_cur" ELSE "delete_old")

\* Mutant: one unit is not counted.
CountAddedShort ==
  /\ offset' = offset + VarSize(job)
  /\ IF job.name \in HwNames
     THEN hwTotal' = hwTotal + VarSize(job) - 1 /\ UNCHANGED commonTotal
     ELSE commonTotal' = commonTotal + VarSize(job) - 1 /\ UNCHANGED hwTotal

CountAdded ==
  /\ offset' = offset + VarSize(job)
  /\ IF job.name \in HwNames
     THEN hwTotal' = hwTotal + VarSize(job) /\ UNCHANGED commonTotal
     ELSE commonTotal' = commonTotal + VarSize(job) /\ UNCHANGED hwTotal

\* Mutant: the memory copy is not updated.
WriteAddedFlashOnly ==
  /\ pc = "added"
  /\ Raise("added")
  /\ CountAdded
  /\ Replace
  /\ UNCHANGED <<cache, dirty, mode>>

\* The new entry in the memory copy, over a left-over one that a reclaim which
\* found no space has read back.
AddToCache ==
  cache' = IF LeftOver(cache) THEN [cache EXCEPT ![Len(cache)] = Entry(job, "added")]
           ELSE Append(cache, Entry(job, "added"))

WriteAdded ==
  /\ pc = "added"
  /\ Raise("added")
  /\ AddToCache
  /\ CountAdded
  /\ Replace
  /\ UNCHANGED <<dirty, mode>>

\* A write of the new entry fails before it is done, or thereafter.
EntryFails ==
  /\ "entry" \in Failing
  /\ \/ pc \in {"header", "valid", "data", "added"} /\ UNCHANGED <<flash, dirty>>
     \/ pc = "header" /\ HeaderWritten
     \/ pc = "valid" /\ Raise("valid") /\ UNCHANGED dirty
     \/ pc = "data" /\ DataWritten
     \/ pc = "added" /\ Raise("added") /\ UNCHANGED dirty
  /\ Fail("device_error")
  /\ UNCHANGED <<cache, sizes, mode>>

UpdateVariable ==
  \/ DeleteOld \/ DeleteCurrent \/ MarkOld \/ FindSpace
  \/ WriteHeader \/ WriteValid \/ WriteData \/ WriteAdded
-----------------------------------------------------------------------------
(************************* Boot, ReadyToBoot, OS ***************************)

\* InitNonVolatileVariableStore.  The variables can be read from here on.
PowerOn ==
  /\ phase = "off"
  /\ phase' = "boot" /\ pc' = "write_service"
  /\ cache' = flash
  /\ Count(flash)
  /\ hob' \in Hobs
  /\ UNCHANGED <<flash, dirty, flushing, todo, reclaimed, losses, call>>

\* VariableWriteServiceInitialize, once FTW is installed.  Its caller installs
\* the write protocol also when it fails.
WriteServiceInitialize ==
  /\ pc = "write_service"
  /\ \/ /\ ~dirty
        /\ FlushHob({}) /\ UNCHANGED <<flash, dirty, cache, sizes>>
     \/ /\ dirty
        /\ ReclaimTo(Kept(flash)) /\ FlushHob({})
     \/ /\ dirty /\ "repair" \in Failing
        /\ ReclaimFails /\ Exit("idle") /\ UNCHANGED hobs
  /\ UNCHANGED <<mode, request, status>>

WordSize == 2^30 \* stands for the width of UINTN

Minus(a, b) == (a - b) % WordSize

\* Mutant: the difference may wrap for the common variables too.
BelowThresholdWraps ==
  \/ Minus(CommonRuntimeSpace, commonTotal) < MaxVariableSize
  \/ HwErrSize # 0 /\ Minus(HwErrSize, hwTotal) < MaxHwErrSize

\* Less than one more variable of either kind fits in.
BelowThreshold ==
  \/ (IF CommonRuntimeSpace < commonTotal THEN 0 ELSE CommonRuntimeSpace - commonTotal)
       < MaxVariableSize
  \/ HwErrSize # 0 /\ Minus(HwErrSize, hwTotal) < MaxHwErrSize

\* ReclaimForOS at the first ReadyToBoot event.
ReadyToBoot ==
  /\ pc = "idle" /\ phase = "boot" /\ ~reclaimed
  /\ reclaimed' = TRUE
  /\ \/ /\ ~BelowThreshold
        /\ UNCHANGED <<flash, dirty, cache, sizes>>
     \/ /\ BelowThreshold
        /\ \/ ReclaimTo(Kept(flash))
           \/ "ftw" \in Failing /\ ReclaimFails
  /\ UNCHANGED <<hobs, phase, losses, pc, call>>

ExitBootServices ==
  /\ pc = "idle" /\ phase = "boot" /\ reclaimed
  /\ phase' = "runtime"
  /\ UNCHANGED <<flash, dirty, cache, sizes, hobs, reclaimed, losses, pc, call>>

(******************************* Power loss ********************************)

\* What a power loss leaves of the operation it interrupts.
Interrupted ==
  \/ UNCHANGED <<flash, dirty>>
  \/ /\ pc = "header" /\ Erased
     /\ dirty' = TRUE /\ UNCHANGED flash
  \/ /\ pc = "header" /\ ~Erased
     /\ HeaderWritten
  \/ /\ pc = "header" /\ TornHeaders /\ Erased
     /\ flash' = Append(flash, Entry(job, "torn")) /\ UNCHANGED dirty

PowerLoss ==
  /\ phase # "off" /\ losses < MaxLosses
  /\ Interrupted
  /\ losses' = losses + 1
  /\ phase' = "off" /\ reclaimed' = FALSE
  /\ cache' = <<>> /\ offset' = 0 /\ hwTotal' = 0 /\ commonTotal' = 0
  /\ hob' = [n \in Names |-> NoValue] /\ flushing' = FALSE /\ todo' = {}
  /\ request' = NoRequest /\ status' = "none"
  /\ Exit("off")
-----------------------------------------------------------------------------
Init ==
  /\ flash = <<>> /\ dirty = FALSE
  /\ cache = <<>> /\ offset = 0 /\ hwTotal = 0 /\ commonTotal = 0
  /\ hob = [n \in Names |-> NoValue] /\ flushing = FALSE /\ todo = {}
  /\ phase = "off" /\ reclaimed = FALSE /\ losses = 0
  /\ pc = "off" /\ request = NoRequest /\ status = "none"
  /\ job = NoRequest /\ cur = 0 /\ old = 0

Next ==
  \/ PowerOn \/ WriteServiceInitialize
  \/ \E j \in Jobs : SetVariable(j)
  \/ Flush \/ UpdateVariable \/ StateFails \/ EntryFails
  \/ ReadyToBoot \/ ExitBootServices
  \/ PowerLoss

Spec == Init /\ [][Next]_vars
-----------------------------------------------------------------------------
(******************************* Properties ********************************)

Pcs == {"off", "write_service", "idle", "flush", "delete_old", "delete_cur",
        "mark", "space", "header", "valid", "data", "added"}

\* Every variable of the driver has a value of its type.
TypeOK ==
  /\ flash \in Seq(Entries) /\ cache \in Seq(Entries) /\ dirty \in BOOLEAN
  /\ offset \in Nat /\ hwTotal \in Nat /\ commonTotal \in Int
  /\ hob \in [Names -> Values \cup {NoValue}] /\ todo \subseteq Names
  /\ flushing \in BOOLEAN
  /\ phase \in {"off", "boot", "runtime"} /\ reclaimed \in BOOLEAN
  /\ pc \in Pcs
  /\ {request, job} \subseteq Jobs \cup {NoRequest}
  /\ status \in {"none", "success", "not_found", "out_of_resources", "device_error"}
  /\ cur \in 0..Len(cache) /\ old \in 0..Len(cache)
  /\ losses \in 0..MaxLosses

\* The offset where the next variable goes and the totals of the two kinds are
\* those of a walk over the store, whichever way they were kept up to date:
\* after an append, a reclaim, a reclaim that failed, or the walk at boot.
Accounted ==
  pc = "idle" => /\ offset = Total(cache)
                 /\ hwTotal = HwTotal(cache) /\ commonTotal = CommonTotal(cache)

\* The entries never run over the end of the store, on to what the flash
\* holds behind it: the two kinds of variables share the space but are
\* limited separately.
Within == Total(flash) <= StoreSize

\* Between two calls the memory copy that GetVariable reads is what the flash
\* holds, so that the next boot finds the same variables.
InSync == pc = "idle" => cache = flash

\* A variable that SetVariable has set, or deleted, is the one GetVariable
\* returns.
SetVisible ==
  pc = "idle" /\ status = "success" => Get(request.name) = request.value

\* A variable in flash stays there with some value until it is deleted.
NeverLost ==
  [][\A n \in Names : Read(flash, n) # NoValue /\ Read(flash, n)' = NoValue =>
       job # NoRequest /\ job.name = n /\ job.value = NoValue]_vars

\* A variable leaves the HOB only when it is in flash, or when the caller has
\* set or deleted it: one that could not be flushed is still there for the next
\* attempt.
HobKept ==
  [][\A n \in Names :
       hob[n] # NoValue /\ hob'[n] = NoValue /\ phase' # "off" =>
         \/ \E i \in DOMAIN flash' :
              /\ flash'[i].name = n /\ flash'[i].value = hob[n]
              /\ flash'[i].state \in {"added", "transition"}
         \/ request' # NoRequest /\ request'.name = n /\ status' = "success"]_vars

\* After ReadyToBoot the operating system finds room for one more common
\* variable, or a store in which there is nothing to reclaim, whatever the
\* failed updates and interrupted boots before it have left there.
RoomForOs ==
  [][~reclaimed /\ reclaimed' =>
       \/ commonTotal' + MaxVariableSize <= CommonRuntimeSpace
       \/ \A i, j \in DOMAIN flash' :
            /\ flash'[i].state = "added"
            /\ flash'[i].name = flash'[j].name => i = j]_vars

\* The write that has not taken effect: an update does so with its ADDED state,
\* a delete with the DELETED state of the current entry.
InFlight ==
  IF job = NoRequest \/ (job.value # NoValue /\ pc \in {"delete_old", "delete_cur"})
  THEN NoRequest ELSE [keys |-> {job.name}, value |-> job.value]

Store == INSTANCE AtomicStore WITH
  Keys <- Names, Data <- Values \cup {NoValue}, None <- NoRequest,
  store <- [n \in Names |-> Read(flash, n)], inflight <- InFlight

\* SetVariable either takes effect or does not, and nothing else that the
\* driver does changes what a variable reads: neither a reclaim, nor a power
\* loss, nor the recovery from one.
AtomicSet == Store!Spec
=============================================================================
