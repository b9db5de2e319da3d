------------------------- MODULE FaultTolerantWrite -------------------------
(***************************************************************************)
(* The Fault Tolerant Write driver, MdeModulePkg/Universal/                *)
(* FaultTolerantWriteDxe.  It rewrites blocks of a flash volume (target)   *)
(* through a spare area, and keeps in a working block the queue of what it *)
(* was asked to do, so that a boot after a power loss can finish a write   *)
(* or forget it.                                                           *)
(*                                                                         *)
(* One action is one flash operation with the RAM work up to the next one; *)
(* the power can fail inside each of them.  Sizes are in units of 40       *)
(* bytes, the size of a write header and of a write record.                *)
(*                                                                         *)
(* Abstracted: the volume that holds the boot block and a write whose      *)
(* target is the working block itself, the bytes of private data, the      *)
(* order in which the bytes of one header or record reach the flash.       *)
(***************************************************************************)
EXTENDS Integers, FiniteSets

CONSTANTS
  NumBlocks,       \* blocks of the target volume
  Data,            \* what a block can hold
  Torn,            \* an erased or half written block
  SpareBlocks,     \* size of the spare area, in target blocks
  QueueSize,       \* WriteQueueSize, in units
  Ranges,          \* what callers write: Lba, first and last block changed
  AllocSizes,      \* NumberOfWrites a caller passes to Allocate
  NullPrivateData, \* whether a caller passes PrivateData = NULL to Write
  Failing,         \* the flash operations that may also fail
  MissingFvb,      \* TRUE iff the target's protocol may be absent at boot
  NoRequest        \* no write is being served

Blocks == 1..NumBlocks

ASSUME ConstantsAssumption ==
  /\ NumBlocks \in Nat \ {0} /\ SpareBlocks \in Nat
  /\ Torn \notin Data
  /\ Ranges \subseteq {r \in [lba : Blocks, first : Blocks, last : Blocks] :
                           r.lba <= r.first /\ r.first <= r.last}
  /\ QueueSize \in Nat /\ QueueSize >= 2
  /\ AllocSizes \subseteq Nat \ {0}
  /\ NullPrivateData \subseteq BOOLEAN
  /\ MissingFvb \in BOOLEAN
  /\ NoRequest \notin [keys : SUBSET Blocks, value : Data]

VARIABLES
  target,   \* flash: the blocks of the target volume
  spare,    \* flash: the spare area
  work,     \* flash: the working block, its header's state and its queue
  pc,       \* the operation the driver performs next
  ret,      \* where to go on after a refresh or a reclaim
  op,       \* the protocol function (or initialization) being served
  count,    \* NumberOfWrites of the allocation
  request,  \* the write being served
  offset,   \* FtwAllocate's Offset, of the header in the work space
  image,    \* TempBuffer, the queue a reclaim keeps
  saved,    \* SpareBuffer, the spare area's content to be restored
  extent,   \* the blocks of the record being written
  left      \* its blocks that FlushSpareBlockToTargetBlock has not written

flash == <<target, spare, work>>
ram   == <<ret, op, count, request, offset, image, saved, extent, left>>
vars  == <<flash, pc, ram>>
-----------------------------------------------------------------------------
(***************************** Flash contents *****************************)

\* FTW_WRITE_TOTAL_SIZE: a header and n records.
Size(n) == 1 + n

\* used: where the last write header is.  alloc, writes: its HeaderAllocated
\* and WritesAllocated.  n: its NumberOfWrites.  done: its records that are
\* DestinationComplete.  backed: SpareComplete of the next one.  record: the
\* extents written to that one, one over the other.  stray: the offset of a
\* header nobody finds, QueueSize if there is none.
Queues == [used : 0..QueueSize, alloc : BOOLEAN, writes : BOOLEAN,
           n : 0..QueueSize, done : 0..QueueSize, backed : BOOLEAN,
           record : SUBSET SUBSET Blocks, stray : 0..QueueSize]

EmptyQueue == [used |-> 0, alloc |-> FALSE, writes |-> FALSE, n |-> 0,
               done |-> 0, backed |-> FALSE, record |-> {},
               stray |-> QueueSize]

\* What is left of a queue by an interrupted erase or write: the walk over it
\* runs past the end of the work space.
Garbled == [EmptyQueue EXCEPT !.used = QueueSize]

\* Mutant: the sizes of a record disagree by one unit.
CompleteTooFar(q) ==
  [EmptyQueue EXCEPT !.used = q.used + Size(q.n) + 1, !.stray = q.stray]

\* WRITES_COMPLETED of the last header: the next one starts after it.
Complete(q) == [EmptyQueue EXCEPT !.used = q.used + Size(q.n), !.stray = q.stray]

\* The record the last header waits for is in the spare area but not yet in
\* its target.
Backed(q) == q.alloc /\ q.backed

\* Mutants: a first record that is not SpareComplete is kept; one that is
\* SpareComplete is thrown away.
AbandonedOnlyIfDone(q) == q.alloc /\ q.done = q.n
AbandonedThoughBacked(q) == q.alloc /\ (q.done = q.n \/ q.done = 0)

\* The last header has no record that a restart could finish.
Abandoned(q) == q.alloc /\ (q.done = q.n \/ (q.done = 0 /\ ~q.backed))

\* "bad": no header; "fresh": neither Valid nor Invalid set.
WorkStates == {"bad", "fresh", "valid", "invalid"}
Works == [state : WorkStates, q : Queues]

Void == [kind |-> "void"]
Backup(content) == [kind |-> "data", content |-> content]
Image(valid, q) == [kind |-> "ws", valid |-> valid, q |-> q]
Contents == UNION {[e -> Data \cup {Torn}] : e \in SUBSET Blocks}
Spares == {Void} \cup [kind : {"data"}, content : Contents]
          \cup [kind : {"ws"}, valid : BOOLEAN, q : Queues]

IsImage(s) == s.kind = "ws"
IsValidWorkSpace(s) == IsImage(s) /\ s.valid

Requests == [range : Ranges, value : Data, null : NullPrivateData]

\* The blocks from Lba to the last one of Offset + Length are rewritten whole;
\* the caller's bytes are in those from Offset on.
Extent(r)  == r.range.lba..r.range.last
Changed(r) == r.range.first..r.range.last
-----------------------------------------------------------------------------
(***************************** Control helpers *****************************)

Goto(label) == pc' = label /\ UNCHANGED ram

ResetRam ==
  /\ ret' = "idle" /\ op' = "none" /\ count' = 0 /\ request' = NoRequest
  /\ offset' = 0 /\ image' = EmptyQueue /\ saved' = Void
  /\ extent' = {} /\ left' = {}

Finish == pc' = "idle" /\ ResetRam

\* Call WorkSpaceRefresh, then go on at label.
RefreshThen(label) ==
  /\ pc' = "refresh" /\ ret' = label
  /\ UNCHANGED <<op, count, request, offset, image, saved, extent, left>>

\* FtwReclaimWorkSpace up to its first flash operation: the image keeps the
\* last header when there is one that is allocated and not complete.
Compact(q) == IF q.alloc THEN [q EXCEPT !.used = 0, !.stray = QueueSize]
              ELSE EmptyQueue

ReclaimThen(label, q) ==
  /\ pc' = "rc_erase" /\ ret' = label /\ image' = q
  /\ UNCHANGED <<op, count, request, offset, saved, extent, left>>

\* Mutant: only the header is counted.
NeedsReclaimLate(q) == QueueSize - q.used < Size(0)

\* The walk of FtwGetLastWriteHeader fails, or a header and a record no
\* longer fit.
NeedsReclaim(q) == QueueSize - q.used < Size(1)

Refresh ==
  /\ pc = "refresh"
  /\ IF NeedsReclaim(work.q) THEN ReclaimThen(ret, Compact(work.q))
                             ELSE Goto(ret)
  /\ UNCHANGED flash

SetWork(label, state, q, next) ==
  /\ pc = label
  /\ work' = [state |-> state, q |-> q]
  /\ Goto(next)
  /\ UNCHANGED <<target, spare>>

SetSpare(label, content, next) ==
  /\ pc = label
  /\ spare' = content
  /\ Goto(next)
  /\ UNCHANGED <<target, work>>
-----------------------------------------------------------------------------
(*************************** FtwReclaimWorkSpace ***************************)

ReclaimErase ==
  /\ pc = "rc_erase"
  /\ saved' = spare /\ spare' = Void
  /\ pc' = "rc_image"
  /\ UNCHANGED <<target, work, ret, op, count, request, offset, image, extent, left>>

ReclaimImage == SetSpare("rc_image", Image(FALSE, image), "rc_valid")
ReclaimValid == SetSpare("rc_valid", [spare EXCEPT !.valid = TRUE], "rc_invalid")

\* WORKING_BLOCK_INVALID of a working block that has a header.
Invalidated == IF work.state = "bad" THEN "bad" ELSE "invalid"

ReclaimInvalid == SetWork("rc_invalid", Invalidated, work.q, "fl_invalid")

(********************** FlushSpareBlockToWorkingBlock **********************)

FlushInvalid == SetWork("fl_invalid", Invalidated, work.q, "fl_erase")
FlushErase   == SetWork("fl_erase", "bad", EmptyQueue, "fl_image")
FlushImage   == SetWork("fl_image", "fresh", spare.q, "fl_valid")

\* Called by InitFtwProtocol the flush returns to its FtwAbort, otherwise the
\* reclaim goes on.
FlushValid ==
  /\ pc = "fl_valid"
  /\ work' = [work EXCEPT !.state = "valid"]
  /\ IF ret = "init_flush" THEN RefreshThen("init_flushed") ELSE Goto("rc_rerase")
  /\ UNCHANGED <<target, spare>>

(****************************** Reclaim's end ******************************)

ReclaimErase2  == SetSpare("rc_rerase", Void, "rc_restore")
ReclaimRestore == SetSpare("rc_restore", saved, ret)

Reclaim ==
  \/ ReclaimErase \/ ReclaimImage \/ ReclaimValid \/ ReclaimInvalid
  \/ FlushInvalid \/ FlushErase \/ FlushImage \/ FlushValid
  \/ ReclaimErase2 \/ ReclaimRestore
-----------------------------------------------------------------------------
(******************************* FtwAllocate *******************************)

\* Bound: a queue with a stray header is not modelled past that header.
BeforeStray(q, n) == q.stray = QueueSize \/ q.used + Size(n) < q.stray

\* FtwWrite calls it too, for a single record.
Allocate ==
  LET q == work.q IN
  /\ pc = "allocate"
  /\ IF Size(count) > QueueSize \/ q.alloc \/ q.writes
     THEN Finish
     ELSE /\ offset' = q.used
          /\ UNCHANGED <<op, count, request, saved, extent, left>>
          /\ IF q.used + Size(count) > QueueSize
             THEN pc' = "rc_erase" /\ ret' = "alloc_header" /\ image' = Compact(q)
             ELSE /\ BeforeStray(q, count)
                  /\ pc' = "alloc_header"
                  /\ UNCHANGED <<ret, image>>
  /\ UNCHANGED flash

\* The header goes where Offset says, which a reclaim has not changed.
AllocateHeader ==
  SetWork("alloc_header", work.state,
          IF offset = work.q.used
          THEN [work.q EXCEPT !.alloc = TRUE, !.n = count]
          ELSE [work.q EXCEPT !.stray = offset],
          "alloc_writes")

AllocateWrites ==
  /\ pc = "alloc_writes"
  /\ work' = IF offset = work.q.used THEN [work EXCEPT !.q.writes = TRUE] ELSE work
  /\ IF op = "write" THEN Goto("write") ELSE Finish
  /\ UNCHANGED <<target, spare>>

(********************************* FtwWrite ********************************)

\* Mutant: a write that waits for its restart does not stop another one.
DeniedIfDone(q) == q.done = q.n

\* EFI_ACCESS_DENIED: all its records are complete.  EFI_NOT_READY: its record
\* waits for a restart.
Denied(q) == q.done = q.n \/ q.backed

Write ==
  LET q == work.q IN
  /\ pc = "write"
  /\ \/ /\ ~q.alloc /\ request.null
        /\ pc' = "allocate" /\ count' = 1
        /\ UNCHANGED <<ret, op, request, offset, image, saved, extent, left>>
     \/ /\ ~q.alloc /\ ~request.null
        /\ Finish
     \/ /\ q.alloc
        /\ Denied(q) \/ Cardinality(Extent(request)) > SpareBlocks
        /\ Finish
     \/ /\ q.alloc /\ ~Denied(q)
        /\ Cardinality(Extent(request)) <= SpareBlocks
        /\ pc' = "w_record" /\ extent' = Extent(request)
        /\ UNCHANGED <<ret, op, count, request, offset, image, saved, left>>
  /\ UNCHANGED flash

WriteRecordHeader ==
  SetWork("w_record", work.state,
          [work.q EXCEPT !.record = @ \cup {extent}], "w_erase")

WriteErase ==
  /\ pc = "w_erase"
  /\ saved' = spare /\ spare' = Void
  /\ pc' = "w_data"
  /\ UNCHANGED <<target, work, ret, op, count, request, offset, image, extent, left>>

\* Mutant: the old content of the blocks is not read first.
MergedBlind == [b \in extent |-> request.value]

\* MyBuffer: the target blocks as they were, the caller's bytes over them.
Merged ==
  [b \in extent |-> IF b \in Changed(request) THEN request.value ELSE target[b]]

WriteData   == SetSpare("w_data", Backup(Merged), "w_spared")

\* Mutant: SPARE_COMPLETED is set in RAM only.
WriteSparedInRam == SetWork("w_spared", work.state, work.q, "x_erase")

WriteSpared ==
  SetWork("w_spared", work.state, [work.q EXCEPT !.backed = TRUE], "x_erase")

\* Only FtwWrite restores what the spare area held.
WriteErase2  == SetSpare("w_rerase", Void, "w_restore")
WriteRestore ==
  /\ pc = "w_restore"
  /\ spare' = saved
  /\ Finish
  /\ UNCHANGED <<target, work>>

(***************** FtwWriteRecord, FlushSpareBlockToTarget *****************)

TargetErase ==
  /\ pc = "x_erase"
  /\ target' = [b \in Blocks |-> IF b \in extent THEN Torn ELSE target[b]]
  /\ left' = extent /\ pc' = "x_data"
  /\ UNCHANGED <<spare, work, ret, op, count, request, offset, image, saved, extent>>

\* What the spare area holds for block b, which is of use only when it was
\* filled for this extent.
SpareBlock(b) ==
  IF spare.kind = "data" /\ DOMAIN spare.content = extent
  THEN spare.content[b] ELSE Torn

\* Mutant: the loop does not get to the next block.
TargetDataStuck ==
  /\ pc = "x_data"
  /\ \E b \in left : target' = [target EXCEPT ![b] = SpareBlock(b)]
  /\ UNCHANGED <<spare, work, pc, ram>>

TargetData ==
  /\ pc = "x_data"
  /\ \E b \in left :
       /\ \A c \in left : b <= c
       /\ target' = [target EXCEPT ![b] = SpareBlock(b)]
       /\ left' = left \ {b}
       /\ pc' = IF left = {b} THEN "x_dest" ELSE "x_data"
  /\ UNCHANGED <<spare, work, ret, op, count, request, offset, image, saved, extent>>

Recorded == IF op = "write" THEN "w_rerase" ELSE "r_erase"

\* Mutant: the walk over the records stops at one that is complete.
TargetDestSameRecord ==
  SetWork("x_dest", work.state, [work.q EXCEPT !.done = @ + 1],
          IF work.q.done + 1 = work.q.n THEN "x_complete" ELSE Recorded)

TargetDest ==
  SetWork("x_dest", work.state,
          [work.q EXCEPT !.done = @ + 1, !.backed = FALSE, !.record = {}],
          IF work.q.done + 1 = work.q.n THEN "x_complete" ELSE Recorded)

TargetComplete == SetWork("x_complete", work.state, Complete(work.q), Recorded)

WriteRecord == TargetErase \/ TargetData \/ TargetDest \/ TargetComplete

(*************** FtwRestart, FtwAbort, FtwGetLastWrite *********************)

\* The Lba and Length found in the flash; two of them written over each other
\* can read as any.
RecordedExtents(q) == IF Cardinality(q.record) = 1 THEN q.record ELSE SUBSET Blocks

Restart ==
  /\ pc = "restart"
  /\ \/ /\ ~Backed(work.q)
        /\ Finish
     \/ /\ Backed(work.q)
        /\ extent' \in RecordedExtents(work.q)
        /\ pc' = "x_erase"
        /\ UNCHANGED <<ret, op, count, request, offset, image, saved, left>>
  /\ UNCHANGED flash

\* The end of FtwRestart; InitFtwProtocol calls FtwAbort after it.
RestartErase ==
  /\ pc = "r_erase"
  /\ spare' = Void
  /\ IF op = "init" THEN RefreshThen("init_final") ELSE Finish
  /\ UNCHANGED <<target, work>>

SetComplete(q) == IF q.alloc THEN Complete(q) ELSE q

Abort ==
  /\ pc = "abort"
  /\ work' = [work EXCEPT !.q = SetComplete(@)]
  /\ Finish
  /\ UNCHANGED <<target, spare>>

\* It aborts, by way of FtwAbort, what it cannot tell the caller about.
GetLastWrite ==
  /\ pc = "getlast"
  /\ work' = IF Abandoned(work.q) THEN [work EXCEPT !.q = Complete(@)] ELSE work
  /\ Finish
  /\ UNCHANGED <<target, spare>>

Recover == Restart \/ RestartErase \/ Abort \/ GetLastWrite
-----------------------------------------------------------------------------
(***************************** InitFtwProtocol *****************************)

\* The working block's header is not valid: the spare area may hold its copy,
\* otherwise the work space is formatted.
InitCheck ==
  /\ pc = "init_check"
  /\ \/ /\ work.state = "valid"
        /\ Goto("init_first")
     \/ /\ work.state # "valid" /\ IsValidWorkSpace(spare)
        /\ pc' = "fl_invalid" /\ ret' = "init_flush"
        /\ UNCHANGED <<op, count, request, offset, image, saved, extent, left>>
     \/ /\ work.state # "valid" /\ ~IsValidWorkSpace(spare)
        /\ ReclaimThen("init_first", EmptyQueue)
  /\ UNCHANGED flash

\* FtwAbort after the flush.
InitFlushed ==
  /\ pc = "init_flushed"
  /\ work' = [work EXCEPT !.q = SetComplete(@)]
  /\ RefreshThen("init_first")
  /\ UNCHANGED <<target, spare>>

\* The two conditional calls of FtwAbort.
InitFirst ==
  SetWork("init_first", work.state,
          IF Abandoned(work.q) THEN Complete(work.q) ELSE work.q, "init_trailing")

InitTrailing ==
  /\ pc = "init_trailing"
  /\ IF work.q.stray < QueueSize THEN ReclaimThen("init_restart", Compact(work.q))
                                 ELSE Goto("init_restart")
  /\ UNCHANGED flash

InitRestart ==
  /\ pc = "init_restart"
  /\ \/ /\ ~Backed(work.q)
        /\ Finish
     \/ /\ Backed(work.q)
        /\ RefreshThen("restart")
     \/ /\ Backed(work.q) /\ MissingFvb
        /\ RefreshThen("init_final")
  /\ UNCHANGED flash

InitFinal ==
  /\ pc = "init_final"
  /\ work' = [work EXCEPT !.q = SetComplete(@)]
  /\ Finish
  /\ UNCHANGED <<target, spare>>

Boot ==
  \/ InitCheck \/ InitFlushed \/ InitFirst
  \/ InitTrailing \/ InitRestart \/ InitFinal
-----------------------------------------------------------------------------
(********************** Callers, failures, behaviours **********************)

Call(function, label, n, r) ==
  /\ pc = "idle"
  /\ op' = function /\ count' = n /\ request' = r
  /\ pc' = "refresh" /\ ret' = label
  /\ UNCHANGED <<flash, offset, image, saved, extent, left>>

CallAllocate     == \E n \in AllocSizes : Call("allocate", "allocate", n, NoRequest)
CallWrite        == \E r \in Requests : Call("write", "write", 0, r)
CallRestart      == Call("restart", "restart", 0, NoRequest)
CallAbort        == Call("abort", "abort", 0, NoRequest)
CallGetLastWrite == Call("getlast", "getlast", 0, NoRequest)

PowerOn ==
  /\ pc = "off"
  /\ op' = "init" /\ pc' = "refresh" /\ ret' = "init_check"
  /\ UNCHANGED <<flash, count, request, offset, image, saved, extent, left>>

\* What a spare area can be found as after an erase, or a write, was cut off.
CutOff(s) == {Void} \cup (IF IsImage(s) THEN {Image(s.valid, Garbled)} ELSE {})

\* The operation at pc is cut off: it has done nothing, or part of its work.
Interrupted ==
  \/ UNCHANGED flash
  \/ /\ pc \in {"rc_erase", "rc_rerase", "w_erase", "w_rerase", "r_erase"}
     /\ spare' \in CutOff(spare)
     /\ UNCHANGED <<target, work>>
  \/ /\ pc \in {"rc_restore", "w_restore"}
     /\ spare' \in CutOff(saved)
     /\ UNCHANGED <<target, work>>
  \/ /\ pc = "fl_erase"
     /\ work' \in [state : {"bad", work.state}, q : {work.q, EmptyQueue, Garbled}]
     /\ UNCHANGED <<target, spare>>
  \/ /\ pc = "fl_image"
     /\ work' \in [state : {"bad", "fresh"}, q : {EmptyQueue, Garbled}]
     /\ UNCHANGED <<target, spare>>
  \/ /\ pc = "x_erase"
     /\ \E cut \in SUBSET extent :
          target' = [b \in Blocks |-> IF b \in cut THEN Torn ELSE target[b]]
     /\ UNCHANGED <<spare, work>>

PowerLoss ==
  /\ pc # "off"
  /\ Interrupted
  /\ pc' = "off" /\ ResetRam

FlashOperations ==
  {"rc_erase", "rc_image", "rc_valid", "rc_invalid", "fl_invalid", "fl_erase",
   "fl_image", "fl_valid", "rc_rerase", "rc_restore", "alloc_header",
   "alloc_writes", "w_record", "w_erase", "w_data", "w_spared", "w_rerase",
   "w_restore", "x_erase", "x_data", "x_dest", "x_complete", "r_erase"}

\* A flash operation fails under a caller: the function returns EFI_ABORTED.
IoError ==
  /\ op # "init" /\ pc \in Failing \cap FlashOperations
  /\ Interrupted
  /\ Finish

Init ==
  /\ target \in [Blocks -> Data]
  /\ spare = Void
  /\ work = [state |-> "bad", q |-> EmptyQueue]
  /\ pc = "off"
  /\ ret = "idle" /\ op = "none" /\ count = 0 /\ request = NoRequest
  /\ offset = 0 /\ image = EmptyQueue /\ saved = Void
  /\ extent = {} /\ left = {}

Driver ==
  \/ Refresh \/ Reclaim
  \/ Allocate \/ AllocateHeader \/ AllocateWrites
  \/ Write \/ WriteRecordHeader \/ WriteErase \/ WriteData \/ WriteSpared
  \/ WriteErase2 \/ WriteRestore \/ WriteRecord
  \/ Recover \/ Boot

Caller == CallAllocate \/ CallWrite \/ CallRestart \/ CallAbort \/ CallGetLastWrite

Next == Driver \/ Caller \/ PowerOn \/ PowerLoss \/ IoError

\* The driver runs to the end of what it was asked while there is power.
Spec == Init /\ [][Next]_vars
FairSpec == Spec /\ WF_vars(Driver) /\ WF_vars(PowerOn)
-----------------------------------------------------------------------------
(******************************* Properties *******************************)

Labels == FlashOperations \cup
  {"off", "idle", "refresh", "allocate", "write", "restart", "abort",
   "getlast", "init_check", "init_flushed", "init_first", "init_trailing",
   "init_restart", "init_final"}

Returns == Labels \cup {"init_flush"}

TypeOK ==
  /\ target \in [Blocks -> Data \cup {Torn}]
  /\ spare \in Spares
  /\ work \in Works
  /\ pc \in Labels
  /\ ret \in Returns
  /\ op \in {"none", "init", "allocate", "write", "restart", "abort", "getlast"}
  /\ count \in Nat
  /\ request \in Requests \cup {NoRequest}
  /\ offset \in 0..QueueSize
  /\ image \in Queues
  /\ saved \in Spares
  /\ extent \in SUBSET Blocks
  /\ left \in SUBSET Blocks

\* A write the next boot will restart has its whole content in the spare
\* area, and one legible record of where it goes.
Recoverable ==
  Backed(work.q) => /\ spare.kind = "data"
                    /\ work.q.record = {DOMAIN spare.content}

\* FtwWrite's promise: at all times either the original contents or the
\* modified contents of every block are available, in the block itself or in
\* the spare area of a write that will be restarted.
Available ==
  \A b \in Blocks :
    target[b] = Torn =>
      /\ Backed(work.q)
      /\ spare.kind = "data" /\ b \in DOMAIN spare.content
      /\ spare.content[b] # Torn

\* The header FtwAllocate has written to the flash is the one that a refresh of
\* the work space finds.
AllocateGranted == pc = "alloc_writes" => work.q.alloc

\* With flash errors, content is lost only where a caller aborts the write
\* that has it in the spare area.
LostOnlyByAbort == [][Available => Available' \/ pc = "abort"]_vars

\* What a reader of the volume will find once a pending write is finished.
Logical ==
  [b \in Blocks |->
     IF Backed(work.q) /\ spare.kind = "data" /\ b \in DOMAIN spare.content
     THEN spare.content[b] ELSE target[b]]

\* The write a caller waits for and that a power loss would still cancel.
InFlight ==
  IF op = "write" /\ pc \notin {"x_erase", "x_data", "x_dest", "x_complete",
                                "w_rerase", "w_restore"}
  THEN [keys |-> Changed(request), value |-> request.value]
  ELSE NoRequest

Store == INSTANCE AtomicStore WITH Keys <- Blocks, None <- NoRequest,
                                   store <- Logical, inflight <- InFlight

\* A write changes all of its blocks at once or none, is never undone, and
\* touches no other block, whenever the power fails.
AtomicWrites == Store!Spec

\* Whatever the power did before, if it stays on the driver comes back from
\* every call, and from its own initialization.
ReturnsToCaller == <>[](pc # "off") => []<>(pc = "idle")
=============================================================================
