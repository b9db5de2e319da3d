---------------------- MODULE FaultTolerantWriteProofs ----------------------
(***************************************************************************)
(* Proofs about FaultTolerantWrite, for every value of its constants: its  *)
(* safety, and that it implements AtomicStore.                             *)
(***************************************************************************)
EXTENDS FaultTolerantWrite, FiniteSetTheorems, TLAPS

-----------------------------------------------------------------------------
(************************** The inductive invariant ************************)

\* A queue the driver can work on: its last header fits in the work space and
\* counts its records right.
FitQueue(q) ==
  /\ q \in Queues
  /\ q.alloc => q.used + Size(q.n) <= QueueSize
  /\ q.done <= q.n
  /\ q.backed => q.done < q.n
  /\ ~q.alloc => q.done = 0 /\ ~q.backed

FitSpare(s) == s \in Spares /\ (IsImage(s) => FitQueue(s.q))

\* Where RefreshThen and ReclaimThen lead.
RefreshTargets ==
  {"allocate", "write", "restart", "abort", "getlast", "init_check",
   "init_flushed", "init_first", "init_final", "init_restart"}

Continuations == RefreshTargets \cup {"idle", "alloc_header", "init_flush"}

ImageInSpare == {"rc_valid", "rc_invalid", "fl_invalid", "fl_erase", "fl_image"}
WriteLabels  == {"write", "w_record", "w_erase", "w_data", "w_spared",
                 "w_rerase", "w_restore"}
RecordLabels == {"w_record", "w_erase", "w_data", "w_spared", "x_erase",
                 "x_data", "x_dest"}

\* What the flash and the buffers hold.
Fits ==
  /\ FitQueue(work.q) /\ FitQueue(image)
  /\ FitSpare(spare) /\ FitSpare(saved)
  /\ pc \in ImageInSpare => IsImage(spare)

\* Which function is being served, and where a refresh or a reclaim returns to.
Serves ==
  /\ op = "write" => request \in Requests
  /\ ret = "write" \/ pc \in WriteLabels => op = "write"
  /\ ret \in Continuations
  /\ pc = "refresh" => ret \in RefreshTargets
  /\ pc \in {"rc_erase", "rc_image", "rc_valid", "rc_invalid", "rc_rerase",
             "rc_restore"} => ret \in Continuations \ {"init_flush"}

\* The header FtwAllocate is about to write fits where it goes.
AllocatesWithin ==
  /\ ret = "alloc_header" => Size(count) <= QueueSize
  /\ ret = "alloc_header" /\ pc \in {"rc_erase", "rc_image"} => image = EmptyQueue
  /\ ret = "alloc_header" /\ pc \in ImageInSpare => spare.q = EmptyQueue
  /\ ret = "alloc_header" /\ pc \in {"fl_valid", "rc_rerase", "rc_restore"}
       => work.q = EmptyQueue
  /\ pc = "alloc_header" => ~work.q.alloc /\ work.q.used + Size(count) <= QueueSize

\* A record is written only where the last header has one left.
HasRecord ==
  /\ pc \in RecordLabels => work.q.alloc /\ work.q.done < work.q.n
  /\ pc = "x_complete" => work.q.alloc
  /\ pc = "x_data" => left \subseteq extent

TypeInv == TypeOK /\ Fits /\ Serves /\ AllocatesWithin /\ HasRecord
-----------------------------------------------------------------------------
(******************************* Operators ********************************)

\* The part of ConstantsAssumption that arithmetic needs.
LEMMA QueueSizeType == QueueSize \in Nat /\ QueueSize >= 2
  BY ConstantsAssumption

\* The queues that do not come from another queue fit.
LEMMA ConstantQueuesFit == FitQueue(EmptyQueue) /\ FitQueue(Garbled)
<1> USE QueueSizeType
<1>1. EmptyQueue \in Queues
  BY DEF Queues, EmptyQueue
<1>2. Garbled \in Queues
  BY <1>1 DEF Garbled, Queues
<1>3. /\ ~EmptyQueue.alloc /\ ~EmptyQueue.backed
      /\ EmptyQueue.done = 0 /\ EmptyQueue.n = 0
  BY DEF EmptyQueue
<1>4. /\ ~Garbled.alloc /\ ~Garbled.backed
      /\ Garbled.done = 0 /\ Garbled.n = 0
  BY <1>1, <1>3 DEF Garbled, Queues
<1> QED
  BY <1>1, <1>2, <1>3, <1>4 DEF FitQueue

\* FtwGetLastWriteHeader stays within the work space when it leaves a header
\* behind.
LEMMA CompleteFits ==
  ASSUME NEW q, FitQueue(q), q.alloc
  PROVE  FitQueue(Complete(q))
<1>1. /\ EmptyQueue \in Queues
      /\ ~EmptyQueue.alloc /\ ~EmptyQueue.backed
      /\ EmptyQueue.done = 0 /\ EmptyQueue.n = 0
  BY ConstantQueuesFit DEF FitQueue, EmptyQueue
<1>2. q.used + Size(q.n) \in 0..QueueSize
  BY QueueSizeType DEF FitQueue, Queues, Size
<1>3. Complete(q) \in Queues
  BY <1>1, <1>2 DEF Complete, FitQueue, Queues
<1>4. /\ ~Complete(q).alloc /\ ~Complete(q).backed
      /\ Complete(q).done = 0 /\ Complete(q).n = 0
  BY <1>1 DEF Complete, Queues
<1> QED
  BY <1>3, <1>4 DEF FitQueue

\* So does a reclaim when it moves a header to the front.
LEMMA CompactFits ==
  ASSUME NEW q, FitQueue(q)
  PROVE  FitQueue(Compact(q))
<1>1. CASE ~q.alloc
  BY <1>1, ConstantQueuesFit DEF Compact
<1>2. CASE q.alloc
  <2> DEFINE r == [q EXCEPT !.used = 0, !.stray = QueueSize]
  <2>1. q \in Queues
    BY DEF FitQueue
  <2>2. 0 \in 0..QueueSize /\ QueueSize \in 0..QueueSize
    BY QueueSizeType
  <2>3. r \in Queues
    BY <2>1, <2>2 DEF Queues
  <2>4. r.used = 0 /\ r.alloc /\ r.n = q.n /\ r.done = q.done /\ r.backed = q.backed
    BY <1>2, <2>1 DEF Queues
  <2>5. q.used + Size(q.n) <= QueueSize /\ q.used \in Nat /\ q.n \in Nat
    BY <1>2, <2>1 DEF FitQueue, Queues
  <2>6. r.used + Size(r.n) <= QueueSize
    BY <2>4, <2>5, QueueSizeType DEF Size
  <2>7. FitQueue(r)
    BY <2>3, <2>4, <2>6, <1>2 DEF FitQueue
  <2> QED
    BY <1>2, <2>7 DEF Compact
<1> QED
  BY <1>1, <1>2

\* Spare contents that fit.
LEMMA VoidFits == FitSpare(Void)
  BY DEF FitSpare, Spares, Void, IsImage

\* An image built from a queue that fits.
LEMMA ImageFits ==
  ASSUME NEW q, FitQueue(q), NEW valid \in BOOLEAN
  PROVE  FitSpare(Image(valid, q))
  BY DEF FitSpare, Spares, Image, IsImage, FitQueue

\* A spare area whose erase or restore was cut off.
LEMMA CutOffFits ==
  ASSUME NEW s, FitSpare(s), NEW t \in CutOff(s)
  PROVE  FitSpare(t)
<1>1. CASE t = Void
  BY <1>1, VoidFits
<1>2. CASE IsImage(s) /\ t = Image(s.valid, Garbled)
  <2>1. s.valid \in BOOLEAN
    BY <1>2 DEF FitSpare, Spares, IsImage, Void
  <2> QED
    BY <1>2, <2>1, ImageFits, ConstantQueuesFit
<1> QED
  BY <1>1, <1>2 DEF CutOff
-----------------------------------------------------------------------------
\* A function that returns, or is cut off, leaves the driver's own variables as
\* they were at the first call.
LEMMA FinishKeepsTypeInv ==
  ASSUME TypeInv, ResetRam, pc' \in {"off", "idle"},
         target' \in [Blocks -> Data \cup {Torn}],
         FitSpare(spare'), work' \in Works, FitQueue(work'.q)
  PROVE  TypeInv'
<1> USE VoidFits, ConstantQueuesFit, QueueSizeType DEF ResetRam
<1>1. FitQueue(image') /\ FitSpare(saved')
  OBVIOUS
<1>2. TypeOK'
  <2>1. image' \in Queues /\ saved' \in Spares /\ spare' \in Spares
    BY <1>1 DEF FitQueue, FitSpare
  <2>2. /\ pc' \in Labels /\ ret' \in Returns
        /\ op' \in {"none", "init", "allocate", "write", "restart", "abort", "getlast"}
    BY DEF Labels, Returns
  <2>3. /\ count' \in Nat /\ request' \in Requests \cup {NoRequest}
        /\ offset' \in 0..QueueSize
        /\ extent' \in SUBSET Blocks /\ left' \in SUBSET Blocks
    OBVIOUS
  <2> QED
    BY <2>1, <2>2, <2>3 DEF TypeOK
<1>3. Fits'
  BY <1>1 DEF Fits, ImageInSpare
<1>4. Serves'
  BY DEF Serves, WriteLabels, Continuations
<1>5. AllocatesWithin'
  BY DEF AllocatesWithin, ImageInSpare
<1>6. HasRecord'
  BY DEF HasRecord, RecordLabels
<1> QED
  BY <1>2, <1>3, <1>4, <1>5, <1>6 DEF TypeInv

\* Allocation and records of a header that fits.
LEMMA WritesFits ==
  ASSUME TypeInv
  PROVE  LET w == [work EXCEPT !.q.writes = TRUE]
         IN  w \in Works /\ FitQueue(w.q)
<1>1. FitQueue([work.q EXCEPT !.writes = TRUE])
  BY DEF TypeInv, Fits, FitQueue, Queues
<1> QED
  BY <1>1 DEF TypeInv, TypeOK, Works, FitQueue

\* Refresh and reclaim.
LEMMA ReclaimKeepsTypeInv ==
  ASSUME TypeInv, Refresh \/ Reclaim
  PROVE  TypeInv'
<1> USE DEF TypeInv
<1>1. CASE Refresh
  <2> USE <1>1 DEF Refresh, ReclaimThen, Goto, flash, ram
  <2>1. FitQueue(image')
    BY CompactFits DEF Fits
  <2>2. TypeOK'
    BY <2>1 DEF TypeOK, Serves, RefreshTargets, Labels, FlashOperations,
       Returns, FitQueue
  <2>3. Fits'
    BY <2>1 DEF Fits, Serves, RefreshTargets, ImageInSpare, TypeOK
  <2>4. Serves'
    BY DEF Serves, WriteLabels, RefreshTargets, Continuations
  <2>5. AllocatesWithin'
    BY DEF AllocatesWithin, Serves, RefreshTargets, ImageInSpare
  <2>6. HasRecord'
    BY DEF HasRecord, Serves, RefreshTargets, RecordLabels
  <2> QED
    BY <2>2, <2>3, <2>4, <2>5, <2>6
<1>2. CASE ReclaimErase
  <2> USE <1>2 DEF ReclaimErase
  <2>1. TypeOK'
    BY VoidFits DEF TypeOK, Labels, FlashOperations, FitSpare
  <2>2. Fits'
    BY VoidFits DEF Fits, ImageInSpare
  <2>3. Serves'
    BY VoidFits DEF Serves, WriteLabels
  <2>4. AllocatesWithin'
    BY VoidFits DEF AllocatesWithin, ImageInSpare
  <2>5. HasRecord'
    BY VoidFits DEF HasRecord, RecordLabels
  <2> QED
    BY <2>1, <2>2, <2>3, <2>4, <2>5
<1>3. CASE ReclaimImage
  <2> USE <1>3 DEF ReclaimImage, SetSpare, Goto, ram
  <2>1. FitSpare(spare')
    BY ImageFits DEF Fits
  <2>2. TypeOK'
    BY <2>1 DEF TypeOK, Labels, FlashOperations, FitSpare
  <2>3. Fits'
    BY <2>1 DEF Fits, ImageInSpare, IsImage, Image
  <2>4. Serves'
    BY <2>1 DEF Serves, WriteLabels
  <2>5. AllocatesWithin'
    BY <2>1 DEF AllocatesWithin, ImageInSpare, Image
  <2>6. HasRecord'
    BY <2>1 DEF HasRecord, RecordLabels
  <2> QED
    BY <2>2, <2>3, <2>4, <2>5, <2>6
<1>4. CASE ReclaimValid
  <2> USE <1>4 DEF ReclaimValid, SetSpare, Goto, ram
  <2>1. IsImage(spare) /\ FitQueue(spare.q) /\ spare \in Spares
    BY DEF Fits, FitSpare, ImageInSpare
  <2>2. spare \in [kind : {"ws"}, valid : BOOLEAN, q : Queues]
    BY <2>1 DEF Spares, IsImage, Void
  <2>3. spare' = Image(TRUE, spare.q)
    BY <2>2 DEF Image
  <2>4. FitSpare(spare')
    BY <2>1, <2>3, ImageFits
  <2>5. TypeOK'
    BY <2>1, <2>2, <2>3, <2>4 DEF TypeOK, Labels, FlashOperations, FitSpare
  <2>6. Fits'
    BY <2>1, <2>2, <2>3, <2>4 DEF Fits, ImageInSpare, IsImage, Image
  <2>7. Serves'
    BY <2>1, <2>2, <2>3, <2>4 DEF Serves, WriteLabels
  <2>8. AllocatesWithin'
    BY <2>1, <2>2, <2>3, <2>4 DEF AllocatesWithin, ImageInSpare, Image
  <2>9. HasRecord'
    BY <2>1, <2>2, <2>3, <2>4 DEF HasRecord, RecordLabels
  <2> QED
    BY <2>5, <2>6, <2>7, <2>8, <2>9
<1>5. CASE ReclaimInvalid
  <2> USE <1>5 DEF ReclaimInvalid, SetWork, Goto, ram
  <2>1. work' \in Works /\ FitQueue(work'.q)
    BY DEF Fits, FitQueue, Works, WorkStates, Invalidated
  <2>2. TypeOK'
    BY <2>1 DEF TypeOK, Labels, FlashOperations
  <2>3. Fits'
    BY <2>1 DEF Fits, ImageInSpare
  <2>4. Serves'
    BY <2>1 DEF Serves, WriteLabels
  <2>5. AllocatesWithin'
    BY <2>1 DEF AllocatesWithin, ImageInSpare
  <2>6. HasRecord'
    BY <2>1 DEF HasRecord, RecordLabels
  <2> QED
    BY <2>2, <2>3, <2>4, <2>5, <2>6
<1>6. CASE FlushInvalid
  <2> USE <1>6 DEF FlushInvalid, SetWork, Goto, ram
  <2>1. work' \in Works /\ FitQueue(work'.q)
    BY DEF Fits, FitQueue, Works, WorkStates, Invalidated
  <2>2. TypeOK'
    BY <2>1 DEF TypeOK, Labels, FlashOperations
  <2>3. Fits'
    BY <2>1 DEF Fits, ImageInSpare
  <2>4. Serves'
    BY <2>1 DEF Serves, WriteLabels, Continuations
  <2>5. AllocatesWithin'
    BY <2>1 DEF AllocatesWithin, ImageInSpare
  <2>6. HasRecord'
    BY <2>1 DEF HasRecord, RecordLabels
  <2> QED
    BY <2>2, <2>3, <2>4, <2>5, <2>6
<1>7. CASE FlushErase
  <2> USE <1>7 DEF FlushErase, SetWork, Goto, ram
  <2>1. work' \in Works /\ FitQueue(work'.q)
    BY ConstantQueuesFit DEF FitQueue, Works, WorkStates
  <2>2. TypeOK'
    BY <2>1 DEF TypeOK, Labels, FlashOperations
  <2>3. Fits'
    BY <2>1 DEF Fits, ImageInSpare
  <2>4. Serves'
    BY <2>1 DEF Serves, WriteLabels
  <2>5. AllocatesWithin'
    BY <2>1 DEF AllocatesWithin, ImageInSpare
  <2>6. HasRecord'
    BY <2>1 DEF HasRecord, RecordLabels
  <2> QED
    BY <2>2, <2>3, <2>4, <2>5, <2>6
<1>8. CASE FlushImage
  <2> USE <1>8 DEF FlushImage, SetWork, Goto, ram
  <2>1. work' \in Works /\ FitQueue(work'.q)
    BY DEF Fits, FitSpare, FitQueue, Works, WorkStates, ImageInSpare
  <2>2. TypeOK'
    BY <2>1 DEF TypeOK, Labels, FlashOperations
  <2>3. Fits'
    BY <2>1 DEF Fits, ImageInSpare
  <2>4. Serves'
    BY <2>1 DEF Serves, WriteLabels
  <2>5. AllocatesWithin'
    BY <2>1 DEF AllocatesWithin, ImageInSpare
  <2>6. HasRecord'
    BY <2>1 DEF HasRecord, RecordLabels
  <2> QED
    BY <2>2, <2>3, <2>4, <2>5, <2>6
<1>9. CASE FlushValid
  <2> USE <1>9 DEF FlushValid, RefreshThen, Goto, ram
  <2>1. work' \in Works /\ work'.q = work.q
    BY DEF TypeOK, Works, WorkStates
  <2>2. TypeOK'
    BY <2>1 DEF TypeOK, Labels, FlashOperations, Returns
  <2>3. Fits'
    BY <2>1 DEF Fits, ImageInSpare
  <2>4. Serves'
    BY <2>1 DEF Serves, WriteLabels, RefreshTargets, Continuations
  <2>5. AllocatesWithin'
    BY <2>1 DEF AllocatesWithin, ImageInSpare
  <2>6. HasRecord'
    BY <2>1 DEF HasRecord, RecordLabels
  <2> QED
    BY <2>2, <2>3, <2>4, <2>5, <2>6
<1>10. CASE ReclaimErase2
  <2> USE <1>10 DEF ReclaimErase2, SetSpare, Goto, ram
  <2>1. TypeOK'
    BY VoidFits DEF TypeOK, Labels, FlashOperations, FitSpare
  <2>2. Fits'
    BY VoidFits DEF Fits, ImageInSpare
  <2>3. Serves'
    BY VoidFits DEF Serves, WriteLabels
  <2>4. AllocatesWithin'
    BY VoidFits DEF AllocatesWithin, ImageInSpare
  <2>5. HasRecord'
    BY VoidFits DEF HasRecord, RecordLabels
  <2> QED
    BY <2>1, <2>2, <2>3, <2>4, <2>5
<1>11. CASE ReclaimRestore
  <2> USE <1>11 DEF ReclaimRestore, SetSpare, Goto, ram
  <2>1. ret \in RefreshTargets \cup {"idle", "alloc_header"}
    BY DEF Serves, Continuations, RefreshTargets
  <2>2. TypeOK'
    BY <2>1, QueueSizeType DEF TypeOK, Labels, FlashOperations,
       RefreshTargets, Fits, FitSpare
  <2>3. Fits'
    BY <2>1, QueueSizeType DEF Fits, ImageInSpare, RefreshTargets
  <2>4. Serves'
    BY <2>1, QueueSizeType DEF Serves, WriteLabels, RefreshTargets,
       Continuations
  <2>5. AllocatesWithin'
    BY <2>1, QueueSizeType DEF AllocatesWithin, ImageInSpare, RefreshTargets,
       EmptyQueue, Size, TypeOK
  <2>6. HasRecord'
    BY <2>1, QueueSizeType DEF HasRecord, RecordLabels, RefreshTargets
  <2> QED
    BY <2>2, <2>3, <2>4, <2>5, <2>6
<1> QED
  BY <1>1, <1>2, <1>3, <1>4, <1>5, <1>6, <1>7, <1>8, <1>9, <1>10, <1>11 DEF
     Reclaim

\* FtwAllocate and FtwWrite.
LEMMA WriteKeepsTypeInv ==
  ASSUME TypeInv, Allocate \/ AllocateHeader \/ AllocateWrites \/ Write
           \/ WriteRecordHeader \/ WriteErase \/ WriteData \/ WriteSpared
           \/ WriteErase2 \/ WriteRestore
  PROVE  TypeInv'
<1> USE DEF TypeInv
<1>1. CASE Allocate
  <2>1. CASE pc' = "idle"
    BY <1>1, <2>1, FinishKeepsTypeInv DEF Allocate, Finish, ResetRam, flash,
       TypeOK, Fits
  <2>2. CASE pc' # "idle"
    <3> USE <1>1, <2>2 DEF Allocate, Finish, ResetRam, flash
    <3>1. FitQueue(image')
      BY CompactFits DEF Fits
    <3>2. work.q \in Queues /\ image' \in Queues /\ work.q.used \in 0..QueueSize
      BY <3>1 DEF Fits, FitQueue, Queues
    <3>3. work.q.alloc \/ Compact(work.q) = EmptyQueue
      BY DEF Compact
    <3>4. TypeOK'
      BY <3>1, <3>2, <3>3, QueueSizeType DEF TypeOK, Labels, FlashOperations,
         Returns
    <3>5. Fits'
      BY <3>1, <3>2, <3>3, QueueSizeType DEF Fits, ImageInSpare
    <3>6. Serves'
      BY <3>1, <3>2, <3>3, QueueSizeType DEF Serves, WriteLabels, Continuations
    <3>7. AllocatesWithin'
      BY <3>1, <3>2, <3>3, QueueSizeType DEF AllocatesWithin, ImageInSpare,
         Size, TypeOK
    <3>8. HasRecord'
      BY <3>1, <3>2, <3>3, QueueSizeType DEF HasRecord, RecordLabels, Fits,
         FitQueue
    <3> QED
      BY <3>4, <3>5, <3>6, <3>7, <3>8
  <2> QED
    BY <2>1, <2>2
<1>2. CASE AllocateHeader
  <2> USE <1>2 DEF AllocateHeader, SetWork, Goto, ram
  <2>1. /\ work.q.alloc = FALSE /\ work.q.used + Size(count) <= QueueSize
        /\ count \in Nat /\ work.q \in Queues /\ offset \in 0..QueueSize
    BY DEF AllocatesWithin, TypeOK, Fits, FitQueue, Queues
  <2>2. count \in 0..QueueSize
    BY <2>1, QueueSizeType DEF Queues, Size
  <2>3. [work.q EXCEPT !.alloc = TRUE, !.n = count] \in Queues
    BY <2>1, <2>2 DEF Queues
  <2>4. work.q.done = 0 /\ ~work.q.backed /\ work.q.used \in Nat
    BY <2>1 DEF Fits, FitQueue, Queues
  <2>5. FitQueue([work.q EXCEPT !.alloc = TRUE, !.n = count])
    BY <2>1, <2>2, <2>3, <2>4 DEF FitQueue, Queues
  <2>6. FitQueue([work.q EXCEPT !.stray = offset])
    BY <2>1 DEF Fits, FitQueue, Queues
  <2>7. work' \in Works /\ FitQueue(work'.q)
    BY <2>5, <2>6 DEF FitQueue, Works, TypeOK
  <2>8. TypeOK'
    BY <2>1, <2>2, <2>3, <2>4, <2>5, <2>6, <2>7 DEF TypeOK, Labels,
       FlashOperations
  <2>9. Fits'
    BY <2>1, <2>2, <2>3, <2>4, <2>5, <2>6, <2>7 DEF Fits, ImageInSpare
  <2>10. Serves'
    BY <2>1, <2>2, <2>3, <2>4, <2>5, <2>6, <2>7 DEF Serves, WriteLabels
  <2>11. AllocatesWithin'
    BY <2>1, <2>2, <2>3, <2>4, <2>5, <2>6, <2>7 DEF AllocatesWithin,
       ImageInSpare
  <2>12. HasRecord'
    BY <2>1, <2>2, <2>3, <2>4, <2>5, <2>6, <2>7 DEF HasRecord, RecordLabels
  <2> QED
    BY <2>8, <2>9, <2>10, <2>11, <2>12
<1>3. CASE AllocateWrites
  <2>1. CASE pc' = "idle"
    BY <1>3, <2>1, FinishKeepsTypeInv, WritesFits DEF AllocateWrites, Finish,
       ResetRam, Goto, ram, TypeOK, Fits
  <2>2. CASE pc' # "idle"
    <3> USE <1>3, <2>2 DEF AllocateWrites, Finish, ResetRam, Goto, ram
    <3>1. FitQueue([work.q EXCEPT !.writes = TRUE])
      BY DEF Fits, FitQueue, Queues
    <3>2. work' \in Works /\ FitQueue(work'.q)
      BY <3>1 DEF TypeOK, Works, FitQueue, Fits
    <3>3. TypeOK'
      BY <3>1, <3>2 DEF TypeOK, Labels, FlashOperations
    <3>4. Fits'
      BY <3>1, <3>2 DEF Fits, ImageInSpare
    <3>5. Serves'
      BY <3>1, <3>2 DEF Serves, WriteLabels
    <3>6. AllocatesWithin'
      BY <3>1, <3>2 DEF AllocatesWithin, ImageInSpare
    <3>7. HasRecord'
      BY <3>1, <3>2 DEF HasRecord, RecordLabels
    <3> QED
      BY <3>3, <3>4, <3>5, <3>6, <3>7
  <2> QED
    BY <2>1, <2>2
<1>4. CASE Write
  <2>1. CASE pc' = "idle"
    BY <1>4, <2>1, FinishKeepsTypeInv DEF Write, Finish, ResetRam, flash,
       TypeOK, Fits
  <2>2. CASE pc' # "idle"
    <3> USE <1>4, <2>2 DEF Write, Finish, ResetRam, flash
    <3>1. request \in Requests
      BY DEF Serves, WriteLabels
    <3>2. Extent(request) \in SUBSET Blocks
      BY <3>1, ConstantsAssumption DEF Extent, Requests, Blocks
    <3>3. ~Denied(work.q) => work.q.done < work.q.n
      BY DEF Denied, Fits, FitQueue, Queues
    <3>4. TypeOK'
      BY <3>1, <3>2, <3>3, QueueSizeType DEF TypeOK, Labels, FlashOperations
    <3>5. Fits'
      BY <3>1, <3>2, <3>3, QueueSizeType DEF Fits, ImageInSpare
    <3>6. Serves'
      BY <3>1, <3>2, <3>3, QueueSizeType DEF Serves, WriteLabels
    <3>7. AllocatesWithin'
      BY <3>1, <3>2, <3>3, QueueSizeType DEF AllocatesWithin, ImageInSpare, Size
    <3>8. HasRecord'
      BY <3>1, <3>2, <3>3, QueueSizeType DEF HasRecord, RecordLabels
    <3> QED
      BY <3>4, <3>5, <3>6, <3>7, <3>8
  <2> QED
    BY <2>1, <2>2
<1>5. CASE WriteRecordHeader
  <2> USE <1>5 DEF WriteRecordHeader, SetWork, Goto, ram
  <2>1. FitQueue([work.q EXCEPT !.record = @ \cup {extent}])
    BY DEF Fits, FitQueue, Queues, TypeOK
  <2>2. work' \in Works /\ FitQueue(work'.q)
    BY <2>1 DEF TypeOK, Works, FitQueue
  <2>3. work'.q.alloc = work.q.alloc /\ work'.q.done = work.q.done /\ work'.q.n = work.q.n
    BY DEF Fits, FitQueue, Queues
  <2>4. TypeOK'
    BY <2>1, <2>2, <2>3 DEF TypeOK, Labels, FlashOperations
  <2>5. Fits'
    BY <2>1, <2>2, <2>3 DEF Fits, ImageInSpare
  <2>6. Serves'
    BY <2>1, <2>2, <2>3 DEF Serves, WriteLabels
  <2>7. AllocatesWithin'
    BY <2>1, <2>2, <2>3 DEF AllocatesWithin, ImageInSpare
  <2>8. HasRecord'
    BY <2>1, <2>2, <2>3 DEF HasRecord, RecordLabels
  <2> QED
    BY <2>4, <2>5, <2>6, <2>7, <2>8
<1>6. CASE WriteErase
  <2> USE <1>6 DEF WriteErase
  <2>1. TypeOK'
    BY VoidFits DEF TypeOK, Labels, FlashOperations, FitSpare
  <2>2. Fits'
    BY VoidFits DEF Fits, ImageInSpare
  <2>3. Serves'
    BY VoidFits DEF Serves, WriteLabels
  <2>4. AllocatesWithin'
    BY VoidFits DEF AllocatesWithin, ImageInSpare
  <2>5. HasRecord'
    BY VoidFits DEF HasRecord, RecordLabels
  <2> QED
    BY <2>1, <2>2, <2>3, <2>4, <2>5
<1>7. CASE WriteData
  <2> USE <1>7 DEF WriteData, SetSpare, Goto, ram
  <2>1. request \in Requests
    BY DEF Serves, WriteLabels
  <2>2. Merged \in Contents
    BY <2>1 DEF Merged, Contents, TypeOK, Requests
  <2>3. FitSpare(spare')
    BY <2>2 DEF FitSpare, Spares, Backup, IsImage
  <2>4. TypeOK'
    BY <2>1, <2>2, <2>3 DEF TypeOK, Labels, FlashOperations, FitSpare
  <2>5. Fits'
    BY <2>1, <2>2, <2>3 DEF Fits, ImageInSpare
  <2>6. Serves'
    BY <2>1, <2>2, <2>3 DEF Serves, WriteLabels
  <2>7. AllocatesWithin'
    BY <2>1, <2>2, <2>3 DEF AllocatesWithin, ImageInSpare
  <2>8. HasRecord'
    BY <2>1, <2>2, <2>3 DEF HasRecord, RecordLabels
  <2> QED
    BY <2>4, <2>5, <2>6, <2>7, <2>8
<1>8. CASE WriteSpared
  <2> USE <1>8 DEF WriteSpared, SetWork, Goto, ram
  <2>1. work.q.alloc /\ work.q.done < work.q.n
    BY DEF HasRecord, RecordLabels
  <2>2. FitQueue([work.q EXCEPT !.backed = TRUE])
    BY <2>1 DEF Fits, FitQueue, Queues
  <2>3. work' \in Works /\ FitQueue(work'.q)
    BY <2>2 DEF TypeOK, Works, FitQueue
  <2>4. work'.q.alloc = work.q.alloc /\ work'.q.done = work.q.done /\ work'.q.n = work.q.n
    BY DEF Fits, FitQueue, Queues
  <2>5. TypeOK'
    BY <2>1, <2>2, <2>3, <2>4 DEF TypeOK, Labels, FlashOperations
  <2>6. Fits'
    BY <2>1, <2>2, <2>3, <2>4 DEF Fits, ImageInSpare
  <2>7. Serves'
    BY <2>1, <2>2, <2>3, <2>4 DEF Serves, WriteLabels
  <2>8. AllocatesWithin'
    BY <2>1, <2>2, <2>3, <2>4 DEF AllocatesWithin, ImageInSpare
  <2>9. HasRecord'
    BY <2>1, <2>2, <2>3, <2>4 DEF HasRecord, RecordLabels
  <2> QED
    BY <2>5, <2>6, <2>7, <2>8, <2>9
<1>9. CASE WriteErase2
  <2> USE <1>9 DEF WriteErase2, SetSpare, Goto, ram
  <2>1. TypeOK'
    BY VoidFits DEF TypeOK, Labels, FlashOperations, FitSpare
  <2>2. Fits'
    BY VoidFits DEF Fits, ImageInSpare
  <2>3. Serves'
    BY VoidFits DEF Serves, WriteLabels
  <2>4. AllocatesWithin'
    BY VoidFits DEF AllocatesWithin, ImageInSpare
  <2>5. HasRecord'
    BY VoidFits DEF HasRecord, RecordLabels
  <2> QED
    BY <2>1, <2>2, <2>3, <2>4, <2>5
<1>10. CASE WriteRestore
  <2> USE <1>10 DEF WriteRestore
  <2> QED
    BY FinishKeepsTypeInv DEF TypeOK, Fits, Finish
<1> QED
  BY <1>1, <1>2, <1>3, <1>4, <1>5, <1>6, <1>7, <1>8, <1>9, <1>10

\* FtwWriteRecord, FtwRestart, FtwAbort, FtwGetLastWrite.
LEMMA RecoverKeepsTypeInv ==
  ASSUME TypeInv, WriteRecord \/ Recover
  PROVE  TypeInv'
<1> USE DEF TypeInv
<1>1. CASE TargetErase
  <2> USE <1>1 DEF TargetErase
  <2>1. target' \in [Blocks -> Data \cup {Torn}]
    BY DEF TypeOK
  <2>2. TypeOK'
    BY <2>1 DEF TypeOK, Labels, FlashOperations
  <2>3. Fits'
    BY <2>1 DEF Fits, ImageInSpare
  <2>4. Serves'
    BY <2>1 DEF Serves, WriteLabels
  <2>5. AllocatesWithin'
    BY <2>1 DEF AllocatesWithin, ImageInSpare
  <2>6. HasRecord'
    BY <2>1 DEF HasRecord, RecordLabels
  <2> QED
    BY <2>2, <2>3, <2>4, <2>5, <2>6
<1>2. CASE TargetData
  <2> USE <1>2 DEF TargetData
  <2>1. \A b \in left : SpareBlock(b) \in Data \cup {Torn}
    BY DEF SpareBlock, HasRecord, Fits, FitSpare, Spares, Contents, Void, TypeOK
  <2>2. target' \in [Blocks -> Data \cup {Torn}]
    BY <2>1 DEF TypeOK
  <2>3. TypeOK'
    BY <2>1, <2>2 DEF TypeOK, Labels, FlashOperations
  <2>4. Fits'
    BY <2>1, <2>2 DEF Fits, ImageInSpare
  <2>5. Serves'
    BY <2>1, <2>2 DEF Serves, WriteLabels
  <2>6. AllocatesWithin'
    BY <2>1, <2>2 DEF AllocatesWithin, ImageInSpare
  <2>7. HasRecord'
    BY <2>1, <2>2 DEF HasRecord, RecordLabels
  <2> QED
    BY <2>3, <2>4, <2>5, <2>6, <2>7
<1>3. CASE TargetDest
  <2> USE <1>3 DEF TargetDest, Recorded, SetWork, Goto, ram
  <2>1. /\ work.q.alloc /\ work.q.done < work.q.n
        /\ work.q.done \in 0..QueueSize /\ work.q.n \in 0..QueueSize
    BY DEF HasRecord, RecordLabels, Fits, FitQueue, Queues
  <2>2. work.q.done + 1 \in 0..QueueSize /\ work.q.done + 1 <= work.q.n
    BY <2>1, QueueSizeType
  <2>3. FitQueue([work.q EXCEPT !.done = @ + 1, !.backed = FALSE, !.record = {}])
    BY <2>1, <2>2 DEF Fits, FitQueue, Queues
  <2>4. work' \in Works /\ FitQueue(work'.q)
    BY <2>3 DEF TypeOK, Works, FitQueue
  <2>5. work'.q.alloc
    BY <2>1 DEF Fits, FitQueue, Queues
  <2>6. TypeOK'
    BY <2>1, <2>2, <2>3, <2>4, <2>5 DEF TypeOK, Labels, FlashOperations
  <2>7. Fits'
    BY <2>1, <2>2, <2>3, <2>4, <2>5 DEF Fits, ImageInSpare
  <2>8. Serves'
    BY <2>1, <2>2, <2>3, <2>4, <2>5 DEF Serves, WriteLabels
  <2>9. AllocatesWithin'
    BY <2>1, <2>2, <2>3, <2>4, <2>5 DEF AllocatesWithin, ImageInSpare
  <2>10. HasRecord'
    BY <2>1, <2>2, <2>3, <2>4, <2>5 DEF HasRecord, RecordLabels
  <2> QED
    BY <2>6, <2>7, <2>8, <2>9, <2>10
<1>4. CASE TargetComplete
  <2> USE <1>4 DEF TargetComplete, Recorded, SetWork, Goto, ram
  <2>1. FitQueue(Complete(work.q))
    BY CompleteFits DEF Fits, HasRecord
  <2>2. work' \in Works /\ FitQueue(work'.q)
    BY <2>1 DEF TypeOK, Works, FitQueue
  <2>3. TypeOK'
    BY <2>1, <2>2 DEF TypeOK, Labels, FlashOperations
  <2>4. Fits'
    BY <2>1, <2>2 DEF Fits, ImageInSpare
  <2>5. Serves'
    BY <2>1, <2>2 DEF Serves, WriteLabels
  <2>6. AllocatesWithin'
    BY <2>1, <2>2 DEF AllocatesWithin, ImageInSpare
  <2>7. HasRecord'
    BY <2>1, <2>2 DEF HasRecord, RecordLabels
  <2> QED
    BY <2>3, <2>4, <2>5, <2>6, <2>7
<1>5. CASE Restart
  <2>1. CASE pc' = "idle"
    BY <1>5, <2>1, FinishKeepsTypeInv DEF Restart, Finish, ResetRam, flash,
       TypeOK, Fits
  <2>2. CASE pc' # "idle"
    <3> USE <1>5, <2>2 DEF Restart, Finish, ResetRam, flash
    <3>1. RecordedExtents(work.q) \subseteq SUBSET Blocks
      BY DEF RecordedExtents, Fits, FitQueue, Queues
    <3>2. TypeOK'
      BY <3>1 DEF TypeOK, Labels, FlashOperations
    <3>3. Fits'
      BY <3>1 DEF Fits, ImageInSpare
    <3>4. Serves'
      BY <3>1 DEF Serves, WriteLabels
    <3>5. AllocatesWithin'
      BY <3>1 DEF AllocatesWithin, ImageInSpare
    <3>6. HasRecord'
      BY <3>1 DEF HasRecord, RecordLabels, Backed, Fits, FitQueue
    <3> QED
      BY <3>2, <3>3, <3>4, <3>5, <3>6
  <2> QED
    BY <2>1, <2>2
<1>6. CASE RestartErase
  <2>1. CASE pc' = "idle"
    BY <1>6, <2>1, FinishKeepsTypeInv, VoidFits DEF RestartErase, RefreshThen,
       Finish, ResetRam, TypeOK, Fits
  <2>2. CASE pc' # "idle"
    <3> USE <1>6, <2>2 DEF RestartErase, RefreshThen, Finish, ResetRam
    <3>1. TypeOK'
      BY VoidFits DEF TypeOK, Labels, FlashOperations, Returns, FitSpare
    <3>2. Fits'
      BY VoidFits DEF Fits, ImageInSpare
    <3>3. Serves'
      BY VoidFits DEF Serves, WriteLabels, Continuations, RefreshTargets
    <3>4. AllocatesWithin'
      BY VoidFits DEF AllocatesWithin, ImageInSpare
    <3>5. HasRecord'
      BY VoidFits DEF HasRecord, RecordLabels
    <3> QED
      BY <3>1, <3>2, <3>3, <3>4, <3>5
  <2> QED
    BY <2>1, <2>2
<1>7. CASE Abort
  <2> USE <1>7 DEF Abort
  <2>1. FitQueue(SetComplete(work.q))
    BY CompleteFits DEF Fits, SetComplete
  <2>2. work' \in Works /\ FitQueue(work'.q)
    BY <2>1 DEF TypeOK, Works, FitQueue
  <2> QED
    BY <2>1, <2>2, FinishKeepsTypeInv DEF TypeOK, Fits, Finish
<1>8. CASE GetLastWrite
  <2> USE <1>8 DEF GetLastWrite
  <2>1. Abandoned(work.q) => FitQueue(Complete(work.q))
    BY CompleteFits DEF Fits, Abandoned
  <2>2. work' \in Works /\ FitQueue(work'.q)
    BY <2>1 DEF TypeOK, Works, FitQueue, Fits
  <2> QED
    BY <2>1, <2>2, FinishKeepsTypeInv DEF TypeOK, Fits, Finish
<1> QED
  BY <1>1, <1>2, <1>3, <1>4, <1>5, <1>6, <1>7, <1>8 DEF WriteRecord, Recover

\* InitFtwProtocol.
LEMMA BootKeepsTypeInv ==
  ASSUME TypeInv, Boot
  PROVE  TypeInv'
<1> USE DEF TypeInv
<1>1. CASE InitCheck
  <2> USE <1>1 DEF InitCheck, ReclaimThen, Goto, flash, ram
  <2>1. TypeOK'
    BY ConstantQueuesFit DEF TypeOK, Labels, FlashOperations, Returns, FitQueue
  <2>2. Fits'
    BY ConstantQueuesFit DEF Fits, ImageInSpare, IsValidWorkSpace, FitSpare
  <2>3. Serves'
    BY ConstantQueuesFit DEF Serves, WriteLabels, Continuations, RefreshTargets
  <2>4. AllocatesWithin'
    BY ConstantQueuesFit DEF AllocatesWithin, ImageInSpare
  <2>5. HasRecord'
    BY ConstantQueuesFit DEF HasRecord, RecordLabels
  <2> QED
    BY <2>1, <2>2, <2>3, <2>4, <2>5
<1>2. CASE InitFlushed
  <2> USE <1>2 DEF InitFlushed, RefreshThen
  <2>1. FitQueue(SetComplete(work.q))
    BY CompleteFits DEF Fits, SetComplete
  <2>2. work' \in Works /\ FitQueue(work'.q)
    BY <2>1 DEF TypeOK, Works, FitQueue
  <2>3. TypeOK'
    BY <2>1, <2>2 DEF TypeOK, Labels, FlashOperations, Returns
  <2>4. Fits'
    BY <2>1, <2>2 DEF Fits, ImageInSpare
  <2>5. Serves'
    BY <2>1, <2>2 DEF Serves, WriteLabels, Continuations, RefreshTargets
  <2>6. AllocatesWithin'
    BY <2>1, <2>2 DEF AllocatesWithin, ImageInSpare
  <2>7. HasRecord'
    BY <2>1, <2>2 DEF HasRecord, RecordLabels
  <2> QED
    BY <2>3, <2>4, <2>5, <2>6, <2>7
<1>3. CASE InitFirst
  <2> USE <1>3 DEF InitFirst, SetWork, Goto, ram
  <2>1. Abandoned(work.q) => FitQueue(Complete(work.q))
    BY CompleteFits DEF Fits, Abandoned
  <2>2. work' \in Works /\ FitQueue(work'.q)
    BY <2>1 DEF TypeOK, Works, FitQueue, Fits
  <2>3. TypeOK'
    BY <2>1, <2>2 DEF TypeOK, Labels, FlashOperations
  <2>4. Fits'
    BY <2>1, <2>2 DEF Fits, ImageInSpare
  <2>5. Serves'
    BY <2>1, <2>2 DEF Serves, WriteLabels
  <2>6. AllocatesWithin'
    BY <2>1, <2>2 DEF AllocatesWithin, ImageInSpare
  <2>7. HasRecord'
    BY <2>1, <2>2 DEF HasRecord, RecordLabels
  <2> QED
    BY <2>3, <2>4, <2>5, <2>6, <2>7
<1>4. CASE InitTrailing
  <2> USE <1>4 DEF InitTrailing, ReclaimThen, Goto, flash, ram
  <2>1. FitQueue(Compact(work.q))
    BY CompactFits DEF Fits
  <2>2. TypeOK'
    BY <2>1 DEF TypeOK, Labels, FlashOperations, Returns, FitQueue
  <2>3. Fits'
    BY <2>1 DEF Fits, ImageInSpare
  <2>4. Serves'
    BY <2>1 DEF Serves, WriteLabels, Continuations, RefreshTargets
  <2>5. AllocatesWithin'
    BY <2>1 DEF AllocatesWithin, ImageInSpare
  <2>6. HasRecord'
    BY <2>1 DEF HasRecord, RecordLabels
  <2> QED
    BY <2>2, <2>3, <2>4, <2>5, <2>6
<1>5. CASE InitRestart
  <2>1. CASE pc' = "idle"
    BY <1>5, <2>1, FinishKeepsTypeInv DEF InitRestart, RefreshThen, Finish,
       ResetRam, flash, TypeOK, Fits
  <2>2. CASE pc' # "idle"
    <3> USE <1>5, <2>2 DEF InitRestart, RefreshThen, Finish, ResetRam, flash
    <3>1. TypeOK'
      BY DEF TypeOK, Labels, FlashOperations, Returns
    <3>2. Fits'
      BY DEF Fits, ImageInSpare
    <3>3. Serves'
      BY DEF Serves, WriteLabels, Continuations, RefreshTargets
    <3>4. AllocatesWithin'
      BY DEF AllocatesWithin, ImageInSpare
    <3>5. HasRecord'
      BY DEF HasRecord, RecordLabels
    <3> QED
      BY <3>1, <3>2, <3>3, <3>4, <3>5
  <2> QED
    BY <2>1, <2>2
<1>6. CASE InitFinal
  <2> USE <1>6 DEF InitFinal
  <2>1. FitQueue(SetComplete(work.q))
    BY CompleteFits DEF Fits, SetComplete
  <2>2. work' \in Works /\ FitQueue(work'.q)
    BY <2>1 DEF TypeOK, Works, FitQueue
  <2> QED
    BY <2>1, <2>2, FinishKeepsTypeInv DEF TypeOK, Fits, Finish
<1> QED
  BY <1>1, <1>2, <1>3, <1>4, <1>5, <1>6 DEF Boot

\* Callers and power.
LEMMA OutsideKeepsTypeInv ==
  ASSUME TypeInv, Caller \/ PowerOn \/ PowerLoss \/ IoError \/ UNCHANGED vars
  PROVE  TypeInv'
<1> USE DEF TypeInv
<1>1. CASE Caller
  <2> USE <1>1 DEF Caller, CallAllocate, CallWrite, CallRestart, CallAbort,
     CallGetLastWrite, Call, flash
  <2>1. \A n \in AllocSizes : n \in Nat
    BY ConstantsAssumption
  <2>2. TypeOK'
    BY <2>1 DEF TypeOK, Labels, FlashOperations, Returns
  <2>3. Fits'
    BY <2>1 DEF Fits, ImageInSpare
  <2>4. Serves'
    BY <2>1 DEF Serves, WriteLabels, Continuations, RefreshTargets
  <2>5. AllocatesWithin'
    BY <2>1 DEF AllocatesWithin, ImageInSpare
  <2>6. HasRecord'
    BY <2>1 DEF HasRecord, RecordLabels
  <2> QED
    BY <2>2, <2>3, <2>4, <2>5, <2>6
<1>2. CASE PowerOn
  <2> USE <1>2 DEF PowerOn, flash
  <2>1. TypeOK'
    BY DEF TypeOK, Labels, FlashOperations, Returns
  <2>2. Fits'
    BY DEF Fits, ImageInSpare
  <2>3. Serves'
    BY DEF Serves, WriteLabels, Continuations, RefreshTargets
  <2>4. AllocatesWithin'
    BY DEF AllocatesWithin, ImageInSpare
  <2>5. HasRecord'
    BY DEF HasRecord, RecordLabels
  <2> QED
    BY <2>1, <2>2, <2>3, <2>4, <2>5
<1>3. CASE Interrupted /\ pc' \in {"off", "idle"} /\ ResetRam
  <2> USE <1>3 DEF ResetRam
  <2>1. FitSpare(spare')
    BY CutOffFits DEF Interrupted, Fits, flash
  <2>2. FitQueue(work'.q) /\ work' \in Works
    BY ConstantQueuesFit DEF Interrupted, Fits, FitQueue, flash, Works,
       WorkStates, TypeOK
  <2>3. target' \in [Blocks -> Data \cup {Torn}]
    BY DEF Interrupted, TypeOK, flash
  <2> QED
    BY <2>1, <2>2, <2>3, FinishKeepsTypeInv DEF TypeOK, Fits, Finish
<1>4. CASE UNCHANGED vars
  <2> USE <1>4 DEF vars, flash, ram
  <2>1. TypeOK'
    BY DEF TypeOK, Labels, FlashOperations
  <2>2. Fits'
    BY DEF Fits, ImageInSpare
  <2>3. Serves'
    BY DEF Serves, WriteLabels
  <2>4. AllocatesWithin'
    BY DEF AllocatesWithin, ImageInSpare
  <2>5. HasRecord'
    BY DEF HasRecord, RecordLabels
  <2> QED
    BY <2>1, <2>2, <2>3, <2>4, <2>5
<1> QED
  BY <1>1, <1>2, <1>3, <1>4 DEF PowerLoss, IoError, Finish

\* The blank flash of the first power on.
LEMMA InitTypeInv == Init => TypeInv
<1> SUFFICES ASSUME Init PROVE TypeInv
  OBVIOUS
<1> USE VoidFits, ConstantQueuesFit, QueueSizeType DEF Init
<1>1. work \in Works /\ FitQueue(work.q)
  BY DEF Works, WorkStates, FitQueue
<1>2. TypeOK
  BY <1>1 DEF TypeOK, Labels, Returns, FitQueue, FitSpare
<1>3. Fits
  BY <1>1 DEF Fits, ImageInSpare
<1>4. Serves
  BY DEF Serves, Continuations, WriteLabels
<1>5. AllocatesWithin
  BY DEF AllocatesWithin, ImageInSpare
<1>6. HasRecord
  BY DEF HasRecord, RecordLabels
<1> QED
  BY <1>2, <1>3, <1>4, <1>5, <1>6 DEF TypeInv

\* The driver's state stays within its types, and its queue within the work
\* space, whatever the power and the flash do.
THEOREM TypeCorrect == Spec => []TypeOK
<1>1. TypeInv /\ [Next]_vars => TypeInv'
  BY ReclaimKeepsTypeInv, WriteKeepsTypeInv, RecoverKeepsTypeInv,
     BootKeepsTypeInv, OutsideKeepsTypeInv DEF Next, Driver
<1>2. TypeInv => TypeOK
  BY DEF TypeInv
<1> QED
  BY InitTypeInv, <1>1, <1>2, PTL DEF Spec
-----------------------------------------------------------------------------
(******************* Nothing is lost but by an abort ***********************)

\* One record for each allocation, a flash that works, and a target whose
\* protocol is there at boot: what the variable driver relies on.
SingleWrites == AllocSizes \subseteq {1} /\ Failing = {} /\ ~MissingFvb

\* The flash operations of a reclaim, and the blocks that callers rewrite.
ReclaimOps == {"rc_erase", "rc_image", "rc_valid", "rc_invalid", "fl_invalid", "fl_erase",
               "fl_image", "fl_valid", "rc_rerase", "rc_restore"}
Extents == {r.lba .. r.last : r \in Ranges}

\* The flash may also fail, but in a reclaim, if it is always the same blocks
\* that are rewritten.
FixedWrites ==
  /\ AllocSizes \subseteq {1} /\ ~MissingFvb
  /\ Failing \cap ReclaimOps = {}
  /\ \A x, y \in Extents : x = y

OrderlyWrites == SingleWrites \/ FixedWrites

\* A reclaim finds nothing to keep.
EmptyImages ==
  /\ image = EmptyQueue
  /\ IsImage(spare) => spare.q \in {EmptyQueue, Garbled}
  /\ IsImage(saved) => saved.q \in {EmptyQueue, Garbled}
  /\ ret # "alloc_header"
  /\ pc \in ImageInSpare /\ ret # "init_flush" => spare.q = EmptyQueue
  /\ pc = "fl_valid" => work.q \in {EmptyQueue, Garbled}
  /\ pc = "fl_valid" /\ ret # "init_flush" => work.q = EmptyQueue
  /\ pc \in {"rc_rerase", "rc_restore"} => work.q = EmptyQueue

\* The header that is written is the one that is found.
OneHeader ==
  /\ work.q.stray = QueueSize
  /\ work.q.alloc => work.q.n = 1
  /\ ret = "allocate" => op = "allocate"
  /\ op = "allocate" \/ pc \in {"allocate", "alloc_header"} => count = 1
  /\ pc \in {"allocate", "write"} => ~NeedsReclaim(work.q)
  /\ pc \in {"alloc_header", "alloc_writes"} => offset = work.q.used
  /\ pc = "alloc_writes" => work.q.alloc

ReclaimLabels == {"rc_erase", "rc_image", "rc_valid", "rc_invalid",
                  "fl_invalid", "fl_erase", "fl_image", "fl_valid"}

\* The working block is given up only while it has nothing to lose.
ValidWork ==
  /\ work.q.alloc => work.state = "valid"
  /\ work.state # "valid" => \/ pc \in ReclaimLabels \cup {"off", "init_check"}
                             \/ pc = "refresh" /\ ret = "init_check"
  /\ pc \in ReclaimLabels => ~work.q.alloc

\* What the spare area holds is torn only where the target is.
Faithful == \A b \in DOMAIN spare.content : spare.content[b] = Torn => target[b] = Torn

\* The record and the spare area of the write being served or restarted.
Records ==
  /\ ~work.q.alloc => work.q.record = {}
  /\ Failing # {} => work.q.record \subseteq Extents
  /\ Failing = {} /\ work.q.record # {} /\ ~work.q.backed
       => \/ pc \in {"off", "w_erase", "w_data", "w_spared", "init_check", "init_first"}
          \/ pc = "refresh" /\ ret = "init_check"
  /\ pc = "w_record" => ~work.q.backed /\ extent \in Extents
  /\ pc \in {"w_erase", "w_data", "w_spared"}
       => work.q.record = {extent} /\ ~work.q.backed
  /\ pc = "w_spared"
       => spare.kind = "data" /\ DOMAIN spare.content = extent /\ Faithful
  /\ pc \in {"x_erase", "x_data", "x_dest"}
       => Backed(work.q) /\ extent = DOMAIN spare.content

\* Nothing erases the spare area while a write is only there.  A write that a
\* failure has ended may wait for its restart between and during calls.
KeptInSpare ==
  Backed(work.q) =>
    /\ \/ pc \in {"off", "x_erase", "x_data", "x_dest", "init_check", "init_first",
                  "init_trailing", "init_restart", "restart"}
       \/ pc = "refresh" /\ ret \in {"init_check", "restart"}
       \/ /\ Failing # {}
          /\ \/ pc \in {"idle", "allocate", "write", "abort", "getlast"}
             \/ pc = "refresh" /\ ret \in {"allocate", "write", "abort", "getlast"}
    /\ Faithful

\* The blocks of the target that are written already.
Copied ==
  /\ pc = "x_data" => \A b \in extent \ left : target[b] = spare.content[b]
  /\ pc = "x_dest" => \A b \in extent : target[b] = spare.content[b]

SafeInv ==
  /\ TypeInv
  /\ EmptyImages /\ OneHeader /\ ValidWork /\ Records /\ KeptInSpare /\ Copied
  /\ Recoverable
  /\ Failing = {} => Available
-----------------------------------------------------------------------------
(********************** Proof that SafeInv is inductive *******************)

\* Every step keeps TypeInv.
LEMMA TypeInvKept ==
  ASSUME TypeInv, [Next]_vars
  PROVE  TypeInv'
  BY ReclaimKeepsTypeInv, WriteKeepsTypeInv, RecoverKeepsTypeInv,
     BootKeepsTypeInv, OutsideKeepsTypeInv DEF Next, Driver

\* Queues that hold nothing.
LEMMA ConstantQueues ==
  \A q \in {EmptyQueue, Garbled} :
    ~q.alloc /\ ~q.backed /\ q.record = {} /\ q.stray = QueueSize
  BY DEF EmptyQueue, Garbled

\* A refresh or a reclaim has no record to lose.
LEMMA ReclaimKeepsSafeInv ==
  ASSUME OrderlyWrites, SafeInv,
         Refresh \/ Reclaim
  PROVE  SafeInv' /\ (Available => Available' \/ pc = "abort")
<1> USE DEF SafeInv
<1>0. TypeInv'
  BY TypeInvKept DEF Next, Driver
<1>1. CASE Refresh
  <2> USE <1>1 DEF Refresh, ReclaimThen, Goto, flash, ram
  <2>1. NeedsReclaim(work.q) => ~work.q.alloc
    BY QueueSizeType DEF TypeInv, Fits, FitQueue, Queues, OneHeader,
       NeedsReclaim, Size
  <2>2. NeedsReclaim(work.q) => image' = EmptyQueue
    BY <2>1 DEF Compact
  <2>3. ret \in RefreshTargets
    BY DEF TypeInv, Serves
  <2>4. EmptyImages'
    BY <2>1, <2>2, <2>3 DEF EmptyImages, ImageInSpare, IsImage,
       RefreshTargets, ReclaimLabels
  <2>5. OneHeader'
    BY <2>1, <2>2, <2>3 DEF OneHeader, RefreshTargets, TypeInv, Serves
  <2>6. ValidWork'
    BY <2>1, <2>2, <2>3 DEF ValidWork, ReclaimLabels, RefreshTargets
  <2>7. Records'
    BY <2>1, <2>2, <2>3 DEF Records, Backed, Faithful, RefreshTargets
  <2>8. KeptInSpare'
    BY <2>1, <2>2, <2>3 DEF KeptInSpare, Backed, Faithful, RefreshTargets
  <2>9. Copied'
    BY <2>1, <2>2, <2>3 DEF Copied, RefreshTargets
  <2>10. Recoverable'
    BY <2>1, <2>2, <2>3 DEF Recoverable, Backed
  <2>11. Available => Available'
    BY <2>1, <2>2, <2>3 DEF Available, Backed
  <2> QED
    BY <1>0, <2>4, <2>5, <2>6, <2>7, <2>8, <2>9, <2>10, <2>11
<1>2. CASE ReclaimErase
  <2> USE <1>2 DEF ReclaimErase
  <2>1. ~Backed(work.q)
    BY DEF KeptInSpare
  <2>2. EmptyImages'
    BY <2>1 DEF EmptyImages, ImageInSpare, IsImage, Void
  <2>3. OneHeader'
    BY <2>1 DEF OneHeader
  <2>4. ValidWork'
    BY <2>1 DEF ValidWork, ReclaimLabels
  <2>5. Records'
    BY <2>1 DEF Records, Backed, Faithful
  <2>6. KeptInSpare'
    BY <2>1 DEF KeptInSpare, Backed, Faithful
  <2>7. Copied'
    BY <2>1 DEF Copied
  <2>8. Recoverable'
    BY <2>1 DEF Recoverable, Backed
  <2>9. Available => Available'
    BY <2>1 DEF Available, Backed
  <2> QED
    BY <1>0, <2>2, <2>3, <2>4, <2>5, <2>6, <2>7, <2>8, <2>9
<1>3. CASE ReclaimImage
  <2> USE <1>3 DEF ReclaimImage, Image, SetSpare, Goto, ram
  <2>1. ~Backed(work.q)
    BY DEF KeptInSpare
  <2>2. EmptyImages'
    BY <2>1 DEF EmptyImages, ImageInSpare, IsImage
  <2>3. OneHeader'
    BY <2>1 DEF OneHeader
  <2>4. ValidWork'
    BY <2>1 DEF ValidWork, ReclaimLabels
  <2>5. Records'
    BY <2>1 DEF Records, Backed, Faithful
  <2>6. KeptInSpare'
    BY <2>1 DEF KeptInSpare, Backed, Faithful
  <2>7. Copied'
    BY <2>1 DEF Copied
  <2>8. Recoverable'
    BY <2>1 DEF Recoverable, Backed
  <2>9. Available => Available'
    BY <2>1 DEF Available, Backed
  <2> QED
    BY <1>0, <2>2, <2>3, <2>4, <2>5, <2>6, <2>7, <2>8, <2>9
<1>4. CASE ReclaimValid
  <2> USE <1>4 DEF ReclaimValid, SetSpare, Goto, ram
  <2>1. ~Backed(work.q)
    BY DEF KeptInSpare
  <2>2. IsImage(spare) /\ spare \in Spares
    BY DEF TypeInv, TypeOK, Fits, ImageInSpare
  <2>3. spare \in [kind : {"ws"}, valid : BOOLEAN, q : Queues]
    BY <2>2 DEF Spares, IsImage, Void
  <2>4. spare' = Image(TRUE, spare.q)
    BY <2>3 DEF Image
  <2>5. EmptyImages'
    BY <2>1, <2>2, <2>3, <2>4 DEF EmptyImages, ImageInSpare, IsImage, Image
  <2>6. OneHeader'
    BY <2>1, <2>2, <2>3, <2>4 DEF OneHeader
  <2>7. ValidWork'
    BY <2>1, <2>2, <2>3, <2>4 DEF ValidWork, ReclaimLabels
  <2>8. Records'
    BY <2>1, <2>2, <2>3, <2>4 DEF Records, Backed, Faithful
  <2>9. KeptInSpare'
    BY <2>1, <2>2, <2>3, <2>4 DEF KeptInSpare, Backed, Faithful
  <2>10. Copied'
    BY <2>1, <2>2, <2>3, <2>4 DEF Copied
  <2>11. Recoverable'
    BY <2>1, <2>2, <2>3, <2>4 DEF Recoverable, Backed
  <2>12. Available => Available'
    BY <2>1, <2>2, <2>3, <2>4 DEF Available, Backed
  <2> QED
    BY <1>0, <2>5, <2>6, <2>7, <2>8, <2>9, <2>10, <2>11, <2>12
<1>5. CASE ReclaimInvalid
  <2> USE <1>5 DEF ReclaimInvalid, Invalidated, SetWork, Goto, ram
  <2>1. ~Backed(work.q)
    BY DEF KeptInSpare
  <2>2. EmptyImages'
    BY <2>1 DEF EmptyImages, ImageInSpare, IsImage
  <2>3. OneHeader'
    BY <2>1 DEF OneHeader
  <2>4. ValidWork'
    BY <2>1 DEF ValidWork, ReclaimLabels
  <2>5. Records'
    BY <2>1 DEF Records, Backed, Faithful
  <2>6. KeptInSpare'
    BY <2>1 DEF KeptInSpare, Backed, Faithful
  <2>7. Copied'
    BY <2>1 DEF Copied
  <2>8. Recoverable'
    BY <2>1 DEF Recoverable, Backed
  <2>9. Available => Available'
    BY <2>1 DEF Available, Backed
  <2> QED
    BY <1>0, <2>2, <2>3, <2>4, <2>5, <2>6, <2>7, <2>8, <2>9
<1>6. CASE FlushInvalid
  <2> USE <1>6 DEF FlushInvalid, Invalidated, SetWork, Goto, ram
  <2>1. ~Backed(work.q)
    BY DEF KeptInSpare
  <2>2. EmptyImages'
    BY <2>1 DEF EmptyImages, ImageInSpare, IsImage
  <2>3. OneHeader'
    BY <2>1 DEF OneHeader
  <2>4. ValidWork'
    BY <2>1 DEF ValidWork, ReclaimLabels
  <2>5. Records'
    BY <2>1 DEF Records, Backed, Faithful
  <2>6. KeptInSpare'
    BY <2>1 DEF KeptInSpare, Backed, Faithful
  <2>7. Copied'
    BY <2>1 DEF Copied
  <2>8. Recoverable'
    BY <2>1 DEF Recoverable, Backed
  <2>9. Available => Available'
    BY <2>1 DEF Available, Backed
  <2> QED
    BY <1>0, <2>2, <2>3, <2>4, <2>5, <2>6, <2>7, <2>8, <2>9
<1>7. CASE FlushErase
  <2> USE <1>7 DEF FlushErase, SetWork, Goto, ram
  <2>1. ~Backed(work.q)
    BY DEF KeptInSpare
  <2>2. EmptyImages'
    BY <2>1 DEF EmptyImages, ImageInSpare, IsImage
  <2>3. OneHeader'
    BY <2>1 DEF OneHeader, EmptyQueue
  <2>4. ValidWork'
    BY <2>1 DEF ValidWork, ReclaimLabels, EmptyQueue
  <2>5. Records'
    BY <2>1 DEF Records, Backed, Faithful, EmptyQueue
  <2>6. KeptInSpare'
    BY <2>1 DEF KeptInSpare, Backed, Faithful, EmptyQueue
  <2>7. Copied'
    BY <2>1 DEF Copied
  <2>8. Recoverable'
    BY <2>1 DEF Recoverable, Backed, EmptyQueue
  <2>9. Available => Available'
    BY <2>1 DEF Available, Backed, EmptyQueue
  <2> QED
    BY <1>0, <2>2, <2>3, <2>4, <2>5, <2>6, <2>7, <2>8, <2>9
<1>8. CASE FlushImage
  <2> USE <1>8 DEF FlushImage, SetWork, Goto, ram
  <2>1. ~Backed(work.q)
    BY DEF KeptInSpare
  <2>2. spare.q \in {EmptyQueue, Garbled}
    BY DEF EmptyImages, TypeInv, Fits, ImageInSpare
  <2>3. /\ ~spare.q.alloc
        /\ ~Backed(spare.q)
        /\ spare.q.record = {}
        /\ spare.q.stray = QueueSize
    BY <2>2, ConstantQueues DEF Backed
  <2>4. EmptyImages'
    BY <2>1, <2>2, <2>3 DEF EmptyImages, ImageInSpare, IsImage
  <2>5. OneHeader'
    BY <2>1, <2>2, <2>3 DEF OneHeader
  <2>6. ValidWork'
    BY <2>1, <2>2, <2>3 DEF ValidWork, ReclaimLabels
  <2>7. Records'
    BY <2>1, <2>2, <2>3 DEF Records, Backed, Faithful
  <2>8. KeptInSpare'
    BY <2>1, <2>2, <2>3 DEF KeptInSpare, Backed, Faithful
  <2>9. Copied'
    BY <2>1, <2>2, <2>3 DEF Copied
  <2>10. Recoverable'
    BY <2>1, <2>2, <2>3 DEF Recoverable, Backed
  <2>11. Available => Available'
    BY <2>1, <2>2, <2>3 DEF Available, Backed
  <2> QED
    BY <1>0, <2>4, <2>5, <2>6, <2>7, <2>8, <2>9, <2>10, <2>11
<1>9. CASE FlushValid
  <2> USE <1>9 DEF FlushValid, RefreshThen, Goto, ram
  <2>1. ~Backed(work.q)
    BY DEF KeptInSpare
  <2>2. work.q \in Queues /\ work \in Works
    BY DEF TypeInv, TypeOK, Works
  <2>3. work'.q = work.q /\ work'.state = "valid"
    BY <2>2 DEF Works
  <2>4. EmptyImages'
    BY <2>1, <2>2, <2>3 DEF EmptyImages, ImageInSpare, IsImage
  <2>5. OneHeader'
    BY <2>1, <2>2, <2>3 DEF OneHeader
  <2>6. ValidWork'
    BY <2>1, <2>2, <2>3 DEF ValidWork, ReclaimLabels
  <2>7. Records'
    BY <2>1, <2>2, <2>3 DEF Records, Backed, Faithful
  <2>8. KeptInSpare'
    BY <2>1, <2>2, <2>3 DEF KeptInSpare, Backed, Faithful
  <2>9. Copied'
    BY <2>1, <2>2, <2>3 DEF Copied
  <2>10. Recoverable'
    BY <2>1, <2>2, <2>3 DEF Recoverable, Backed
  <2>11. Available => Available'
    BY <2>1, <2>2, <2>3 DEF Available, Backed
  <2> QED
    BY <1>0, <2>4, <2>5, <2>6, <2>7, <2>8, <2>9, <2>10, <2>11
<1>10. CASE ReclaimErase2
  <2> USE <1>10 DEF ReclaimErase2, SetSpare, Goto, ram
  <2>1. ~Backed(work.q)
    BY DEF KeptInSpare
  <2>2. EmptyImages'
    BY <2>1 DEF EmptyImages, ImageInSpare, IsImage, Void
  <2>3. OneHeader'
    BY <2>1 DEF OneHeader
  <2>4. ValidWork'
    BY <2>1 DEF ValidWork, ReclaimLabels
  <2>5. Records'
    BY <2>1 DEF Records, Backed, Faithful
  <2>6. KeptInSpare'
    BY <2>1 DEF KeptInSpare, Backed, Faithful
  <2>7. Copied'
    BY <2>1 DEF Copied
  <2>8. Recoverable'
    BY <2>1 DEF Recoverable, Backed
  <2>9. Available => Available'
    BY <2>1 DEF Available, Backed
  <2> QED
    BY <1>0, <2>2, <2>3, <2>4, <2>5, <2>6, <2>7, <2>8, <2>9
<1>11. CASE ReclaimRestore
  <2> USE <1>11 DEF ReclaimRestore, SetSpare, Goto, ram
  <2>1. ~Backed(work.q)
    BY DEF KeptInSpare
  <2>2. ret \in RefreshTargets \cup {"idle"}
    BY DEF TypeInv, Serves, Continuations, EmptyImages, RefreshTargets
  <2>3. ~NeedsReclaim(work.q) /\ ~work.q.alloc /\ work.q.record = {}
    BY QueueSizeType DEF EmptyImages, EmptyQueue, NeedsReclaim, Size
  <2>4. EmptyImages'
    BY <2>1, <2>2, <2>3 DEF EmptyImages, ImageInSpare, IsImage,
       RefreshTargets
  <2>5. OneHeader'
    BY <2>1, <2>2, <2>3 DEF OneHeader, RefreshTargets
  <2>6. ValidWork'
    BY <2>1, <2>2, <2>3 DEF ValidWork, ReclaimLabels, RefreshTargets,
       ReclaimLabels
  <2>7. Records'
    BY <2>1, <2>2, <2>3 DEF Records, Backed, Faithful, RefreshTargets
  <2>8. KeptInSpare'
    BY <2>1, <2>2, <2>3 DEF KeptInSpare, Backed, Faithful, RefreshTargets
  <2>9. Copied'
    BY <2>1, <2>2, <2>3 DEF Copied, RefreshTargets
  <2>10. Recoverable'
    BY <2>1, <2>2, <2>3 DEF Recoverable, Backed
  <2>11. Available => Available'
    BY <2>1, <2>2, <2>3 DEF Available, Backed
  <2> QED
    BY <1>0, <2>4, <2>5, <2>6, <2>7, <2>8, <2>9, <2>10, <2>11
<1> QED
  BY <1>1, <1>2, <1>3, <1>4, <1>5, <1>6, <1>7, <1>8, <1>9, <1>10, <1>11 DEF Reclaim

\* The spare area is filled before the record says so.
LEMMA WriteKeepsSafeInv ==
  ASSUME OrderlyWrites, SafeInv,
         Allocate \/ AllocateHeader \/ AllocateWrites \/ Write \/
         WriteRecordHeader \/ WriteErase \/ WriteData \/ WriteSpared \/
         WriteErase2 \/ WriteRestore
  PROVE  SafeInv' /\ (Available => Available' \/ pc = "abort")
<1> USE DEF SafeInv
<1>0. TypeInv'
  BY TypeInvKept DEF Next, Driver
<1>1. CASE Allocate
  <2> USE <1>1 DEF Allocate, Finish, ResetRam, flash
  <2>1. count = 1 /\ ~NeedsReclaim(work.q) /\ work.q.used \in Nat
    BY DEF OneHeader, TypeInv, Fits, FitQueue, Queues
  <2>2. /\ pc' \in {"idle", "alloc_header"}
        /\ image' = EmptyQueue
        /\ ret' # "alloc_header"
    BY <2>1, QueueSizeType DEF NeedsReclaim, Size, EmptyImages
  <2>3. Backed(work.q) => Failing # {} /\ pc' = "idle"
    BY DEF KeptInSpare, Backed
  <2>4. pc' = "alloc_header"
          => offset' = work.q.used /\ op' = op /\ count' = 1 /\ ret' = ret
    BY <2>1, <2>2
  <2>5. pc' = "idle" => op' = "none" /\ ret' = "idle"
    BY <2>2
  <2>6. EmptyImages'
    BY <2>1, <2>2, <2>3, <2>4, <2>5 DEF EmptyImages, ImageInSpare, IsImage,
       Void
  <2>7. OneHeader'
    BY <2>1, <2>2, <2>3, <2>4, <2>5 DEF OneHeader
  <2>8. ValidWork'
    BY <2>1, <2>2, <2>3, <2>4, <2>5 DEF ValidWork, ReclaimLabels
  <2>9. Records'
    BY <2>1, <2>2, <2>3, <2>4, <2>5 DEF Records, Backed, Faithful
  <2>10. KeptInSpare'
    BY <2>1, <2>2, <2>3, <2>4, <2>5 DEF KeptInSpare, Backed, Faithful
  <2>11. Copied'
    BY <2>1, <2>2, <2>3, <2>4, <2>5 DEF Copied
  <2>12. Recoverable'
    BY <2>1, <2>2, <2>3, <2>4, <2>5 DEF Recoverable, Backed
  <2>13. Available => Available'
    BY <2>1, <2>2, <2>3, <2>4, <2>5 DEF Available, Backed
  <2> QED
    BY <1>0, <2>6, <2>7, <2>8, <2>9, <2>10, <2>11, <2>12, <2>13
<1>2. CASE AllocateHeader
  <2> USE <1>2 DEF AllocateHeader, SetWork, Goto, ram
  <2>1. work.q \in Queues /\ work \in Works
    BY DEF TypeInv, TypeOK, Works
  <2>2. offset = work.q.used /\ count = 1 /\ ~work.q.alloc
    BY DEF OneHeader, TypeInv, AllocatesWithin
  <2>3. /\ work'.q = [work.q EXCEPT !.alloc = TRUE, !.n = 1]
        /\ work'.state = work.state
    BY <2>2
  <2>4. /\ work'.q.alloc
        /\ work'.q.n = 1
        /\ work'.q.used = work.q.used
        /\ work'.q.stray = work.q.stray
        /\ work'.q.record = work.q.record
        /\ work'.q.backed = work.q.backed
    BY <2>1, <2>3 DEF Queues
  <2>5. ~work.q.backed
    BY <2>2 DEF TypeInv, Fits, FitQueue
  <2>6. EmptyImages'
    BY <2>1, <2>2, <2>3, <2>4, <2>5 DEF EmptyImages, ImageInSpare, IsImage
  <2>7. OneHeader'
    BY <2>1, <2>2, <2>3, <2>4, <2>5 DEF OneHeader
  <2>8. ValidWork'
    BY <2>1, <2>2, <2>3, <2>4, <2>5 DEF ValidWork, ReclaimLabels
  <2>9. Records'
    BY <2>1, <2>2, <2>3, <2>4, <2>5 DEF Records, Backed, Faithful
  <2>10. KeptInSpare'
    BY <2>1, <2>2, <2>3, <2>4, <2>5 DEF KeptInSpare, Backed, Faithful
  <2>11. Copied'
    BY <2>1, <2>2, <2>3, <2>4, <2>5 DEF Copied
  <2>12. Recoverable'
    BY <2>1, <2>2, <2>3, <2>4, <2>5 DEF Recoverable, Backed
  <2>13. Available => Available'
    BY <2>1, <2>2, <2>3, <2>4, <2>5 DEF Available, Backed
  <2> QED
    BY <1>0, <2>6, <2>7, <2>8, <2>9, <2>10, <2>11, <2>12, <2>13
<1>3. CASE AllocateWrites
  <2> USE <1>3 DEF AllocateWrites, Goto, ram, Finish, ResetRam
  <2>1. work.q \in Queues /\ work \in Works
    BY DEF TypeInv, TypeOK, Works
  <2>2. /\ work'.state = work.state
        /\ work'.q.alloc = work.q.alloc
        /\ work'.q.n = work.q.n
        /\ work'.q.used = work.q.used
        /\ work'.q.stray = work.q.stray
        /\ work'.q.record = work.q.record
        /\ work'.q.backed = work.q.backed
    BY <2>1 DEF Works, Queues
  <2>3. ~Backed(work.q)
    BY DEF KeptInSpare
  <2>4. op = "write" => ~NeedsReclaim(work'.q)
    BY <2>1, <2>2, QueueSizeType DEF OneHeader, TypeInv, Fits, FitQueue,
       NeedsReclaim, Size, Queues
  <2>5. EmptyImages'
    BY <2>1, <2>2, <2>3, <2>4 DEF EmptyImages, ImageInSpare, IsImage, Void
  <2>6. OneHeader'
    BY <2>1, <2>2, <2>3, <2>4 DEF OneHeader
  <2>7. ValidWork'
    BY <2>1, <2>2, <2>3, <2>4 DEF ValidWork, ReclaimLabels
  <2>8. Records'
    BY <2>1, <2>2, <2>3, <2>4 DEF Records, Backed, Faithful
  <2>9. KeptInSpare'
    BY <2>1, <2>2, <2>3, <2>4 DEF KeptInSpare, Backed, Faithful
  <2>10. Copied'
    BY <2>1, <2>2, <2>3, <2>4 DEF Copied
  <2>11. Recoverable'
    BY <2>1, <2>2, <2>3, <2>4 DEF Recoverable, Backed
  <2>12. Available => Available'
    BY <2>1, <2>2, <2>3, <2>4 DEF Available, Backed
  <2> QED
    BY <1>0, <2>5, <2>6, <2>7, <2>8, <2>9, <2>10, <2>11, <2>12
<1>4. CASE Write
  <2> USE <1>4 DEF Write, Finish, ResetRam, flash
  <2>1. Backed(work.q) => Failing # {} /\ pc' = "idle"
    BY DEF KeptInSpare, Backed, Denied
  <2>2. work.q.alloc /\ ~Denied(work.q) => ~work.q.backed
    BY DEF Denied
  <2>3. EmptyImages'
    BY <2>1, <2>2 DEF EmptyImages, ImageInSpare, IsImage, Void
  <2>4. OneHeader'
    BY <2>1, <2>2 DEF OneHeader, TypeInv, Serves, WriteLabels
  <2>5. ValidWork'
    BY <2>1, <2>2 DEF ValidWork, ReclaimLabels
  <2>6. Records'
    <3>1. pc' = "w_record" => extent' = Extent(request) /\ request \in Requests
      BY DEF TypeInv, Serves, WriteLabels
    <3>2. pc' = "w_record" => extent' \in Extents
      BY <3>1 DEF Extent, Extents, Requests
    <3> QED
      BY <2>1, <2>2, <3>2 DEF Records, Backed, Faithful
  <2>7. KeptInSpare'
    BY <2>1, <2>2 DEF KeptInSpare, Backed, Faithful
  <2>8. Copied'
    BY <2>1, <2>2 DEF Copied
  <2>9. Recoverable'
    BY <2>1, <2>2 DEF Recoverable, Backed
  <2>10. Available => Available'
    BY <2>1, <2>2 DEF Available, Backed
  <2> QED
    BY <1>0, <2>3, <2>4, <2>5, <2>6, <2>7, <2>8, <2>9, <2>10
<1>5. CASE WriteRecordHeader
  <2> USE <1>5 DEF WriteRecordHeader, SetWork, Goto, ram
  <2>1. work.q \in Queues /\ work \in Works
    BY DEF TypeInv, TypeOK, Works
  <2>2. /\ work.q.record \subseteq {extent} /\ extent \in Extents
        /\ work.q.alloc /\ ~work.q.backed
    <3>1. work.q.alloc /\ ~work.q.backed /\ extent \in Extents
      BY DEF Records, TypeInv, HasRecord, RecordLabels
    <3>2. CASE Failing = {}
      BY <3>1, <3>2 DEF Records
    <3>3. CASE Failing # {}
      <4>1. \A x \in work.q.record : x = extent
        BY <3>1, <3>3 DEF Records, OrderlyWrites, SingleWrites, FixedWrites
      <4> QED
        BY <3>1, <4>1
    <3> QED
      BY <3>2, <3>3
  <2>3. /\ work'.q = [work.q EXCEPT !.record = {extent}]
        /\ work'.state = work.state
    BY <2>1, <2>2
  <2>4. /\ work'.q.record = {extent}
        /\ work'.q.alloc
        /\ ~work'.q.backed
        /\ work'.q.n = work.q.n
        /\ work'.q.used = work.q.used
        /\ work'.q.stray = work.q.stray
    BY <2>1, <2>2, <2>3 DEF Queues
  <2>5. EmptyImages'
    BY <2>1, <2>2, <2>3, <2>4 DEF EmptyImages, ImageInSpare, IsImage
  <2>6. OneHeader'
    BY <2>1, <2>2, <2>3, <2>4 DEF OneHeader
  <2>7. ValidWork'
    BY <2>1, <2>2, <2>3, <2>4 DEF ValidWork, ReclaimLabels
  <2>8. Records'
    BY <2>1, <2>2, <2>3, <2>4 DEF Records, Backed, Faithful
  <2>9. KeptInSpare'
    BY <2>1, <2>2, <2>3, <2>4 DEF KeptInSpare, Backed, Faithful
  <2>10. Copied'
    BY <2>1, <2>2, <2>3, <2>4 DEF Copied
  <2>11. Recoverable'
    BY <2>1, <2>2, <2>3, <2>4 DEF Recoverable, Backed
  <2>12. Available => Available'
    BY <2>1, <2>2, <2>3, <2>4 DEF Available, Backed
  <2> QED
    BY <1>0, <2>5, <2>6, <2>7, <2>8, <2>9, <2>10, <2>11, <2>12
<1>6. CASE WriteErase
  <2> USE <1>6 DEF WriteErase
  <2>1. ~Backed(work.q)
    BY DEF KeptInSpare
  <2>2. EmptyImages'
    BY <2>1 DEF EmptyImages, ImageInSpare, IsImage, Void
  <2>3. OneHeader'
    BY <2>1 DEF OneHeader
  <2>4. ValidWork'
    BY <2>1 DEF ValidWork, ReclaimLabels
  <2>5. Records'
    BY <2>1 DEF Records, Backed, Faithful
  <2>6. KeptInSpare'
    BY <2>1 DEF KeptInSpare, Backed, Faithful
  <2>7. Copied'
    BY <2>1 DEF Copied
  <2>8. Recoverable'
    BY <2>1 DEF Recoverable, Backed
  <2>9. Available => Available'
    BY <2>1 DEF Available, Backed
  <2> QED
    BY <1>0, <2>2, <2>3, <2>4, <2>5, <2>6, <2>7, <2>8, <2>9
<1>7. CASE WriteData
  <2> USE <1>7 DEF WriteData, Backup, SetWork, Goto, ram, SetSpare
  <2>1. ~Backed(work.q)
    BY DEF KeptInSpare
  <2>2. request.value # Torn
    BY ConstantsAssumption DEF TypeInv, Serves, WriteLabels, Requests
  <2>3. \A b \in extent : Merged[b] = Torn => target[b] = Torn
    BY <2>2 DEF Merged
  <2>4. DOMAIN Merged = extent
    BY DEF Merged
  <2>5. EmptyImages'
    BY <2>1, <2>2, <2>3, <2>4 DEF EmptyImages, ImageInSpare, IsImage
  <2>6. OneHeader'
    BY <2>1, <2>2, <2>3, <2>4 DEF OneHeader
  <2>7. ValidWork'
    BY <2>1, <2>2, <2>3, <2>4 DEF ValidWork, ReclaimLabels
  <2>8. Records'
    BY <2>1, <2>2, <2>3, <2>4 DEF Records, Backed, Faithful
  <2>9. KeptInSpare'
    BY <2>1, <2>2, <2>3, <2>4 DEF KeptInSpare, Backed, Faithful
  <2>10. Copied'
    BY <2>1, <2>2, <2>3, <2>4 DEF Copied
  <2>11. Recoverable'
    BY <2>1, <2>2, <2>3, <2>4 DEF Recoverable, Backed
  <2>12. Available => Available'
    BY <2>1, <2>2, <2>3, <2>4 DEF Available, Backed
  <2> QED
    BY <1>0, <2>5, <2>6, <2>7, <2>8, <2>9, <2>10, <2>11, <2>12
<1>8. CASE WriteSpared
  <2> USE <1>8 DEF WriteSpared, SetWork, Goto, ram
  <2>1. work.q \in Queues /\ work \in Works
    BY DEF TypeInv, TypeOK, Works
  <2>2. work'.q = [work.q EXCEPT !.backed = TRUE] /\ work'.state = work.state
    BY <2>1
  <2>3. /\ work'.q.backed
        /\ work'.q.record = work.q.record
        /\ work'.q.alloc = work.q.alloc
        /\ work'.q.n = work.q.n
        /\ work'.q.used = work.q.used
        /\ work'.q.stray = work.q.stray
    BY <2>1, <2>2 DEF Queues
  <2>4. work.q.alloc
    BY DEF TypeInv, HasRecord, RecordLabels
  <2>5. EmptyImages'
    BY <2>1, <2>2, <2>3, <2>4 DEF EmptyImages, ImageInSpare, IsImage
  <2>6. OneHeader'
    BY <2>1, <2>2, <2>3, <2>4 DEF OneHeader
  <2>7. ValidWork'
    BY <2>1, <2>2, <2>3, <2>4 DEF ValidWork, ReclaimLabels
  <2>8. Records'
    BY <2>1, <2>2, <2>3, <2>4 DEF Records, Backed, Faithful
  <2>9. KeptInSpare'
    BY <2>1, <2>2, <2>3, <2>4 DEF KeptInSpare, Backed, Faithful, Records
  <2>10. Copied'
    BY <2>1, <2>2, <2>3, <2>4 DEF Copied
  <2>11. Recoverable'
    BY <2>1, <2>2, <2>3, <2>4 DEF Recoverable, Backed, Records
  <2>12. Available => Available'
    BY <2>1, <2>2, <2>3, <2>4 DEF Available, Backed
  <2> QED
    BY <1>0, <2>5, <2>6, <2>7, <2>8, <2>9, <2>10, <2>11, <2>12
<1>9. CASE WriteErase2
  <2> USE <1>9 DEF WriteErase2, SetSpare, Goto, ram
  <2>1. ~Backed(work.q)
    BY DEF KeptInSpare
  <2>2. EmptyImages'
    BY <2>1 DEF EmptyImages, ImageInSpare, IsImage, Void
  <2>3. OneHeader'
    BY <2>1 DEF OneHeader
  <2>4. ValidWork'
    BY <2>1 DEF ValidWork, ReclaimLabels
  <2>5. Records'
    BY <2>1 DEF Records, Backed, Faithful
  <2>6. KeptInSpare'
    BY <2>1 DEF KeptInSpare, Backed, Faithful
  <2>7. Copied'
    BY <2>1 DEF Copied
  <2>8. Recoverable'
    BY <2>1 DEF Recoverable, Backed
  <2>9. Available => Available'
    BY <2>1 DEF Available, Backed
  <2> QED
    BY <1>0, <2>2, <2>3, <2>4, <2>5, <2>6, <2>7, <2>8, <2>9
<1>10. CASE WriteRestore
  <2> USE <1>10 DEF WriteRestore, Finish, ResetRam
  <2>1. ~Backed(work.q)
    BY DEF KeptInSpare
  <2>2. EmptyImages'
    BY <2>1 DEF EmptyImages, ImageInSpare, IsImage, Void
  <2>3. OneHeader'
    BY <2>1 DEF OneHeader
  <2>4. ValidWork'
    BY <2>1 DEF ValidWork, ReclaimLabels
  <2>5. Records'
    BY <2>1 DEF Records, Backed, Faithful
  <2>6. KeptInSpare'
    BY <2>1 DEF KeptInSpare, Backed, Faithful
  <2>7. Copied'
    BY <2>1 DEF Copied
  <2>8. Recoverable'
    BY <2>1 DEF Recoverable, Backed
  <2>9. Available => Available'
    BY <2>1 DEF Available, Backed
  <2> QED
    BY <1>0, <2>2, <2>3, <2>4, <2>5, <2>6, <2>7, <2>8, <2>9
<1> QED
  BY <1>1, <1>2, <1>3, <1>4, <1>5, <1>6, <1>7, <1>8, <1>9, <1>10

\* The target is rewritten from the spare area, whoever starts it.
LEMMA RecoverKeepsSafeInv ==
  ASSUME OrderlyWrites, SafeInv,
         WriteRecord \/ Recover
  PROVE  SafeInv' /\ (Available => Available' \/ pc = "abort")
<1> USE DEF SafeInv
<1>0. TypeInv'
  BY TypeInvKept DEF Next, Driver
<1>1. CASE TargetErase
  <2> USE <1>1 DEF TargetErase
  <2>1. spare.kind = "data" /\ extent = DOMAIN spare.content /\ Backed(work.q)
    BY DEF Records, Recoverable
  <2>2. /\ extent \subseteq Blocks /\ \A b \in extent : target'[b] = Torn
        /\ Available => \A b \in Blocks : target'[b] = Torn => b \in extent
    BY <2>1 DEF Available, TypeInv, TypeOK
  <2>3. Available => \A b \in extent : spare.content[b] # Torn
    BY <2>1, <2>2 DEF KeptInSpare, Faithful, Available
  <2>4. EmptyImages'
    BY <2>1, <2>2, <2>3 DEF EmptyImages, ImageInSpare, IsImage
  <2>5. OneHeader'
    BY <2>1, <2>2, <2>3 DEF OneHeader
  <2>6. ValidWork'
    BY <2>1, <2>2, <2>3 DEF ValidWork, ReclaimLabels
  <2>7. Records'
    BY <2>1, <2>2, <2>3 DEF Records, Backed, Faithful
  <2>8. KeptInSpare'
    BY <2>1, <2>2, <2>3 DEF KeptInSpare, Backed, Faithful
  <2>9. Copied'
    BY <2>1, <2>2, <2>3 DEF Copied
  <2>10. Recoverable'
    BY <2>1, <2>2, <2>3 DEF Recoverable, Backed
  <2>11. Available => Available'
    BY <2>1, <2>2, <2>3 DEF Available, Backed
  <2> QED
    BY <1>0, <2>4, <2>5, <2>6, <2>7, <2>8, <2>9, <2>10, <2>11
<1>2. CASE TargetData
  <2> USE <1>2 DEF TargetData
  <2>1. spare.kind = "data" /\ extent = DOMAIN spare.content /\ Backed(work.q)
    BY DEF Records, Recoverable
  <2>2. PICK b \in left : /\ \A c \in left : b <= c
                        /\ target' = [target EXCEPT ![b] = SpareBlock(b)]
                        /\ left' = left \ {b}
                        /\ pc' = IF left = {b} THEN "x_dest" ELSE "x_data"
    BY DEF TargetData
  <2>3. /\ b \in extent /\ extent \subseteq Blocks /\ SpareBlock(b) = spare.content[b]
        /\ target \in [Blocks -> Data \cup {Torn}] /\ Faithful
    BY <2>1, <2>2 DEF SpareBlock, TypeInv, TypeOK, HasRecord, KeptInSpare
  <2>4. /\ \A c \in extent \ left' : target'[c] = spare.content[c]
        /\ \A c \in Blocks : target'[c] = Torn => target[c] = Torn
        /\ \A c \in extent : spare.content[c] = Torn => target'[c] = Torn
    BY <2>1, <2>2, <2>3 DEF Copied, Faithful
  <2>5. left' = {} => pc' = "x_dest"
    BY <2>2
  <2>6. pc' \in {"x_data", "x_dest"} /\ (pc' = "x_dest" => left' = {})
    BY <2>2
  <2>7. EmptyImages'
    BY <2>1, <2>2, <2>3, <2>4, <2>5, <2>6 DEF EmptyImages, ImageInSpare,
       IsImage
  <2>8. OneHeader'
    BY <2>1, <2>2, <2>3, <2>4, <2>5, <2>6 DEF OneHeader
  <2>9. ValidWork'
    BY <2>1, <2>2, <2>3, <2>4, <2>5, <2>6 DEF ValidWork, ReclaimLabels
  <2>10. Records'
    BY <2>1, <2>2, <2>3, <2>4, <2>5, <2>6 DEF Records, Backed, Faithful
  <2>11. KeptInSpare'
    BY <2>1, <2>2, <2>3, <2>4, <2>5, <2>6 DEF KeptInSpare, Backed, Faithful
  <2>12. Copied'
    BY <2>1, <2>2, <2>3, <2>4, <2>5, <2>6 DEF Copied
  <2>13. Recoverable'
    BY <2>1, <2>2, <2>3, <2>4, <2>5, <2>6 DEF Recoverable, Backed
  <2>14. Available => Available'
    BY <2>1, <2>2, <2>3, <2>4, <2>5, <2>6 DEF Available, Backed
  <2> QED
    BY <1>0, <2>7, <2>8, <2>9, <2>10, <2>11, <2>12, <2>13, <2>14
<1>3. CASE TargetDest
  <2> USE <1>3 DEF TargetDest, Recorded, SetWork, Goto, ram
  <2>1. spare.kind = "data" /\ extent = DOMAIN spare.content /\ Backed(work.q)
    BY DEF Records, Recoverable
  <2>2. work.q \in Queues /\ work \in Works
    BY DEF TypeInv, TypeOK, Works
  <2>3. /\ work'.q = [work.q EXCEPT !.done = @ + 1, !.backed = FALSE, !.record = {}]
        /\ work'.state = work.state
    BY <2>2
  <2>4. /\ ~work'.q.backed
        /\ work'.q.record = {}
        /\ work'.q.alloc = work.q.alloc
        /\ work'.q.n = work.q.n
        /\ work'.q.used = work.q.used
        /\ work'.q.stray = work.q.stray
    BY <2>2, <2>3 DEF Queues
  <2>5. pc' \in {"x_complete", "w_rerase", "r_erase"}
    BY <2>2
  <2>6. Available => \A b \in Blocks : target[b] # Torn
    BY <2>1 DEF Copied, Available
  <2>7. EmptyImages'
    BY <2>1, <2>2, <2>3, <2>4, <2>5, <2>6 DEF EmptyImages, ImageInSpare,
       IsImage
  <2>8. OneHeader'
    BY <2>1, <2>2, <2>3, <2>4, <2>5, <2>6 DEF OneHeader
  <2>9. ValidWork'
    BY <2>1, <2>2, <2>3, <2>4, <2>5, <2>6 DEF ValidWork, ReclaimLabels
  <2>10. Records'
    BY <2>1, <2>2, <2>3, <2>4, <2>5, <2>6 DEF Records, Backed, Faithful
  <2>11. KeptInSpare'
    BY <2>1, <2>2, <2>3, <2>4, <2>5, <2>6 DEF KeptInSpare, Backed, Faithful
  <2>12. Copied'
    BY <2>1, <2>2, <2>3, <2>4, <2>5, <2>6 DEF Copied
  <2>13. Recoverable'
    BY <2>1, <2>2, <2>3, <2>4, <2>5, <2>6 DEF Recoverable, Backed
  <2>14. Available => Available'
    BY <2>1, <2>2, <2>3, <2>4, <2>5, <2>6 DEF Available, Backed
  <2> QED
    BY <1>0, <2>7, <2>8, <2>9, <2>10, <2>11, <2>12, <2>13, <2>14
<1>4. CASE TargetComplete
  <2> USE <1>4 DEF TargetComplete, Recorded, SetWork, Goto, ram
  <2>1. /\ work'.q = Complete(work.q)
        /\ work'.state = work.state
        /\ pc' \in {"w_rerase", "r_erase"}
    OBVIOUS
  <2>2. /\ ~work'.q.alloc
        /\ ~work'.q.backed
        /\ work'.q.record = {}
        /\ work'.q.stray = work.q.stray
    BY <2>1 DEF Complete, EmptyQueue
  <2>3. ~Backed(work.q)
    BY DEF KeptInSpare
  <2>4. EmptyImages'
    BY <2>1, <2>2, <2>3 DEF EmptyImages, ImageInSpare, IsImage
  <2>5. OneHeader'
    BY <2>1, <2>2, <2>3 DEF OneHeader
  <2>6. ValidWork'
    BY <2>1, <2>2, <2>3 DEF ValidWork, ReclaimLabels
  <2>7. Records'
    BY <2>1, <2>2, <2>3 DEF Records, Backed, Faithful
  <2>8. KeptInSpare'
    BY <2>1, <2>2, <2>3 DEF KeptInSpare, Backed, Faithful
  <2>9. Copied'
    BY <2>1, <2>2, <2>3 DEF Copied
  <2>10. Recoverable'
    BY <2>1, <2>2, <2>3 DEF Recoverable, Backed
  <2>11. Available => Available'
    BY <2>1, <2>2, <2>3 DEF Available, Backed
  <2> QED
    BY <1>0, <2>4, <2>5, <2>6, <2>7, <2>8, <2>9, <2>10, <2>11
<1>5. CASE Restart
  <2> USE <1>5 DEF Restart, Finish, ResetRam, flash
  <2>1. Backed(work.q)
          => pc' = "x_erase" /\ extent' \in RecordedExtents(work.q)
    OBVIOUS
  <2>2. Backed(work.q)
          => extent' = DOMAIN spare.content /\ spare.kind = "data"
    BY <2>1, FS_Singleton DEF Recoverable, RecordedExtents
  <2>3. ~Backed(work.q) => pc' = "idle" /\ ret' = "idle" /\ op' = "none"
    OBVIOUS
  <2>4. pc' \in {"idle", "x_erase"}
    OBVIOUS
  <2>5. EmptyImages'
    BY <2>1, <2>2, <2>3, <2>4 DEF EmptyImages, ImageInSpare, IsImage, Void
  <2>6. OneHeader'
    BY <2>1, <2>2, <2>3, <2>4 DEF OneHeader
  <2>7. ValidWork'
    BY <2>1, <2>2, <2>3, <2>4 DEF ValidWork, ReclaimLabels
  <2>8. Records'
    BY <2>1, <2>2, <2>3, <2>4 DEF Records, Backed, Faithful
  <2>9. KeptInSpare'
    BY <2>1, <2>2, <2>3, <2>4 DEF KeptInSpare, Backed, Faithful
  <2>10. Copied'
    BY <2>1, <2>2, <2>3, <2>4 DEF Copied
  <2>11. Recoverable'
    BY <2>1, <2>2, <2>3, <2>4 DEF Recoverable, Backed
  <2>12. Available => Available'
    BY <2>1, <2>2, <2>3, <2>4 DEF Available, Backed
  <2> QED
    BY <1>0, <2>5, <2>6, <2>7, <2>8, <2>9, <2>10, <2>11, <2>12
<1>6. CASE RestartErase
  <2> USE <1>6 DEF RestartErase, RefreshThen, Finish, ResetRam
  <2>1. ~Backed(work.q)
    BY DEF KeptInSpare
  <2>2. EmptyImages'
    BY <2>1 DEF EmptyImages, ImageInSpare, IsImage, Void
  <2>3. OneHeader'
    BY <2>1 DEF OneHeader
  <2>4. ValidWork'
    BY <2>1 DEF ValidWork, ReclaimLabels
  <2>5. Records'
    BY <2>1 DEF Records, Backed, Faithful
  <2>6. KeptInSpare'
    BY <2>1 DEF KeptInSpare, Backed, Faithful
  <2>7. Copied'
    BY <2>1 DEF Copied
  <2>8. Recoverable'
    BY <2>1 DEF Recoverable, Backed
  <2>9. Available => Available'
    BY <2>1 DEF Available, Backed
  <2> QED
    BY <1>0, <2>2, <2>3, <2>4, <2>5, <2>6, <2>7, <2>8, <2>9
<1>7. CASE Abort
  <2> USE <1>7 DEF Abort, Finish, ResetRam
  <2>1. work.q \in Queues /\ work \in Works
    BY DEF TypeInv, TypeOK, Works
  <2>2. work'.q = SetComplete(work.q) /\ work'.state = work.state
    BY <2>1 DEF Works
  <2>3. work'.q = work.q \/ work'.q = Complete(work.q)
    BY <2>2 DEF SetComplete
  <2>4. /\ ~Complete(work.q).alloc
        /\ ~Complete(work.q).backed
        /\ Complete(work.q).record = {}
        /\ Complete(work.q).stray = work.q.stray
    BY DEF Complete, EmptyQueue
  <2>5. /\ ~work'.q.alloc /\ work'.q.record = {}
        /\ Failing = {} => ~Backed(work.q)
    BY <2>2, <2>4 DEF SetComplete, Records, KeptInSpare
  <2>6. EmptyImages'
    BY <2>1, <2>2, <2>3, <2>4, <2>5 DEF EmptyImages, ImageInSpare, IsImage,
       Void
  <2>7. OneHeader'
    BY <2>1, <2>2, <2>3, <2>4, <2>5 DEF OneHeader
  <2>8. ValidWork'
    BY <2>1, <2>2, <2>3, <2>4, <2>5 DEF ValidWork, ReclaimLabels
  <2>9. Records'
    BY <2>1, <2>2, <2>3, <2>4, <2>5 DEF Records, Backed, Faithful
  <2>10. KeptInSpare'
    BY <2>1, <2>2, <2>3, <2>4, <2>5 DEF KeptInSpare, Backed, Faithful
  <2>11. Copied'
    BY <2>1, <2>2, <2>3, <2>4, <2>5 DEF Copied
  <2>12. Recoverable'
    BY <2>1, <2>2, <2>3, <2>4, <2>5 DEF Recoverable, Backed
  <2>13. Failing = {} => Available'
    BY <2>1, <2>2, <2>3, <2>4, <2>5 DEF Available, Backed
  <2> QED
    BY <1>0, <2>6, <2>7, <2>8, <2>9, <2>10, <2>11, <2>12, <2>13
<1>8. CASE GetLastWrite
  <2> USE <1>8 DEF GetLastWrite, Finish, ResetRam
  <2>1. work.q \in Queues /\ work \in Works
    BY DEF TypeInv, TypeOK, Works
  <2>2. /\ work'.q = (IF Abandoned(work.q) THEN Complete(work.q) ELSE work.q)
        /\ work'.state = work.state
    BY <2>1 DEF Works
  <2>3. work'.q = work.q \/ work'.q = Complete(work.q)
    BY <2>2 DEF SetComplete
  <2>4. /\ ~Complete(work.q).alloc
        /\ ~Complete(work.q).backed
        /\ Complete(work.q).record = {}
        /\ Complete(work.q).stray = work.q.stray
    BY DEF Complete, EmptyQueue
  <2>5. Backed(work.q) => Failing # {} /\ work'.q = work.q
    BY <2>2 DEF KeptInSpare, Abandoned, Backed, TypeInv, Fits, FitQueue, Queues
  <2>6. EmptyImages'
    BY <2>1, <2>2, <2>3, <2>4, <2>5 DEF EmptyImages, ImageInSpare, IsImage,
       Void
  <2>7. OneHeader'
    BY <2>1, <2>2, <2>3, <2>4, <2>5 DEF OneHeader
  <2>8. ValidWork'
    BY <2>1, <2>2, <2>3, <2>4, <2>5 DEF ValidWork, ReclaimLabels
  <2>9. Records'
    BY <2>1, <2>2, <2>3, <2>4, <2>5 DEF Records, Backed, Faithful
  <2>10. KeptInSpare'
    BY <2>1, <2>2, <2>3, <2>4, <2>5 DEF KeptInSpare, Backed, Faithful
  <2>11. Copied'
    BY <2>1, <2>2, <2>3, <2>4, <2>5 DEF Copied
  <2>12. Recoverable'
    BY <2>1, <2>2, <2>3, <2>4, <2>5 DEF Recoverable, Backed
  <2>13. Available => Available'
    BY <2>1, <2>2, <2>3, <2>4, <2>5 DEF Available, Backed
  <2> QED
    BY <1>0, <2>6, <2>7, <2>8, <2>9, <2>10, <2>11, <2>12, <2>13
<1> QED
  BY <1>1, <1>2, <1>3, <1>4, <1>5, <1>6, <1>7, <1>8 DEF WriteRecord, Recover

\* Initialization abandons nothing that is only in the spare area.
LEMMA BootKeepsSafeInv ==
  ASSUME OrderlyWrites, SafeInv,
         Boot
  PROVE  SafeInv' /\ (Available => Available' \/ pc = "abort")
<1> USE DEF SafeInv
<1>0. TypeInv'
  BY TypeInvKept DEF Next, Driver
<1>1. CASE InitCheck
  <2> USE <1>1 DEF InitCheck, ReclaimThen, Goto, flash, ram
  <2>1. work.state # "valid" => ~Backed(work.q) /\ ~work.q.alloc
    BY DEF ValidWork, Backed
  <2>2. pc' = "fl_invalid" => IsValidWorkSpace(spare) /\ ret' = "init_flush"
    OBVIOUS
  <2>3. pc' = "rc_erase" => ret' = "init_first" /\ image' = EmptyQueue
    OBVIOUS
  <2>4. pc' = "init_first" => UNCHANGED ram /\ work.state = "valid"
    OBVIOUS
  <2>5. pc' \in {"init_first", "fl_invalid", "rc_erase"}
    OBVIOUS
  <2>6. EmptyImages'
    BY <2>1, <2>2, <2>3, <2>4, <2>5 DEF EmptyImages, ImageInSpare, IsImage,
       ReclaimLabels
  <2>7. OneHeader'
    BY <2>1, <2>2, <2>3, <2>4, <2>5 DEF OneHeader
  <2>8. ValidWork'
    BY <2>1, <2>2, <2>3, <2>4, <2>5 DEF ValidWork, ReclaimLabels
  <2>9. Records'
    BY <2>1, <2>2, <2>3, <2>4, <2>5 DEF Records, Backed, Faithful
  <2>10. KeptInSpare'
    BY <2>1, <2>2, <2>3, <2>4, <2>5 DEF KeptInSpare, Backed, Faithful
  <2>11. Copied'
    BY <2>1, <2>2, <2>3, <2>4, <2>5 DEF Copied
  <2>12. Recoverable'
    BY <2>1, <2>2, <2>3, <2>4, <2>5 DEF Recoverable, Backed
  <2>13. Available => Available'
    BY <2>1, <2>2, <2>3, <2>4, <2>5 DEF Available, Backed
  <2> QED
    BY <1>0, <2>6, <2>7, <2>8, <2>9, <2>10, <2>11, <2>12, <2>13
<1>2. CASE InitFlushed
  <2> USE <1>2 DEF InitFlushed, RefreshThen
  <2>1. work.q \in Queues /\ work \in Works
    BY DEF TypeInv, TypeOK, Works
  <2>2. work'.q = SetComplete(work.q) /\ work'.state = work.state
    BY <2>1 DEF Works
  <2>3. work'.q = work.q \/ work'.q = Complete(work.q)
    BY <2>2 DEF SetComplete
  <2>4. /\ ~Complete(work.q).alloc
        /\ ~Complete(work.q).backed
        /\ Complete(work.q).record = {}
        /\ Complete(work.q).stray = work.q.stray
    BY DEF Complete, EmptyQueue
  <2>5. ~Backed(work.q)
    BY DEF KeptInSpare
  <2>6. EmptyImages'
    BY <2>1, <2>2, <2>3, <2>4, <2>5 DEF EmptyImages, ImageInSpare, IsImage
  <2>7. OneHeader'
    BY <2>1, <2>2, <2>3, <2>4, <2>5 DEF OneHeader
  <2>8. ValidWork'
    BY <2>1, <2>2, <2>3, <2>4, <2>5 DEF ValidWork, ReclaimLabels
  <2>9. Records'
    BY <2>1, <2>2, <2>3, <2>4, <2>5 DEF Records, Backed, Faithful
  <2>10. KeptInSpare'
    BY <2>1, <2>2, <2>3, <2>4, <2>5 DEF KeptInSpare, Backed, Faithful
  <2>11. Copied'
    BY <2>1, <2>2, <2>3, <2>4, <2>5 DEF Copied
  <2>12. Recoverable'
    BY <2>1, <2>2, <2>3, <2>4, <2>5 DEF Recoverable, Backed
  <2>13. Available => Available'
    BY <2>1, <2>2, <2>3, <2>4, <2>5 DEF Available, Backed
  <2> QED
    BY <1>0, <2>6, <2>7, <2>8, <2>9, <2>10, <2>11, <2>12, <2>13
<1>3. CASE InitFirst
  <2> USE <1>3 DEF InitFirst, SetWork, Goto, ram
  <2>1. work.q \in Queues /\ work \in Works
    BY DEF TypeInv, TypeOK, Works
  <2>2. /\ work'.q = (IF Abandoned(work.q) THEN Complete(work.q) ELSE work.q)
        /\ work'.state = work.state
    OBVIOUS
  <2>3. work'.q = work.q \/ work'.q = Complete(work.q)
    BY <2>2
  <2>4. /\ ~Complete(work.q).alloc
        /\ ~Complete(work.q).backed
        /\ Complete(work.q).record = {}
        /\ Complete(work.q).stray = work.q.stray
    BY DEF Complete, EmptyQueue
  <2>5. Backed(work.q) => ~Abandoned(work.q)
    BY DEF Abandoned, Backed, TypeInv, Fits, FitQueue, Queues
  <2>6. Backed(work.q) => work'.q = work.q
    BY <2>2, <2>5
  <2>7. work'.q.record # {} /\ ~work'.q.backed => FALSE
    BY <2>1, <2>2, <2>4 DEF Abandoned, Records, OneHeader, TypeInv, Fits,
       FitQueue, Queues
  <2>8. EmptyImages'
    BY <2>1, <2>2, <2>3, <2>4, <2>5, <2>6, <2>7 DEF EmptyImages,
       ImageInSpare, IsImage
  <2>9. OneHeader'
    BY <2>1, <2>2, <2>3, <2>4, <2>5, <2>6, <2>7 DEF OneHeader
  <2>10. ValidWork'
    BY <2>1, <2>2, <2>3, <2>4, <2>5, <2>6, <2>7 DEF ValidWork, ReclaimLabels
  <2>11. Records'
    BY <2>1, <2>2, <2>3, <2>4, <2>5, <2>6, <2>7 DEF Records, Backed, Faithful
  <2>12. KeptInSpare'
    BY <2>1, <2>2, <2>3, <2>4, <2>5, <2>6, <2>7 DEF KeptInSpare, Backed, Faithful
  <2>13. Copied'
    BY <2>1, <2>2, <2>3, <2>4, <2>5, <2>6, <2>7 DEF Copied
  <2>14. Recoverable'
    BY <2>1, <2>2, <2>3, <2>4, <2>5, <2>6, <2>7 DEF Recoverable, Backed
  <2>15. Available => Available'
    BY <2>1, <2>2, <2>3, <2>4, <2>5, <2>6, <2>7 DEF Available, Backed
  <2> QED
    BY <1>0, <2>8, <2>9, <2>10, <2>11, <2>12, <2>13, <2>14, <2>15
<1>4. CASE InitTrailing
  <2> USE <1>4 DEF InitTrailing, ReclaimThen, Goto, flash, ram
  <2>1. pc' = "init_restart" /\ UNCHANGED ram
    BY DEF OneHeader, TypeInv, Fits, FitQueue, Queues
  <2>2. EmptyImages'
    BY <2>1 DEF EmptyImages, ImageInSpare, IsImage
  <2>3. OneHeader'
    BY <2>1 DEF OneHeader
  <2>4. ValidWork'
    BY <2>1 DEF ValidWork, ReclaimLabels
  <2>5. Records'
    BY <2>1 DEF Records, Backed, Faithful
  <2>6. KeptInSpare'
    BY <2>1 DEF KeptInSpare, Backed, Faithful
  <2>7. Copied'
    BY <2>1 DEF Copied
  <2>8. Recoverable'
    BY <2>1 DEF Recoverable, Backed
  <2>9. Available => Available'
    BY <2>1 DEF Available, Backed
  <2> QED
    BY <1>0, <2>2, <2>3, <2>4, <2>5, <2>6, <2>7, <2>8, <2>9
<1>5. CASE InitRestart
  <2> USE <1>5 DEF InitRestart, RefreshThen, Finish, ResetRam, flash
  <2>1. Backed(work.q) => pc' = "refresh" /\ ret' = "restart"
    BY DEF OrderlyWrites, SingleWrites, FixedWrites
  <2>2. ~Backed(work.q) => pc' = "idle" /\ ret' = "idle"
    OBVIOUS
  <2>3. pc' \in {"idle", "refresh"}
    OBVIOUS
  <2>4. EmptyImages'
    BY <2>1, <2>2, <2>3 DEF EmptyImages, ImageInSpare, IsImage, Void
  <2>5. OneHeader'
    BY <2>1, <2>2, <2>3 DEF OneHeader
  <2>6. ValidWork'
    BY <2>1, <2>2, <2>3 DEF ValidWork, ReclaimLabels
  <2>7. Records'
    BY <2>1, <2>2, <2>3 DEF Records, Backed, Faithful
  <2>8. KeptInSpare'
    BY <2>1, <2>2, <2>3 DEF KeptInSpare, Backed, Faithful
  <2>9. Copied'
    BY <2>1, <2>2, <2>3 DEF Copied
  <2>10. Recoverable'
    BY <2>1, <2>2, <2>3 DEF Recoverable, Backed
  <2>11. Available => Available'
    BY <2>1, <2>2, <2>3 DEF Available, Backed
  <2> QED
    BY <1>0, <2>4, <2>5, <2>6, <2>7, <2>8, <2>9, <2>10, <2>11
<1>6. CASE InitFinal
  <2> USE <1>6 DEF InitFinal, Finish, ResetRam
  <2>1. work.q \in Queues /\ work \in Works
    BY DEF TypeInv, TypeOK, Works
  <2>2. work'.q = SetComplete(work.q) /\ work'.state = work.state
    BY <2>1 DEF Works
  <2>3. work'.q = work.q \/ work'.q = Complete(work.q)
    BY <2>2 DEF SetComplete
  <2>4. /\ ~Complete(work.q).alloc
        /\ ~Complete(work.q).backed
        /\ Complete(work.q).record = {}
        /\ Complete(work.q).stray = work.q.stray
    BY DEF Complete, EmptyQueue
  <2>5. ~Backed(work.q)
    BY DEF KeptInSpare
  <2>6. EmptyImages'
    BY <2>1, <2>2, <2>3, <2>4, <2>5 DEF EmptyImages, ImageInSpare, IsImage,
       Void
  <2>7. OneHeader'
    BY <2>1, <2>2, <2>3, <2>4, <2>5 DEF OneHeader
  <2>8. ValidWork'
    BY <2>1, <2>2, <2>3, <2>4, <2>5 DEF ValidWork, ReclaimLabels
  <2>9. Records'
    BY <2>1, <2>2, <2>3, <2>4, <2>5 DEF Records, Backed, Faithful
  <2>10. KeptInSpare'
    BY <2>1, <2>2, <2>3, <2>4, <2>5 DEF KeptInSpare, Backed, Faithful
  <2>11. Copied'
    BY <2>1, <2>2, <2>3, <2>4, <2>5 DEF Copied
  <2>12. Recoverable'
    BY <2>1, <2>2, <2>3, <2>4, <2>5 DEF Recoverable, Backed
  <2>13. Available => Available'
    BY <2>1, <2>2, <2>3, <2>4, <2>5 DEF Available, Backed
  <2> QED
    BY <1>0, <2>6, <2>7, <2>8, <2>9, <2>10, <2>11, <2>12, <2>13
<1> QED
  BY <1>1, <1>2, <1>3, <1>4, <1>5, <1>6 DEF Boot

\* Calls and power losses, whatever is cut off by them.
LEMMA OutsideKeepsSafeInv ==
  ASSUME OrderlyWrites, SafeInv,
         Caller \/ PowerOn \/ PowerLoss \/ IoError \/ UNCHANGED vars
  PROVE  SafeInv' /\ (Available => Available' \/ pc = "abort")
<1> USE DEF SafeInv
<1>0. TypeInv'
  BY TypeInvKept DEF Next, Driver
<1>1. CASE Caller
  <2> USE <1>1 DEF Caller, Call, CallAllocate, CallWrite, CallRestart,
       CallAbort, CallGetLastWrite, flash
  <2>1. /\ pc = "idle"
        /\ pc' = "refresh"
        /\ ret' \in {"allocate", "write", "restart", "abort", "getlast"}
        /\ UNCHANGED <<flash, image, saved, extent, left>>
    OBVIOUS
  <2>2. op' = "allocate" => count' = 1
    BY DEF OrderlyWrites, SingleWrites, FixedWrites
  <2>3. ret' = "allocate" => op' = "allocate"
    OBVIOUS
  <2>4. Backed(work.q) => Failing # {}
    BY DEF KeptInSpare
  <2>5. EmptyImages'
    BY <2>1, <2>2, <2>3, <2>4 DEF EmptyImages, ImageInSpare, IsImage
  <2>6. OneHeader'
    BY <2>1, <2>2, <2>3, <2>4 DEF OneHeader
  <2>7. ValidWork'
    BY <2>1, <2>2, <2>3, <2>4 DEF ValidWork, ReclaimLabels
  <2>8. Records'
    BY <2>1, <2>2, <2>3, <2>4 DEF Records, Backed, Faithful
  <2>9. KeptInSpare'
    BY <2>1, <2>2, <2>3, <2>4 DEF KeptInSpare, Backed, Faithful
  <2>10. Copied'
    BY <2>1, <2>2, <2>3, <2>4 DEF Copied
  <2>11. Recoverable'
    BY <2>1, <2>2, <2>3, <2>4 DEF Recoverable, Backed
  <2>12. Available => Available'
    BY <2>1, <2>2, <2>3, <2>4 DEF Available, Backed
  <2> QED
    BY <1>0, <2>5, <2>6, <2>7, <2>8, <2>9, <2>10, <2>11, <2>12
<1>2. CASE PowerOn
  <2> USE <1>2 DEF PowerOn, flash
  <2>1. EmptyImages'
    BY DEF EmptyImages, ImageInSpare, IsImage
  <2>2. OneHeader'
    BY DEF OneHeader
  <2>3. ValidWork'
    BY DEF ValidWork, ReclaimLabels
  <2>4. Records'
    BY DEF Records, Backed, Faithful
  <2>5. KeptInSpare'
    BY DEF KeptInSpare, Backed, Faithful
  <2>6. Copied'
    BY DEF Copied
  <2>7. Recoverable'
    BY DEF Recoverable, Backed
  <2>8. Available => Available'
    BY DEF Available, Backed
  <2> QED
    BY <1>0, <2>1, <2>2, <2>3, <2>4, <2>5, <2>6, <2>7, <2>8
<1>3. CASE PowerLoss \/ IoError
  <2> USE <1>3 DEF PowerLoss, IoError, Finish, ResetRam
  <2>0. /\ pc' = "off" \/ (pc' = "idle" /\ Failing # {} /\ work' = work /\ work.state = "valid")
        /\ ret' = "idle" /\ op' = "none" /\ image' = EmptyQueue /\ saved' = Void
    <3>1. CASE PowerLoss
      BY <3>1
    <3>2. CASE IoError
      <4>1. pc \in FlashOperations \ ReclaimOps /\ Failing # {}
        BY <3>2 DEF OrderlyWrites, SingleWrites, FixedWrites
      <4>2. work' = work
        BY <3>2, <4>1 DEF Interrupted, flash, ReclaimOps
      <4>3. work.state = "valid"
        BY <4>1 DEF ValidWork, ReclaimLabels, ReclaimOps, FlashOperations
      <4> QED
        BY <3>2, <4>1, <4>2, <4>3
    <3> QED
      BY <1>3, <3>1, <3>2
  <2>1. /\ spare' = spare \/ \E v : spare' \in {Void, Image(v, Garbled)}
        /\ spare' # spare => ~Backed(work.q) /\ UNCHANGED <<target, work>>
    BY DEF Interrupted, CutOff, flash, KeptInSpare, Backed
  <2>2. /\ work' = work \/ work'.q \in {work.q, EmptyQueue, Garbled}
        /\ work' # work => ~work.q.alloc /\ UNCHANGED <<target, spare>>
    BY DEF Interrupted, flash, ValidWork, ReclaimLabels
  <2>3. \/ target' = target
        \/ /\ pc = "x_erase" /\ UNCHANGED <<spare, work>>
           /\ \A b \in Blocks : target[b] = Torn => target'[b] = Torn
           /\ \A b \in Blocks : target'[b] = Torn => b \in extent \/ target[b] = Torn
    BY DEF Interrupted, flash
  <2>4. \A v : IsImage(Image(v, Garbled)) /\ Image(v, Garbled).q = Garbled
    BY DEF Image, IsImage
  <2>5. ~IsImage(Void)
    BY DEF IsImage, Void
  <2>6. work'.q = work.q \/ (~work'.q.alloc /\ work'.q.record = {} /\ work'.q.stray = QueueSize)
    BY <2>2, ConstantQueues DEF OneHeader
  <2>7. work'.q.alloc => work' = work
    BY <2>2, ConstantQueues
  <2>8. Backed(work'.q) => work' = work /\ spare' = spare /\ Backed(work.q)
    BY <2>1, <2>7 DEF Backed
  <2>9. pc = "x_erase"
          => /\ Backed(work.q)
             /\ extent = DOMAIN spare.content
             /\ spare.kind = "data" /\ extent \subseteq Blocks
             /\ Available => \A b \in extent : spare.content[b] # Torn
    <3>1. pc = "x_erase"
            => /\ Backed(work.q) /\ extent = DOMAIN spare.content
               /\ spare.kind = "data" /\ extent \subseteq Blocks /\ Faithful
      BY DEF Records, Recoverable, KeptInSpare, TypeInv, TypeOK
    <3> QED
      BY <3>1 DEF Available, Faithful
  <2>10. Backed(work.q) => work' = work /\ spare' = spare
    BY <2>1, <2>2 DEF Backed
  <2>11. EmptyImages'
    BY <2>0, <2>1, <2>2, <2>3, <2>4, <2>5, <2>6, <2>7, <2>8, <2>9,
       <2>10 DEF EmptyImages, ImageInSpare, IsImage
  <2>12. OneHeader'
    BY <2>0, <2>1, <2>2, <2>3, <2>4, <2>5, <2>6, <2>7, <2>8, <2>9,
       <2>10 DEF OneHeader
  <2>13. ValidWork'
    BY <2>0, <2>1, <2>2, <2>3, <2>4, <2>5, <2>6, <2>7, <2>8, <2>9,
       <2>10 DEF ValidWork, ReclaimLabels
  <2>14. Records'
    BY <2>0, <2>1, <2>2, <2>3, <2>4, <2>5, <2>6, <2>7, <2>8, <2>9,
       <2>10 DEF Records, Backed, Faithful
  <2>15. KeptInSpare'
    BY <2>0, <2>1, <2>2, <2>3, <2>4, <2>5, <2>6, <2>7, <2>8, <2>9,
       <2>10 DEF KeptInSpare, Backed, Faithful
  <2>16. Copied'
    BY <2>0, <2>1, <2>2, <2>3, <2>4, <2>5, <2>6, <2>7, <2>8, <2>9,
       <2>10 DEF Copied
  <2>17. Recoverable'
    BY <2>0, <2>1, <2>2, <2>3, <2>4, <2>5, <2>6, <2>7, <2>8, <2>9,
       <2>10 DEF Recoverable, Backed
  <2>18. Available => Available'
    BY <2>0, <2>1, <2>2, <2>3, <2>4, <2>5, <2>6, <2>7, <2>8, <2>9,
       <2>10 DEF Available, Backed, KeptInSpare
  <2> QED
    BY <1>0, <2>11, <2>12, <2>13, <2>14, <2>15, <2>16, <2>17, <2>18
<1>4. CASE UNCHANGED vars
  <2> USE <1>4 DEF vars, flash, ram
  <2>1. EmptyImages'
    BY DEF EmptyImages, ImageInSpare, IsImage
  <2>2. OneHeader'
    BY DEF OneHeader
  <2>3. ValidWork'
    BY DEF ValidWork, ReclaimLabels
  <2>4. Records'
    BY DEF Records, Backed, Faithful
  <2>5. KeptInSpare'
    BY DEF KeptInSpare, Backed, Faithful
  <2>6. Copied'
    BY DEF Copied
  <2>7. Recoverable'
    BY DEF Recoverable, Backed
  <2>8. Available => Available'
    BY DEF Available, Backed
  <2> QED
    BY <1>0, <2>1, <2>2, <2>3, <2>4, <2>5, <2>6, <2>7, <2>8
<1> QED
  BY <1>1, <1>2, <1>3, <1>4

\* A blank flash has nothing to lose.
LEMMA InitSafe == Init => SafeInv
<1> SUFFICES ASSUME Init PROVE SafeInv
  OBVIOUS
<1> USE DEF Init
<1>1. TypeInv
  BY InitTypeInv
<1>2. ~Backed(work.q) /\ ~IsImage(spare) /\ ~IsImage(saved) /\ work.q = EmptyQueue
  BY DEF Backed, EmptyQueue, IsImage, Void
<1>3. EmptyImages /\ OneHeader /\ ValidWork
  BY <1>2 DEF EmptyImages, ImageInSpare, OneHeader, ValidWork, ReclaimLabels, EmptyQueue
<1>4. Records /\ KeptInSpare /\ Copied /\ Recoverable
  BY <1>2 DEF Records, KeptInSpare, Copied, Recoverable, EmptyQueue
<1>5. Available
  BY ConstantsAssumption DEF Available
<1> QED
  BY <1>1, <1>3, <1>4, <1>5 DEF SafeInv

\* Every step keeps SafeInv, and what is available, unless it is an abort.
LEMMA SafeInvKept ==
  ASSUME OrderlyWrites, SafeInv, [Next]_vars
  PROVE  SafeInv' /\ (Available => Available' \/ pc = "abort")
BY ReclaimKeepsSafeInv, WriteKeepsSafeInv, RecoverKeepsSafeInv,
   BootKeepsSafeInv, OutsideKeepsSafeInv DEF Next, Driver

\* SafeInv is an inductive invariant.
LEMMA SafeInvInvariant ==
  ASSUME OrderlyWrites
  PROVE  Spec => []SafeInv
<1>1. SafeInv /\ [Next]_vars => SafeInv'
  BY SafeInvKept
<1> QED
  BY InitSafe, <1>1, PTL DEF Spec

\* Where every allocation is for one record, the target's protocol is there at
\* boot, and either the flash works or callers rewrite always the same blocks
\* and no reclaim fails: the content of a write that FtwRestart has still to
\* finish is in the spare area, with one legible record of where it goes.
THEOREM WritesRecoverable ==
  ASSUME OrderlyWrites
  PROVE  Spec => []Recoverable
<1>1. SafeInv => Recoverable
  BY DEF SafeInv
<1> QED
  BY SafeInvInvariant, <1>1, PTL

\* Under the same assumption the header that FtwAllocate has written is the
\* one every later walk over the work space finds.
THEOREM WritesAllocateGranted ==
  ASSUME OrderlyWrites
  PROVE  Spec => []AllocateGranted
<1>1. SafeInv => AllocateGranted
  BY DEF SafeInv, OneHeader, AllocateGranted
<1> QED
  BY SafeInvInvariant, <1>1, PTL

\* Under the same assumption content is lost only where a caller aborts the
\* write that has it in the spare area, whatever fails and whenever the power
\* goes: FtwWrite, FtwRestart, a reclaim and initialization lose nothing.
THEOREM WritesLostOnlyByAbort ==
  ASSUME OrderlyWrites
  PROVE  Spec => LostOnlyByAbort
<1>1. SafeInv /\ [Next]_vars => [Available => Available' \/ pc = "abort"]_vars
  BY SafeInvKept
<1> QED
  BY SafeInvInvariant, <1>1, PTL DEF Spec, LostOnlyByAbort

\* Where the flash works no block of the target is ever lost: its content is in
\* place or in the spare area of a write that will be restarted.
THEOREM SingleWritesAvailable ==
  ASSUME SingleWrites
  PROVE  Spec => []Available
<1>1. OrderlyWrites
  BY DEF OrderlyWrites
<1>2. SafeInv => Available
  BY DEF SafeInv, SingleWrites
<1> QED
  BY SafeInvInvariant, <1>1, <1>2, PTL

-----------------------------------------------------------------------------
(********************** AtomicStore is implemented *************************)

\* Where every allocation is for one record, each step is, under the mapping
\* Logical, InFlight, a step of AtomicStore or a stutter.

\* What the mapping needs and the safety of the flash does not: what the spare
\* area is filled with is the merge of the request into the target.
Mapping ==
  /\ pc \in {"idle", "off"} => op = "none"
  /\ pc \in ReclaimOps => ret # "idle"
  /\ pc \in {"w_record", "w_erase", "w_data", "w_spared"} => extent = Extent(request)
  /\ pc = "w_spared" => spare.content = Merged

MapInv == SafeInv /\ Mapping
-----------------------------------------------------------------------------
(********************** Proof that MapInv is inductive *********************)

\* Every step keeps Mapping.
LEMMA MappingKept ==
  ASSUME SingleWrites, MapInv, [Next]_vars
  PROVE  Mapping'
<1> USE DEF MapInv, Mapping, ReclaimOps
<1>0. SafeInv'
  BY SafeInvKept DEF OrderlyWrites
<1>1. CASE Refresh \/ Reclaim
  <2>1. pc = "refresh" => ret \in RefreshTargets
    BY DEF SafeInv, TypeInv, Serves
  <2>2. pc \in ReclaimOps => ret \in Continuations
    BY DEF SafeInv, TypeInv, Serves
  <2>3. ret # "alloc_header"
    BY DEF SafeInv, EmptyImages
  <2> QED
    BY <1>1, <2>1, <2>2, <2>3 DEF Refresh, Reclaim, ReclaimErase, ReclaimImage,
       ReclaimValid, ReclaimInvalid, FlushInvalid, FlushErase, FlushImage,
       FlushValid, ReclaimErase2, ReclaimRestore, SetWork, SetSpare, Goto,
       RefreshThen, ReclaimThen, ram, RefreshTargets, Continuations
<1>2. CASE Allocate \/ AllocateHeader \/ AllocateWrites \/ Write \/ WriteRecordHeader
  BY <1>2 DEF Allocate, AllocateHeader, AllocateWrites, Write, WriteRecordHeader,
     SetWork, Goto, Finish, ResetRam, ram, flash
<1>3. CASE WriteErase \/ WriteData \/ WriteSpared \/ WriteErase2 \/ WriteRestore
  BY <1>3 DEF WriteErase, WriteData, WriteSpared, WriteErase2, WriteRestore,
     SetWork, SetSpare, Goto, Finish, ResetRam, ram, Merged, Backup, Extent, Changed
<1>4. CASE TargetErase \/ TargetData
  BY <1>4 DEF TargetErase, TargetData
<1>5. CASE TargetDest \/ TargetComplete \/ Recover
  BY <1>5 DEF TargetDest, TargetComplete, Recorded, Recover, Restart, RestartErase, Abort,
     GetLastWrite, SetWork, SetSpare, RefreshThen, Goto, Finish, ResetRam, ram, flash
<1>6. CASE Boot
  BY <1>6 DEF Boot, InitCheck, InitFlushed, InitFirst, InitTrailing, InitRestart, InitFinal,
     SetWork, RefreshThen, ReclaimThen, Goto, Finish, ResetRam, ram, flash
<1>7. CASE Caller \/ PowerOn \/ PowerLoss \/ IoError
  BY <1>7 DEF Caller, CallAllocate, CallWrite, CallRestart, CallAbort, CallGetLastWrite,
     Call, PowerOn, PowerLoss, IoError, Finish, ResetRam, flash
<1>8. CASE UNCHANGED vars
  BY <1>8 DEF vars, flash, ram, Merged, Extent, Changed
<1> QED
  BY <1>1, <1>2, <1>3, <1>4, <1>5, <1>6, <1>7, <1>8 DEF Next, Driver, WriteRecord

\* MapInv is an inductive invariant.
LEMMA MapInvInvariant ==
  ASSUME SingleWrites
  PROVE  Spec => []MapInv
<1>1. Init => MapInv
  BY InitSafe DEF Init, MapInv, Mapping, ReclaimOps
<1>2. MapInv /\ [Next]_vars => MapInv'
  BY SafeInvKept, MappingKept DEF MapInv, OrderlyWrites
<1> QED
  BY <1>1, <1>2, PTL DEF Spec
-----------------------------------------------------------------------------
(*************************** Steps of the mapping **************************)

\* Where no write is pending the blocks themselves are what a reader finds.
LEMMA NothingPending ==
  ASSUME ~Backed(work.q), ~Backed(work.q)', UNCHANGED target
  PROVE  UNCHANGED Logical
  BY DEF Logical

\* The extent of a request and what it changes are blocks.
LEMMA RequestBlocks ==
  ASSUME NEW r \in Requests
  PROVE  Changed(r) \subseteq Extent(r) /\ Extent(r) \subseteq Blocks /\ r.value \in Data
<1>1. /\ r.range \in [lba : Blocks, first : Blocks, last : Blocks]
      /\ r.range.lba <= r.range.first /\ r.range.first <= r.range.last
      /\ r.value \in Data
  BY ConstantsAssumption DEF Requests
<1> QED
  BY <1>1, ConstantsAssumption DEF Changed, Extent, Blocks

\* A write that was asked for is a request of AtomicStore.
LEMMA InFlightType ==
  ASSUME NEW r \in Requests
  PROVE  LET w == [keys |-> Changed(r), value |-> r.value]
         IN  w \in Store!Requests /\ w # NoRequest
<1>1. [keys |-> Changed(r), value |-> r.value] \in [keys : SUBSET Blocks, value : Data]
  BY RequestBlocks
<1> QED
  BY <1>1, ConstantsAssumption DEF Store!Requests

\* A step that leaves the request and its way to the spare area alone, and the
\* blocks as a reader finds them, is a stutter.
LEMMA Unmoved ==
  ASSUME UNCHANGED <<Logical, InFlight>>
  PROVE  UNCHANGED Store!vars
  BY DEF Store!vars

\* A step that ends the write before it is in the spare area drops it.
LEMMA Dropped ==
  ASSUME UNCHANGED Logical, InFlight' \in {InFlight, NoRequest}
  PROVE  [Store!Next]_(Store!vars)
<1>1. CASE InFlight' = InFlight
  BY <1>1, Unmoved
<1>2. CASE InFlight' # InFlight
  BY <1>2 DEF Store!Next, Store!Drop
<1> QED
  BY <1>1, <1>2

WriteSteps ==
  {"x_erase", "x_data", "x_dest", "x_complete", "w_rerase", "w_restore"}

\* Where the flash is not written a reader finds what there was; where no write
\* is pending before and after, too.
LEMMA QuietSteps ==
  ASSUME SingleWrites, MapInv, MapInv', UNCHANGED target,
         \/ UNCHANGED <<spare, work>>
         \/ ~Backed(work.q) /\ ~Backed(work.q)',
         \/ UNCHANGED <<op, request>> /\ (pc' \in WriteSteps <=> pc \in WriteSteps)
         \/ op' # "write" \/ pc' \in WriteSteps
  PROVE  [Store!Next]_(Store!vars)
<1>1. UNCHANGED Logical
  BY NothingPending DEF Logical, Backed
<1>2. InFlight' \in {InFlight, NoRequest}
  BY DEF InFlight, WriteSteps, Changed
<1> QED
  BY <1>1, <1>2, Dropped

\* The spare area is complete: the write has taken effect.
LEMMA WriteSparedCommits ==
  ASSUME MapInv, WriteSpared
  PROVE  Store!Commit
<1> USE DEF MapInv
<1>1. /\ pc = "w_spared" /\ pc' = "x_erase"
      /\ work' = [state |-> work.state, q |-> [work.q EXCEPT !.backed = TRUE]]
      /\ UNCHANGED <<target, spare, op, request>>
  BY DEF WriteSpared, SetWork, Goto, ram
<1>2. op = "write" /\ request \in Requests
  BY <1>1 DEF SafeInv, TypeInv, Serves, WriteLabels
<1>3. InFlight = [keys |-> Changed(request), value |-> request.value] /\ InFlight' = NoRequest
  BY <1>1, <1>2 DEF InFlight
<1>4. InFlight # NoRequest
  BY <1>2, <1>3, InFlightType
<1>5. work.q.alloc /\ ~work.q.backed /\ work.q \in Queues
  BY <1>1 DEF SafeInv, TypeInv, HasRecord, RecordLabels, Records, Fits, FitQueue
<1>6. Backed(work'.q) /\ ~Backed(work.q)
  BY <1>1, <1>5 DEF Backed, Queues
<1>7. spare.kind = "data" /\ spare.content = Merged /\ extent = Extent(request)
  BY <1>1 DEF Mapping, SafeInv, Records
<1>8. Logical = target
  <2>1. target \in [Blocks -> Data \cup {Torn}]
    BY DEF SafeInv, TypeInv, TypeOK
  <2> QED
    BY <2>1, <1>6 DEF Logical
<1>9. Logical' = [b \in Blocks |-> IF b \in Changed(request) THEN request.value ELSE target[b]]
  BY <1>1, <1>2, <1>6, <1>7, RequestBlocks DEF Logical, Merged
<1> QED
  BY <1>3, <1>4, <1>8, <1>9 DEF Store!Commit

\* A caller submits a write.
LEMMA CallerSubmits ==
  ASSUME SingleWrites, MapInv, MapInv', Caller
  PROVE  [Store!Next]_(Store!vars)
<1> USE DEF MapInv, Call, flash
<1>1. CASE CallAllocate \/ CallRestart \/ CallAbort \/ CallGetLastWrite
  BY <1>1, QuietSteps DEF CallAllocate, CallRestart, CallAbort, CallGetLastWrite
<1>2. CASE CallWrite
  <2>1. PICK r \in Requests : Call("write", "write", 0, r)
    BY <1>2 DEF CallWrite
  <2>2. UNCHANGED Logical
    BY <2>1 DEF Logical, Backed
  <2>3. InFlight = NoRequest
    BY <2>1 DEF Mapping, InFlight
  <2>4. InFlight' = [keys |-> Changed(r), value |-> r.value]
    BY <2>1 DEF InFlight
  <2> QED
    BY <2>2, <2>3, <2>4, InFlightType DEF Store!Next, Store!Submit
<1> QED
  BY <1>1, <1>2 DEF Caller

\* The target is rewritten with what a reader finds already.
LEMMA TargetSteps ==
  ASSUME SingleWrites, MapInv, MapInv', WriteRecord
  PROVE  [Store!Next]_(Store!vars)
<1> USE DEF MapInv
<1>1. CASE TargetErase \/ TargetData
  <2>1. /\ spare.kind = "data" /\ DOMAIN spare.content = extent
        /\ Backed(work.q) /\ UNCHANGED <<spare, work, op, request>>
        /\ pc \in WriteSteps /\ pc' \in WriteSteps
    BY <1>1 DEF TargetErase, TargetData, SafeInv, Records, Recoverable, WriteSteps
  <2>2. /\ target \in [Blocks -> Data \cup {Torn}]
        /\ TargetData => left \subseteq extent
    BY DEF SafeInv, TypeInv, TypeOK, HasRecord, TargetData
  <2>3. \A b \in Blocks \ extent : target'[b] = target[b]
    BY <1>1, <2>2 DEF TargetErase, TargetData
  <2>4. UNCHANGED Logical
    BY <2>1, <2>3 DEF Logical, Backed
  <2>5. UNCHANGED InFlight
    BY <2>1 DEF InFlight, WriteSteps, Changed
  <2> QED
    BY <2>4, <2>5, Unmoved
<1>2. CASE TargetDest
  <2>1. /\ spare.kind = "data" /\ DOMAIN spare.content = extent /\ Backed(work.q)
        /\ \A b \in extent : target[b] = spare.content[b]
        /\ UNCHANGED <<target, spare, op, request>>
        /\ pc \in WriteSteps /\ (pc' \in WriteSteps \/ op # "write")
    BY <1>2 DEF TargetDest, SetWork, Goto, ram, Recorded, SafeInv, Records, Recoverable,
       Copied, WriteSteps
  <2>2. ~Backed(work.q)'
    BY <1>2, <2>1 DEF TargetDest, SetWork, Goto, Recorded, SafeInv, KeptInSpare, SingleWrites
  <2>3. UNCHANGED Logical
    BY <2>1, <2>2 DEF Logical
  <2>4. InFlight' \in {InFlight, NoRequest}
    BY <2>1 DEF InFlight, WriteSteps, Changed
  <2> QED
    BY <2>3, <2>4, Dropped
<1>3. CASE TargetComplete
  <2>1. ~Backed(work.q) /\ ~Backed(work.q)'
    BY <1>3 DEF TargetComplete, SetWork, Goto, Recorded, SafeInv, KeptInSpare, SingleWrites
  <2>2. UNCHANGED <<target, op, request>> /\ (pc' \in WriteSteps \/ op' # "write")
    BY <1>3 DEF TargetComplete, SetWork, Goto, ram, Recorded, WriteSteps
  <2> QED
    BY <2>1, <2>2, QuietSteps
<1> QED
  BY <1>1, <1>2, <1>3 DEF WriteRecord

\* A refresh, a reclaim and what prepares a write change nothing for a reader.
LEMMA PreparingSteps ==
  ASSUME SingleWrites, MapInv, MapInv',
         \/ Refresh \/ Reclaim
         \/ Allocate \/ AllocateHeader \/ AllocateWrites
         \/ Write \/ WriteRecordHeader \/ WriteErase \/ WriteData
         \/ WriteErase2 \/ WriteRestore
  PROVE  [Store!Next]_(Store!vars)
<1> USE DEF MapInv
<1>1. CASE Refresh
  <2>1. pc' \notin WriteSteps
    BY <1>1 DEF SafeInv, TypeInv, Serves, Refresh, ReclaimThen, Goto, RefreshTargets, WriteSteps
  <2> QED
    BY <1>1, <2>1, QuietSteps DEF Refresh, ReclaimThen, Goto, flash, ram, WriteSteps
<1>2. CASE Reclaim
  <2>1. UNCHANGED <<target, op, request>> /\ pc \in ReclaimOps
    BY <1>2 DEF Reclaim, ReclaimErase, ReclaimImage,
       ReclaimValid, ReclaimInvalid, FlushInvalid, FlushErase, FlushImage,
       FlushValid, ReclaimErase2, ReclaimRestore, SetWork, SetSpare, Goto,
       RefreshThen, ram, ReclaimOps
  <2>2. ~Backed(work.q)
    BY <2>1 DEF SafeInv, KeptInSpare, SingleWrites, ReclaimOps
  <2>3. pc' \notin WriteSteps /\ pc \notin WriteSteps
    <3>1. pc \in ReclaimOps => ret \in Continuations
      BY DEF SafeInv, TypeInv, Serves
    <3> QED
      BY <1>2, <2>1, <3>1 DEF Reclaim, ReclaimErase, ReclaimImage,
       ReclaimValid, ReclaimInvalid, FlushInvalid, FlushErase, FlushImage,
       FlushValid, ReclaimErase2, ReclaimRestore, SetWork, SetSpare, Goto,
       RefreshThen, ram, ReclaimOps, WriteSteps, Continuations, RefreshTargets
  <2>4. ~Backed(work.q)'
    <3>1. UNCHANGED work \/ pc' \in ReclaimOps \/ (pc' = "refresh" /\ ret' = "init_flushed")
      BY <1>2, <2>1 DEF Reclaim, ReclaimErase, ReclaimImage,
       ReclaimValid, ReclaimInvalid, FlushInvalid, FlushErase, FlushImage,
       FlushValid, ReclaimErase2, ReclaimRestore, SetWork, SetSpare, Goto,
       RefreshThen, ram, ReclaimOps
    <3> QED
      BY <2>2, <3>1 DEF SafeInv, KeptInSpare, SingleWrites, ReclaimOps
  <2> QED
    BY <2>1, <2>2, <2>3, <2>4, QuietSteps
<1>3. CASE Allocate \/ Write
  BY <1>3, QuietSteps DEF Allocate, Write, Finish, ResetRam, flash, WriteSteps
<1>4. CASE AllocateHeader \/ AllocateWrites \/ WriteRecordHeader \/ WriteErase \/ WriteData
           \/ WriteErase2 \/ WriteRestore
  <2>1. UNCHANGED target
    BY <1>4 DEF AllocateHeader, AllocateWrites, WriteRecordHeader, WriteErase, WriteData,
       WriteErase2, WriteRestore, SetWork, SetSpare
  <2>2. ~Backed(work.q) /\ ~Backed(work.q)'
    BY <1>4 DEF AllocateHeader, AllocateWrites, WriteRecordHeader, WriteErase, WriteData,
       WriteErase2, WriteRestore, SetWork, SetSpare, Goto, Finish, SafeInv, KeptInSpare,
       SingleWrites
  <2>3. \/ UNCHANGED <<op, request>> /\ (pc' \in WriteSteps <=> pc \in WriteSteps)
        \/ op' # "write"
    BY <1>4 DEF AllocateHeader, AllocateWrites, WriteRecordHeader, WriteErase, WriteData,
       WriteErase2, WriteRestore, SetWork, SetSpare, Goto, Finish, ResetRam, ram, WriteSteps
  <2> QED
    BY <2>1, <2>2, <2>3, QuietSteps
<1> QED
  BY <1>1, <1>2, <1>3, <1>4

\* What restarts, aborts or completes a write leaves the blocks alone.
LEMMA RecoverSteps ==
  ASSUME SingleWrites, MapInv, MapInv', Recover
  PROVE  [Store!Next]_(Store!vars)
<1> USE DEF MapInv
<1>1. CASE Restart
  <2>1. UNCHANGED <<target, spare, work>> /\ (op' # "write" \/ pc' \in WriteSteps)
    BY <1>1 DEF Restart, Finish, ResetRam, flash, WriteSteps
  <2> QED
    BY <2>1, QuietSteps
<1>2. CASE RestartErase \/ Abort \/ GetLastWrite
  <2>1. /\ UNCHANGED target /\ pc \in {"r_erase", "abort", "getlast"}
        /\ pc' \in {"idle", "refresh"} /\ (pc' = "refresh" => ret' = "init_final")
    BY <1>2 DEF RestartErase, Abort, GetLastWrite, RefreshThen, Finish, ResetRam
  <2>2. ~Backed(work.q) /\ ~Backed(work.q)'
    BY <2>1 DEF SafeInv, KeptInSpare, SingleWrites
  <2>3. op' # "write"
    BY <1>2 DEF RestartErase, Abort, GetLastWrite, RefreshThen, Finish, ResetRam
  <2> QED
    BY <2>1, <2>2, <2>3, QuietSteps
<1> QED
  BY <1>1, <1>2 DEF Recover

\* Initialization abandons no write that is pending.
LEMMA BootSteps ==
  ASSUME SingleWrites, MapInv, MapInv', Boot
  PROVE  [Store!Next]_(Store!vars)
<1> USE DEF MapInv
<1>1. \/ UNCHANGED <<op, request>> /\ pc' \notin WriteSteps /\ pc \notin WriteSteps
      \/ op' # "write"
  BY DEF Boot, InitCheck, InitFlushed, InitFirst, InitTrailing, InitRestart, InitFinal,
     SetWork, RefreshThen, ReclaimThen, Goto, Finish, ResetRam, ram, flash, WriteSteps
<1>2. UNCHANGED target
  BY DEF Boot, InitCheck, InitFlushed, InitFirst, InitTrailing, InitRestart, InitFinal,
     SetWork, flash
<1>3. CASE InitCheck \/ InitTrailing \/ InitRestart
  <2>1. UNCHANGED <<spare, work>>
    BY <1>3 DEF InitCheck, InitTrailing, InitRestart, flash
  <2> QED
    BY <1>1, <1>2, <2>1, QuietSteps
<1>4. CASE InitFlushed \/ InitFinal
  <2>1. ~Backed(work.q) /\ ~Backed(work.q)'
    BY <1>4 DEF InitFlushed, InitFinal, RefreshThen, Finish, SafeInv, KeptInSpare,
       SingleWrites
  <2> QED
    BY <1>1, <1>2, <2>1, QuietSteps
<1>5. CASE InitFirst
  <2>1. /\ UNCHANGED spare /\ work' = [state |-> work.state,
             q |-> IF Abandoned(work.q) THEN Complete(work.q) ELSE work.q]
    BY <1>5 DEF InitFirst, SetWork
  <2>2. CASE Abandoned(work.q)
    <3>1. FitQueue(work.q) /\ (work.q.alloc => work.q.n = 1)
      BY DEF SafeInv, TypeInv, Fits, OneHeader
    <3>2. ~Backed(work.q)
      BY <2>2, <3>1 DEF Backed, Abandoned, FitQueue, Queues
    <3>3. ~Backed(work.q)'
      <4>1. ~Complete(work.q).alloc
        BY ConstantQueuesFit DEF Complete, EmptyQueue, FitQueue, Queues
      <4> QED
        BY <2>1, <2>2, <4>1 DEF Backed
    <3> QED
      BY <1>1, <1>2, <3>2, <3>3, QuietSteps
  <2>3. CASE ~Abandoned(work.q)
    <3>1. UNCHANGED work
      BY <2>1, <2>3 DEF SafeInv, TypeInv, TypeOK, Works
    <3> QED
      BY <1>1, <1>2, <2>1, <3>1, QuietSteps
  <2> QED
    BY <2>2, <2>3
<1> QED
  BY <1>3, <1>4, <1>5 DEF Boot

\* A power loss drops the write, or leaves its content in the spare area.
LEMMA PowerSteps ==
  ASSUME SingleWrites, MapInv, MapInv', PowerOn \/ PowerLoss \/ IoError
  PROVE  [Store!Next]_(Store!vars)
<1> USE DEF MapInv
<1>1. CASE PowerOn
  BY <1>1, QuietSteps DEF PowerOn, flash
<1>2. CASE IoError
  BY <1>2 DEF IoError, SingleWrites
<1>3. CASE PowerLoss
  <2>1. op' # "write" /\ pc' = "off" /\ pc # "off"
    BY <1>3 DEF PowerLoss, ResetRam
  <2>2. CASE UNCHANGED flash
    BY <2>1, <2>2, QuietSteps DEF flash
  <2>3. CASE /\ pc \in {"rc_erase", "rc_rerase", "w_erase", "w_rerase", "r_erase",
                        "rc_restore", "w_restore"}
             /\ UNCHANGED <<target, work>>
    <3>1. ~Backed(work.q) /\ ~Backed(work.q)'
      BY <2>3 DEF SafeInv, KeptInSpare, SingleWrites
    <3> QED
      BY <2>1, <2>3, <3>1, QuietSteps
  <2>4. CASE /\ pc = "fl_erase"
             /\ work' \in [state : {"bad", work.state}, q : {work.q, EmptyQueue, Garbled}]
             /\ UNCHANGED <<target, spare>>
    <3>1. ~Backed(work.q) /\ ~Backed(work.q)'
      BY <2>4, ConstantQueues DEF SafeInv, KeptInSpare, SingleWrites, Backed
    <3> QED
      BY <2>1, <2>4, <3>1, QuietSteps
  <2>5. CASE /\ pc = "fl_image"
             /\ work' \in [state : {"bad", "fresh"}, q : {EmptyQueue, Garbled}]
             /\ UNCHANGED <<target, spare>>
    <3>1. ~Backed(work.q) /\ ~Backed(work.q)'
      BY <2>5, ConstantQueues DEF SafeInv, KeptInSpare, SingleWrites, Backed
    <3> QED
      BY <2>1, <2>5, <3>1, QuietSteps
  <2>6. CASE /\ pc = "x_erase"
             /\ \E cut \in SUBSET extent :
                  target' = [b \in Blocks |-> IF b \in cut THEN Torn ELSE target[b]]
             /\ UNCHANGED <<spare, work>>
    <3>1. spare.kind = "data" /\ DOMAIN spare.content = extent /\ Backed(work.q)
      BY <2>6 DEF SafeInv, Records, Recoverable
    <3>2. UNCHANGED Logical
      BY <2>6, <3>1 DEF Logical, Backed
    <3>3. InFlight' = NoRequest
      BY <2>1 DEF InFlight
    <3> QED
      BY <3>2, <3>3, Dropped
  <2> QED
    BY <1>3, <2>2, <2>3, <2>4, <2>5, <2>6 DEF PowerLoss, Interrupted
<1> QED
  BY <1>1, <1>2, <1>3

\* Every step is a step of AtomicStore or a stutter.
LEMMA StepsMap ==
  ASSUME SingleWrites, MapInv, MapInv', [Next]_vars
  PROVE  [Store!Next]_(Store!vars)
<1>1. CASE WriteSpared
  BY <1>1, WriteSparedCommits DEF Store!Next
<1>2. CASE Next /\ ~WriteSpared
  BY <1>2, PreparingSteps, TargetSteps, RecoverSteps, BootSteps, CallerSubmits, PowerSteps
     DEF Next, Driver
<1>3. CASE UNCHANGED vars
  BY <1>3, QuietSteps DEF vars, flash, ram, WriteSteps
<1> QED
  BY <1>1, <1>2, <1>3

\* A blank flash is a store in which no write is in flight.
LEMMA InitMaps == Init => Store!Init
<1> SUFFICES ASSUME Init PROVE Store!Init
  OBVIOUS
<1>1. ~Backed(work.q)
  BY DEF Init, Backed, EmptyQueue
<1>2. Logical = target
  BY <1>1 DEF Init, Logical
<1>3. InFlight = NoRequest
  BY DEF Init, InFlight
<1> QED
  BY <1>2, <1>3 DEF Init, Store!Init

\* Where every allocation is for one record, the flash works and the target's
\* protocol is there at boot, whatever the power does a write changes all of its
\* blocks at once or none, no other block, and is never undone.
THEOREM SingleWritesAtomic ==
  ASSUME SingleWrites
  PROVE  Spec => AtomicWrites
<1>1. MapInv /\ MapInv' /\ [Next]_vars => [Store!Next]_(Store!vars)
  BY StepsMap
<1> QED
  BY MapInvInvariant, InitMaps, <1>1, PTL DEF Spec, AtomicWrites, Store!Spec
=============================================================================
