------------------------ MODULE MCFaultTolerantWrite ------------------------
(***************************************************************************)
(* Values of Ranges and Failing for the runs of FaultTolerantWrite.        *)
(***************************************************************************)
EXTENDS FaultTolerantWrite

\* Every range of blocks, whole or in part.
AllRanges ==
  {r \in [lba : Blocks, first : Blocks, last : Blocks] :
     r.lba <= r.first /\ r.first <= r.last}

\* A caller that always rewrites the same range, like the variable driver.
OneRange == {[lba |-> 1, first |-> NumBlocks, last |-> NumBlocks]}

\* The flash operations of a reclaim, and those of everything else.
ReclaimOperations ==
  {"rc_erase", "rc_image", "rc_valid", "rc_invalid", "fl_invalid", "fl_erase",
   "fl_image", "fl_valid", "rc_rerase", "rc_restore"}

WriteOperations == FlashOperations \ ReclaimOperations
=============================================================================
