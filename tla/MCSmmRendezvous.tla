--------------------------- MODULE MCSmmRendezvous ---------------------------
(***************************************************************************)
(* Configurations for the runs of SmmRendezvous.                           *)
(***************************************************************************)
EXTENDS SmmRendezvous

\* The platform of this repository.
Platform == [cpus |-> N, sync |-> "traditional", mtrr |-> FALSE, elect |-> FALSE,
             block |-> TRUE, status |-> FALSE, prompt |-> TRUE]

\* The relaxed mode, and procedures that do not block.
Relaxed == [Platform EXCEPT !.sync = "relaxed", !.block = FALSE]

\* Two processors that program MTRRs, elect the BSP, have a status bit.
TwoWithMtrrs == [Platform EXCEPT !.cpus = 2, !.mtrr = TRUE]
TwoElecting  == [Platform EXCEPT !.cpus = 2, !.elect = TRUE, !.status = TRUE]
TwoRelaxed   == [Relaxed EXCEPT !.cpus = 2, !.elect = TRUE, !.status = TRUE]
TwoMixed     == [TwoRelaxed EXCEPT !.mtrr = TRUE]

\* The platform's mode, where a processor may be held up anywhere.
HeldUp == [Platform EXCEPT !.prompt = FALSE]

\* So in the relaxed mode, with MTRRs to program.
HeldUpMtrrs == [HeldUp EXCEPT !.cpus = 2, !.sync = "relaxed", !.mtrr = TRUE]

PromptModes == {Platform, Relaxed, TwoWithMtrrs, TwoElecting, TwoRelaxed, TwoMixed}
MainModes   == PromptModes \cup {HeldUpMtrrs}
HeldUpModes == {HeldUp}
=============================================================================
