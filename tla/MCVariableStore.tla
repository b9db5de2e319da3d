--------------------------- MODULE MCVariableStore ---------------------------
(***************************************************************************)
(* Values of DataSize and Hobs for the runs of VariableStore.              *)
(***************************************************************************)
EXTENDS VariableStore

CONSTANTS v1, v2, a

\* A short content and a long one.
TwoSizes == [v \in Values |-> IF v = v1 THEN 1 ELSE 2]

OneSize == [v \in Values |-> 1]

NoHob == {[n \in Names |-> NoValue]}

\* PEI leaves nothing, or one variable.
OneInHob == NoHob \cup {[n \in Names |-> IF n = a THEN v1 ELSE NoValue]}

\* PEI leaves one variable, with a long content.
LongInHob == {[n \in Names |-> IF n = a THEN v2 ELSE NoValue]}
=============================================================================
