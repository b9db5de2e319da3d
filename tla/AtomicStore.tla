---------------------------- MODULE AtomicStore ----------------------------
(***************************************************************************)
(* What the drivers that keep data in flash promise their callers: a store *)
(* in which a submitted write either takes effect on all of its keys at    *)
(* once or not at all, whatever the power does.  A write that has taken    *)
(* effect is never undone.                                                 *)
(*                                                                         *)
(* The Fault Tolerant Write driver keeps it for the blocks of a volume,    *)
(* the variable driver for its non-volatile variables.                     *)
(***************************************************************************)
CONSTANTS Keys,   \* what can be read and written
          Data,   \* the contents a key can have
          None    \* no write is in flight

VARIABLES store,    \* the contents every reader will eventually find
          inflight  \* the write that was submitted and has not taken effect

vars == <<store, inflight>>

Requests == [keys : SUBSET Keys, value : Data]

Init ==
  /\ store \in [Keys -> Data]
  /\ inflight = None

Submit(request) ==
  /\ inflight = None
  /\ inflight' = request
  /\ UNCHANGED store

Commit ==
  /\ inflight # None
  /\ store' = [k \in Keys |-> IF k \in inflight.keys
                              THEN inflight.value ELSE store[k]]
  /\ inflight' = None

\* The caller is told of a failure, or the power is lost before the commit.
Drop ==
  /\ inflight # None
  /\ inflight' = None
  /\ UNCHANGED store

Next ==
  \/ \E request \in Requests : Submit(request)
  \/ Commit
  \/ Drop

Spec == Init /\ [][Next]_vars
=============================================================================
