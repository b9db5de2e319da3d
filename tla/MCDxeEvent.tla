----------------------------- MODULE MCDxeEvent -----------------------------
(***************************************************************************)
(* Values of NotifyTpl, Group and Uses for the runs of DxeEvent.           *)
(***************************************************************************)
EXTENDS DxeEvent

CONSTANTS t, \* a timer, with a function that sets it again
          w, \* a timer that is waited for
          g  \* an event of the same group as t, notified above it

Tpls   == [e \in Events |-> IF e = g THEN Notify ELSE Callback]
Groups == [e \in Events |-> IF e = w THEN NoGroup ELSE "group"]

ByBase(calls, e) == {<<Base, call, e>> : call \in calls}

\* Nobody closes t, the timer that sets itself.
Cooperating ==
  ByBase({"create", "raise", "periodic", "relative", "cancel"}, t)
  \cup ByBase({"create", "periodic", "relative", "check", "close"}, w)
  \cup ByBase({"create", "signal", "close"}, g)
  \cup {<<t, "relative", t>>, <<w, "signal", w>>}

\* The code that has created t closes it.
Closing ==
  ByBase({"create", "raise", "relative", "close"}, t) \cup {<<t, "relative", t>>}
=============================================================================
