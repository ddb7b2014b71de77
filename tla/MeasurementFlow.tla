--------------------------- MODULE MeasurementFlow ---------------------------
(***************************************************************************)
(* What the processor node manager promises about measurements, whatever   *)
(* nodes are registered: a measurement belongs to the application until it *)
(* is put, is then processed in the order of the puts, one at a time, and  *)
(* is given back to the pool when its processing ends (proc_mgr.h, module  *)
(* documentation; sample_pool.h).  It promises the steps it takes, and that *)
(* it takes them only as long as nothing has stopped it.                   *)
(***************************************************************************)
EXTENDS Naturals, Sequences

CONSTANTS
    Meas,       \* the measurements
    NULL

VARIABLES
    owned,      \* the measurements the application holds
    pending,    \* those that wait, oldest first
    busy,       \* the one being processed, or NULL
    stopped     \* TRUE once what processing needs is gone

flowVars == <<owned, pending, busy, stopped>>

Waiting == {pending[i] : i \in 1 .. Len(pending)}

Init == owned = {} /\ pending = <<>> /\ busy = NULL

Allocate(m) ==
    /\ m \notin owned \cup Waiting \cup {busy}
    /\ owned' = owned \cup {m}
    /\ UNCHANGED <<pending, busy>>

Submit(m) ==
    /\ m \in owned
    /\ owned' = owned \ {m}
    /\ pending' = Append(pending, m)
    /\ UNCHANGED busy

\* Mutant of the next definition: the newest is taken first.
BeginNewest ==
    /\ busy = NULL
    /\ pending # <<>>
    /\ busy' = pending[Len(pending)]
    /\ pending' = SubSeq(pending, 1, Len(pending) - 1)
    /\ UNCHANGED owned

Begin ==
    /\ busy = NULL
    /\ pending # <<>>
    /\ busy' = Head(pending)
    /\ pending' = Tail(pending)
    /\ UNCHANGED owned

End ==
    /\ busy # NULL
    /\ busy' = NULL
    /\ UNCHANGED <<owned, pending>>

\* What processing needs does not come back.
Stop ==
    /\ ~stopped
    /\ stopped' = TRUE
    /\ UNCHANGED <<owned, pending, busy>>

Next ==
    \/ /\ (\E m \in Meas : Allocate(m) \/ Submit(m)) \/ Begin \/ End
       /\ UNCHANGED stopped
    \/ Stop

Spec ==
    /\ Init /\ ~stopped
    /\ [][Next]_flowVars
    /\ WF_flowVars(~stopped /\ Begin /\ UNCHANGED stopped)
    /\ WF_flowVars(~stopped /\ End /\ UNCHANGED stopped)
=============================================================================
