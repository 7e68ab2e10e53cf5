--------------------------------- MODULE Service ---------------------------------
(***************************************************************************)
(* What the example server promises to whoever signals it: nothing of      *)
(* waits, handlers, the timer or the order in which they come.  Server     *)
(* implements it.                                                          *)
(*                                                                         *)
(* It serves with all its workers, drains, is stopped once, and returns    *)
(* when the last worker has left.  A connection gets one response after    *)
(* the shutdown, and only a worker that the stop cut off leaves, which is  *)
(* all it does then.                                                       *)
(***************************************************************************)
EXTENDS Naturals

CONSTANT Workers

VARIABLES
    phase,      \* "serving", "draining", "stopped", "returned" or "undefined"
    staff,      \* the workers that have not left
    cut,        \* those of them whose operation the stop has cancelled
    late        \* the responses a worker's connection got since the shutdown

vars == <<phase, staff, cut, late>>

Init ==
    /\ phase = "serving"
    /\ staff = Workers /\ cut = {}
    /\ late = [w \in Workers |-> 0]

Drain ==
    /\ phase = "serving" /\ phase' = "draining"
    /\ UNCHANGED <<staff, cut, late>>

Stop ==
    /\ phase = "draining" /\ phase' = "stopped"
    /\ cut' \in SUBSET staff
    /\ UNCHANGED <<staff, late>>

LastResponse(w) ==
    /\ phase \in {"draining", "stopped"} /\ w \in staff \ cut
    /\ late[w] = 0 /\ late' = [late EXCEPT ![w] = 1]
    /\ UNCHANGED <<phase, staff, cut>>

NextConnection(w) ==
    /\ phase \in {"draining", "stopped"} /\ w \in staff \ cut
    /\ late' = [late EXCEPT ![w] = 0]
    /\ UNCHANGED <<phase, staff, cut>>

Leave(w) ==
    /\ phase = "stopped" /\ w \in cut
    /\ staff' = staff \ {w} /\ cut' = cut \ {w}
    /\ UNCHANGED <<phase, late>>

Return ==
    /\ phase = "stopped" /\ staff = {} /\ phase' = "returned"
    /\ UNCHANGED <<staff, cut, late>>

\* The error page for a Host that is no authority, by a worker that serves
ErrorPage(w) ==
    /\ phase \in {"serving", "draining", "stopped"} /\ w \in staff \ cut
    /\ phase' = "undefined"
    /\ UNCHANGED <<staff, cut, late>>

Next ==
    \/ Drain \/ Stop \/ Return
    \/ \E w \in Workers : LastResponse(w) \/ NextConnection(w) \/ Leave(w) \/ ErrorPage(w)

Spec == Init /\ [][Next]_vars
================================================================================
