---------------------------- MODULE HandlerGate ----------------------------
(***************************************************************************)
(* What a signal handler gate promises. SignalEvent keeps two of them      *)
(* (_handler_gate and _cookie_handler_gate, signalEvent.cpp:484-543):      *)
(* handlers enter only while the gate is open, whoever closes it waits     *)
(* until the handlers inside have left, and it is reopened only from       *)
(* there, when nobody is inside.                                           *)
(***************************************************************************)
CONSTANT Handlers

VARIABLES
    phase,  \* "closed", "open" or "draining"
    inside  \* the handlers between entering and leaving

vars == <<phase, inside>>

Init == phase = "closed" /\ inside = {}

Open ==
    /\ phase = "closed" /\ inside = {}
    /\ phase' = "open"
    /\ UNCHANGED inside

Enter(h) ==
    /\ phase = "open" /\ h \notin inside
    /\ inside' = inside \cup {h}
    /\ UNCHANGED phase

Leave(h) ==
    /\ h \in inside
    /\ inside' = inside \ {h}
    /\ UNCHANGED phase

Close ==
    /\ phase \in {"open", "closed"}
    /\ phase' = "draining"
    /\ UNCHANGED inside

Drained ==
    /\ phase = "draining" /\ inside = {}
    /\ phase' = "closed"
    /\ UNCHANGED inside

Next == Open \/ Close \/ Drained \/ \E h \in Handlers : Enter(h) \/ Leave(h)

Spec == Init /\ [][Next]_vars
=============================================================================
