-------------------------- MODULE SessionContract --------------------------
(***************************************************************************)
(* What main.cpp needs of an IMarketDataSession: the loop is entered when  *)
(* market data has arrived, market data is delivered between the beginning *)
(* of Start and the end of Stop only, so that the listener may be          *)
(* destroyed after Stop, and the process dies of the session, if at all,   *)
(* while it is being stopped.                                              *)
(***************************************************************************)
CONSTANT Channels

VARIABLES
    phase,      \* of the session
    delivering, \* the channels whose thread has market data for the listener
    heard       \* market data has arrived

vars == <<phase, delivering, heard>>

Init == phase = "new" /\ delivering = {} /\ heard = FALSE

Start ==
    /\ phase = "new" /\ phase' = "starting"
    /\ UNCHANGED <<delivering, heard>>

\* There is no session for the configuration.
Refuse ==
    /\ phase = "new" /\ phase' = "stopped"
    /\ UNCHANGED <<delivering, heard>>

Enter ==
    /\ phase = "starting" /\ heard
    /\ phase' = "running"
    /\ UNCHANGED <<delivering, heard>>

\* Start or the wait has failed, or the loop has been left.
BeginStop ==
    /\ phase \in {"starting", "running"}
    /\ phase' = "stopping"
    /\ UNCHANGED <<delivering, heard>>

EndStop ==
    /\ phase = "stopping" /\ delivering = {}
    /\ phase' = "stopped"
    /\ UNCHANGED <<delivering, heard>>

Crash ==
    /\ phase = "stopping" /\ phase' = "crashed"
    /\ UNCHANGED <<delivering, heard>>

Deliver(c) ==
    /\ phase \in {"starting", "running", "stopping"}
    /\ c \notin delivering
    /\ delivering' = delivering \cup {c}
    /\ heard' = TRUE
    /\ UNCHANGED phase

Return(c) ==
    /\ c \in delivering
    /\ delivering' = delivering \ {c}
    /\ UNCHANGED <<phase, heard>>

Next ==
    \/ Start \/ Refuse \/ Enter \/ BeginStop \/ EndStop \/ Crash
    \/ \E c \in Channels : Deliver(c) \/ Return(c)

Spec == Init /\ [][Next]_vars
=============================================================================
