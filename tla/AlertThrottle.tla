---------------------------- MODULE AlertThrottle ----------------------------
(***************************************************************************)
(* What the alert engine promises to its caller, without its state: for    *)
(* each instrument, an evaluation below the threshold raises an alert if   *)
(* and only if the last RepeatInterval has seen no alert for that          *)
(* instrument; an evaluation at or above it never does.                    *)
(***************************************************************************)
EXTENDS Integers

CONSTANTS
    Instruments,     \* contracts that are evaluated
    RepeatInterval,  \* repeat_interval_minutes of config/alert.json
    MaxTime          \* bound on the clock

VARIABLES
    alerts,  \* alerts[i]: the times at which an alert was raised for i
    asked,   \* the evaluation made last since the clock moved: with it in
             \* the state, an evaluation that raises nothing is a step too
    now      \* the clock, in minutes

vars == <<alerts, asked, now>>

Due(i) == \A t \in alerts[i] : now - t >= RepeatInterval

Init ==
    /\ alerts = [i \in Instruments |-> {}]
    /\ asked = {}
    /\ now \in 0 .. MaxTime

Evaluate(i, below) ==
    /\ alerts' = IF below /\ Due(i)
                 THEN [alerts EXCEPT ![i] = @ \cup {now}]
                 ELSE alerts
    /\ asked' = {<<i, below>>}
    /\ UNCHANGED now

AdvanceClock ==
    /\ now < MaxTime
    /\ now' = now + 1
    /\ asked' = {}
    /\ UNCHANGED alerts

Next ==
    \/ \E i \in Instruments, below \in BOOLEAN : Evaluate(i, below)
    \/ AdvanceClock

Spec == Init /\ [][Next]_vars
=============================================================================
