------------------------------- MODULE LedGate -------------------------------
(***************************************************************************)
(* What the LED driver promises to the rest of the firmware, without its   *)
(* queue, curve, blink or commands: a light behind a power gate and a cap. *)
(* While the gate is cut the light is out; only a grant opens the gate     *)
(* again; the light never exceeds the cap in force.                        *)
(***************************************************************************)
EXTENDS Integers

VARIABLES
    light,   \* output, in 1/10000 of full drive
    cut,     \* the power gate is closed
    cap      \* the power cap, in percent

gateVars == <<light, cut, cap>>

Init == light = 0 /\ cut = FALSE /\ cap = 100

\* Power is gone or forbidden: out, and latched out.
Cut ==
    /\ cut' = TRUE
    /\ light' = 0
    /\ UNCHANGED cap

\* Somebody entitled to light the LED asks for a level.
Grant ==
    /\ cut' = FALSE
    /\ light' \in 0..(100 * cap)
    /\ UNCHANGED cap

\* Level, curve or cap change behind an unchanged gate.
Adjust ==
    /\ UNCHANGED cut
    /\ cap' \in 1..100
    /\ light' \in IF cut THEN {0} ELSE 0..(100 * cap')

Next == Cut \/ Grant \/ Adjust

Spec == Init /\ [][Next]_gateVars
=============================================================================
