------------------------------- MODULE MCLedSign -------------------------------
(***************************************************************************)
(* Instances of LedSign for TLC.                                           *)
(***************************************************************************)
EXTENDS LedSign

Post(c, n, cmd) ==
    [protocol |-> "GeLinWei", colour |-> c, total |-> n, auto |-> TRUE,
     blink |-> FALSE, cmd |-> cmd, refresh |-> TRUE]

\* One total per colour, counted by the sign: the traffic of the captured
\* GeLinWei frames, in any order and at any moment.  The last point of the 2
\* is lit, that of a 1 is not.
TotalPerColour == {Post("R", 2, "none"), Post("G", 1, "none"), Post("Y", 1, "none")}

\* A total for red and one for green with the letter H, which a sign for red
\* only shows while the lamp is not red.
WithH == {Post("R", 2, "none"), Post("G", 1, "H")}

MotorSign    == {[motor |-> TRUE, rled |-> TRUE]}
RedOnly      == {[motor |-> TRUE, rled |-> FALSE]}
RedGreen     == {{"R"}, {"G"}}
=============================================================================
