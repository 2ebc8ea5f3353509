-------------------------------- MODULE Sign --------------------------------
(***************************************************************************)
(* What a road user may rely on: the face of the sign, and nothing else.   *)
(*                                                                         *)
(* A number is never replaced by a number of another colour, nor by a      *)
(* larger one, unless the face has been something else (dark, or the       *)
(* letter H) in between.  The dark moment is what resets the six colour    *)
(* lines of the LED driver (countdown.c, Clear_Display against bank32,     *)
(* which drives the two lines of its own colour only).                     *)
(***************************************************************************)
EXTENDS Naturals

CONSTANTS
    Colour,      \* the colours a number can have
    MaxShown     \* the largest number the sign can draw (199 in the code)

VARIABLE panel   \* what is latched on the LED matrix

\* A face is a number in a colour, or one of the two faces without a number.
Face  == [colour : Colour \cup {"none", "H"}, value : Nat]
Blank == [colour |-> "none", value |-> 0]
HFace == [colour |-> "H", value |-> 0]

Lit(f) == f.colour \in Colour

SignInit == panel = Blank

GoDark == panel' = Blank

ShowH == panel' = HFace

LightUp ==
    /\ ~Lit(panel)
    /\ \E c \in Colour, n \in 1 .. MaxShown :
           panel' = [colour |-> c, value |-> n]

CountDown ==
    /\ Lit(panel)
    /\ \E n \in 1 .. MaxShown :
           /\ n <= panel.value
           /\ panel' = [colour |-> panel.colour, value |-> n]

SignNext == GoDark \/ ShowH \/ LightUp \/ CountDown

SignSpec == SignInit /\ [][SignNext]_panel

=============================================================================
