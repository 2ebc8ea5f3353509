-------------------------------- MODULE MCPins --------------------------------
(***************************************************************************)
(* An instance of Pins for TLC: chains of three points, every picture of   *)
(* them in the upper half, and noise at power-up; with the glyphs.         *)
(***************************************************************************)
EXTENDS Pins, Glyphs

MCColour == {"R", "G", "Y"}
MCDrawn  == [1 .. N -> {0, 1} \X {1}] \cup [1 .. N -> {<<0, 0>>, <<1, 0>>}]
Noise    == {[c \in MCColour |-> [i \in 1 .. N |-> <<1, 0>>]],
             [c \in MCColour |-> [i \in 1 .. N |-> <<i % 2, 1>>]]}

\* Bound: numbers are decoded before the first picture is clocked out; what
\* the decoders make of a number does not depend on the matrix.
MCInit == PinsInit /\ GlyphsInit

MCNext ==
    \/ PinsNext /\ UNCHANGED value /\ value = 0
    \/ fresh /\ pc = "idle" /\ (ShowValue \/ Return) /\ UNCHANGED pinVars

MCSpec == MCInit /\ [][MCNext]_<<pinVars, value>>
=============================================================================
