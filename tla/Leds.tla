--------------------------------- MODULE Leds ---------------------------------
(***************************************************************************)
(* What the driver of the LED matrix (countdown.c, bank32, Clear_Display,  *)
(* dispaly) does to the matrix, one call at a time.                        *)
(*                                                                         *)
(* Each colour has a chain of shift registers of its own, but all chains   *)
(* share one clock and one latch.  Drawing in one colour therefore shifts  *)
(* the chains of the others as well, and fills them with whatever level    *)
(* their data lines were left at: the last point that was drawn in them.   *)
(***************************************************************************)
EXTENDS Naturals

CONSTANTS
    Colour,      \* the colours of the matrix
    Pictures,    \* what the chain of one colour can hold
    Ends,        \* Ends[p]: the levels of the two data lines behind p, each
                 \* 0 or 1
    Filled       \* Filled[e]: the chain filled with these levels

VARIABLES
    latched,     \* latched[c]: the picture at the LEDs of colour c
    oe           \* the outputs are enabled (the line OE is low)

ledVars == <<latched, oe>>

Dark    == Filled[<<0, 0>>]
AllDark == [c \in Colour |-> Dark]

\* dispaly: picture p in colour c.
Latch(c, p) ==
    latched' = [d \in Colour |->
                   IF d = c THEN p ELSE Filled[Ends[latched[d]]]]

\* Mutant: one colour is not driven low while the zeros are shifted in.
LatchDark_OneColour ==
    latched' = [d \in Colour |->
                   IF d = (CHOOSE c \in Colour : TRUE)
                   THEN Filled[Ends[latched[d]]] ELSE Dark]

\* Clear_Display.
LatchDark == latched' = AllDark

LedsInit == latched = AllDark /\ oe = FALSE

LedsNext ==
    /\ \/ \E c \in Colour, p \in Pictures : Latch(c, p)
       \/ LatchDark
       \/ UNCHANGED latched
    /\ oe' \in BOOLEAN

LedsSpec == LedsInit /\ [][LedsNext]_ledVars
=============================================================================
