--------------------------------- MODULE Pins ---------------------------------
(***************************************************************************)
(* The driver of the LED matrix pin by pin: the six data lines (two per    *)
(* colour, one for each half of the matrix), the clock CLK, the latch LAT  *)
(* and the output enable OE (countdown.c, bank32, Clear_Display, dispaly,  *)
(* Set_LED_Display).                                                       *)
(*                                                                         *)
(* Between two writes of a pin the road user looks at the matrix, and the  *)
(* thread may be preempted for as long as it takes to parse a frame.  The  *)
(* matrix is hardware: a rising clock shifts every chain by one place, and *)
(* what is at the LEDs follows the chains while LAT is high.               *)
(***************************************************************************)
EXTENDS Naturals

CONSTANTS
    Colour,      \* red, green, yellow: RD1/RD2, BD1/BD2, GD1/GD2
    N,           \* points in a chain: 512 in the code
    Drawn,       \* the pictures the display draws
    PowerUp      \* what the chains may hold at power-up

Bits     == {0, 1} \X {0, 1}       \* the upper and the lower half
Pictures == [1 .. N -> Bits]

ASSUME PinsAssumption ==
    /\ N \in Nat \ {0}
    /\ Drawn \subseteq Pictures
    /\ PowerUp \subseteq [Colour -> Pictures]

VARIABLES
    line,        \* line[c]: the levels of the two data lines of colour c
    regs,        \* regs[c]: the chain of c, the point shifted in last at N
    lat, on,     \* LAT is high; OE is low, the outputs are on
    latched,     \* latched[c]: what is at the LEDs of colour c
    pc,          \* the pin write that comes next
    k,           \* points clocked in by this call
    job,         \* the call: what is drawn, in which colour
    fresh        \* (history) nothing has been latched since power-up

matrix  == <<line, regs, latched, lat, on>>
pinVars == <<matrix, pc, k, job, fresh>>

Fill(e) == [i \in 1 .. N |-> e]
Zeros   == Fill(<<0, 0>>)

Jobs == [op : {"draw"}, colour : Colour, picture : Drawn]
            \cup [op : {"clear", "off"}]

-----------------------------------------------------------------------------
\* dispaly for a digit, two, three or the letter H, Clear_Display, or the
\* dark half of a blink.
Call(j) ==
    /\ pc = "idle"
    /\ job' = j
    /\ k' = 0
    /\ pc' = IF j.op = "off" THEN "oeHigh" ELSE "latLow"
    /\ UNCHANGED <<matrix, fresh>>

\* Mutant: LAT stays high while the points are clocked in.
LatLow_Forgotten ==
    /\ pc = "latLow"
    /\ pc' = IF job.op = "clear" THEN "oeHigh" ELSE "clock"
    /\ UNCHANGED <<matrix, k, job, fresh>>

LatLow ==
    /\ pc = "latLow"
    /\ lat' = FALSE
    /\ pc' = IF job.op = "clear" THEN "oeHigh" ELSE "clock"
    /\ UNCHANGED <<line, regs, latched, on, k, job, fresh>>

OeHigh ==
    /\ pc = "oeHigh"
    /\ on' = FALSE
    /\ pc' = IF job.op = "clear" THEN "clock" ELSE "idle"
    /\ UNCHANGED <<line, regs, latched, lat, k, job, fresh>>

\* Mutant: Clear_Display leaves the lines of one colour alone.
Driven_OneLeft(d) ==
    IF job.op = "clear"
    THEN IF d = (CHOOSE c \in Colour : TRUE) THEN line[d] ELSE <<0, 0>>
    ELSE IF d = job.colour THEN job.picture[k + 1] ELSE line[d]

\* What the loop body writes to the data lines.
Driven(d) ==
    IF job.op = "clear" THEN <<0, 0>>
    ELSE IF d = job.colour THEN job.picture[k + 1] ELSE line[d]

Shifted(r, e) == [i \in 1 .. N |-> IF i < N THEN r[i + 1] ELSE e]

Clocked == k + 1 = N

\* CLK low, the data lines, CLK high.
Clock ==
    /\ pc = "clock"
    /\ line' = [d \in Colour |-> Driven(d)]
    /\ regs' = [d \in Colour |-> Shifted(regs[d], Driven(d))]
    /\ latched' = IF lat THEN regs' ELSE latched
    /\ k' = k + 1
    /\ pc' = IF Clocked THEN "latHigh" ELSE "clock"
    /\ UNCHANGED <<lat, on, job, fresh>>

LatHigh ==
    /\ pc = "latHigh"
    /\ lat' = TRUE
    /\ latched' = regs
    /\ fresh' = FALSE
    /\ pc' = "oeLow"
    /\ UNCHANGED <<line, regs, on, k, job>>

OeLow ==
    /\ pc = "oeLow"
    /\ on' = TRUE
    /\ pc' = "idle"
    /\ UNCHANGED <<line, regs, latched, lat, k, job, fresh>>

\* What rt_hw_countdown_init leaves.  Making OE an output pulls it low before it
\* is written high; those few instructions come before the initial state.
PinsInit ==
    /\ line = [c \in Colour |-> <<0, 0>>]
    /\ regs \in PowerUp /\ latched \in PowerUp
    /\ lat = FALSE /\ on = FALSE
    /\ pc = "idle" /\ k = 0 /\ job = [op |-> "off"] /\ fresh = TRUE

PinsNext ==
    \/ \E j \in Jobs : Call(j)
    \/ LatLow \/ OeHigh \/ Clock \/ LatHigh \/ OeLow

PinsSpec == PinsInit /\ [][PinsNext]_pinVars

-----------------------------------------------------------------------------
(***************************************************************************)
(* Properties.                                                             *)
(***************************************************************************)

PinsTypeOK ==
    /\ line \in [Colour -> Bits]
    /\ regs \in [Colour -> Pictures] /\ latched \in [Colour -> Pictures]
    /\ lat \in BOOLEAN /\ on \in BOOLEAN /\ fresh \in BOOLEAN
    /\ pc \in {"idle", "latLow", "oeHigh", "clock", "latHigh", "oeLow"}
    /\ k \in 0 .. N
    /\ job \in Jobs

Clocking == pc \in {"clock", "latHigh"}

\* What power-up has left in the chains is never lit and does not count.
AtLeds == IF fresh THEN [c \in Colour |-> Zeros] ELSE latched

\* The program counter, LAT and OE agree.
OrderInv ==
    /\ fresh => ~on
    /\ pc \in {"latLow", "clock", "latHigh", "oeLow"} => job.op # "off"
    /\ pc = "oeHigh" => job.op # "draw"
    /\ pc \in {"latLow", "oeHigh"} => k = 0
    /\ pc = "oeHigh" /\ job.op = "clear" => ~lat
    /\ Clocking => ~lat
    /\ pc = "clock" => k < N
    /\ pc = "latHigh" => k = N

\* The last k places of a chain are the points this call has clocked in.
ChainInv ==
    Clocking => \A d \in Colour :
        /\ \A i \in 1 .. k :
              regs[d][N - k + i] = IF job.op = "clear" THEN <<0, 0>>
                                   ELSE IF d = job.colour THEN job.picture[i]
                                   ELSE line[d]
        /\ k > 0 => regs[d][N] = line[d]

\* A data line is at the level of the last point of its colour at the LEDs,
\* but for the lines this call drives.
LineInv ==
    \A d \in Colour :
        \/ AtLeds[d][N] = line[d]
        \/ Clocking /\ (job.op = "draw" => d = job.colour)

\* What is to be shown has been latched, and is on when the call returns: the
\* picture in its colour, or no point in any.
DoneInv ==
    /\ pc = "oeLow" => ~fresh
    /\ pc \in {"oeLow", "idle"} =>
          /\ job.op = "draw" => latched[job.colour] = job.picture
          /\ job.op = "clear" => latched = [c \in Colour |-> Zeros]
    /\ pc = "idle" /\ job.op = "draw" => on

\* At every pin write the chains hold what this call has clocked in so far,
\* with LAT low, and the other colours' lines what was drawn in them last,
\* which is why they are filled with it (bank32 drives two lines of six).
PinsInv == PinsTypeOK /\ OrderInv /\ ChainInv /\ LineInv /\ DoneInv

\* The pins implement the driver call by call: whenever somebody looks, the
\* LEDs hold whole pictures or nothing, never one that is half clocked in,
\* and the other colours what their data lines were left at.
Matrix ==
    INSTANCE Leds WITH
        Ends    <- [p \in Pictures |-> p[N]],
        Filled  <- [e \in Bits |-> Fill(e)],
        latched <- AtLeds,
        oe      <- on

ImplementsLeds == Matrix!LedsSpec
=============================================================================
