-------------------------------- MODULE LedSign --------------------------------
(***************************************************************************)
(* The communication sign down to its LEDs: every call that the display    *)
(* thread of CommDisplay makes to the driver of Leds, and what a road user *)
(* then sees of the matrix.  In Countdown the face is what the call asks   *)
(* for; here it is what three chains of registers make of it.              *)
(***************************************************************************)
EXTENDS CommDisplay

VARIABLES latched, oe

ledSignVars == <<commVars, latched, oe>>

-----------------------------------------------------------------------------
(***************************************************************************)
(* The pictures.  A number has one of three layouts; what counts of it is  *)
(* the point that is clocked in last, in column 15 of row 16 in the upper  *)
(* half of the matrix and of row 24 in the lower (Glyphs): on the bar      *)
(* across the middle of a single digit, between the digits of two, and on  *)
(* a right stroke of the tens of three.                                    *)
(***************************************************************************)
Number(n)   == [kind |-> "number", n |-> n]
LetterH     == [kind |-> "H", n |-> 0]
Flood(e)    == [kind |-> "flood", n |-> 2 * e[1] + e[2]]
Levels      == {0, 1} \X {0, 1}
Pictures    == {Number(n) : n \in 1 .. MaxShown} \cup {LetterH}
                  \cup {Flood(e) : e \in Levels}

Tens(n)   == (n \div 10) % 10
UpEnd(n)  == (n < 10 /\ n \notin {1, 7}) \/ (n >= 100 /\ Tens(n) # 7)
LowEnd(n) == n >= 100 /\ Tens(n) # 2
Level(b)  == IF b THEN 1 ELSE 0

EndOf(p) ==
    CASE p.kind = "number" -> <<Level(UpEnd(p.n)), Level(LowEnd(p.n))>>
      [] p.kind = "H"      -> <<1, 0>>
      [] p.kind = "flood"  -> <<p.n \div 2, p.n % 2>>

Led == INSTANCE Leds WITH
           Ends   <- [p \in Pictures |-> EndOf(p)],
           Filled <- [e \in Levels |-> Flood(e)]

-----------------------------------------------------------------------------
(***************************************************************************)
(* The calls, told by the sleep that follows each.                         *)
(***************************************************************************)
Slept(p) == pc' = p /\ pc # p

Clears == Slept("ClearLoop") \/ Slept("ClearLoad")
Draws  == Slept("Shown") \/ Slept("BlinkOn")

Calls ==
    \/ Clears /\ Led!LatchDark /\ oe' = TRUE
    \/ Draws /\ Led!Latch(seen, Number(curNum)) /\ oe' = TRUE
    \/ Slept("HShown") /\ Led!Latch("Y", LetterH) /\ oe' = TRUE
    \/ Slept("BlinkOff") /\ oe' = FALSE /\ UNCHANGED latched
    \/ (pc' = pc \/ ~Asleep' \/ pc' = "Idle") /\ UNCHANGED <<latched, oe>>

LedSignInit == CommInit /\ Led!LedsInit

LedSignNext ==
    \/ Display /\ Calls
    \/ (Timer \/ Parse \/ Environment) /\ UNCHANGED <<latched, oe>>

LedSignSpec == LedSignInit /\ [][LedSignNext]_ledSignVars

-----------------------------------------------------------------------------
(***************************************************************************)
(* Properties.                                                             *)
(***************************************************************************)
LitColours == {c \in Colour : oe /\ latched[c] # Led!Dark}

\* The face as it is seen; a flooded half, or two colours, are no face.
Seen ==
    LET lit == LitColours IN
    IF lit = {} THEN S!Blank
    ELSE IF lit = {"Y"} /\ latched["Y"] = LetterH THEN S!HFace
    ELSE LET c == CHOOSE c \in lit : TRUE
         IN IF lit = {c} /\ latched[c].kind = "number"
            THEN [colour |-> c, value |-> latched[c].n]
            ELSE [colour |-> "garbled", value |-> 0]

\* What is seen is what the display thread has asked for: a new colour is
\* only ever drawn on chains that a Clear_Display has emptied, although
\* nothing but the order of the thread's branches says so.
LedsShowFace == Seen = panel

\* "H_Display ... shows H" (countdown.c:294), "value and colour of the
\* countdown" (countdown.c:300): the letter is shown in yellow and a number
\* in its colour, and nothing else is lit.
OneColour ==
    \A c \in LitColours, d \in LitColours :
        c = d /\ latched[c].kind # "flood"
=============================================================================
