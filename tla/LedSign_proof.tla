----------------------------- MODULE LedSign_proof -----------------------------
(***************************************************************************)
(* For GeLinWei and GA/T 508-2004, and a sign that never draws the letter  *)
(* H: what is seen of the LEDs is the face that the display thread asked   *)
(* for, for every number range, width, set of messages and lamp.           *)
(*                                                                         *)
(* The argument joins two facts: a chain that holds no point is filled     *)
(* with no point when another is drawn (Leds), and the thread never draws  *)
(* in a colour unless every other chain is empty (Handshake).              *)
(***************************************************************************)
EXTENDS LedSign, CommDisplay_proof

Loading == {"ClearLoad", "ZeroFirst", "ZeroSecond", "Sync", "Load"}

\* The chains against the face.  Only the colour that owns the number has a
\* point in its chain; while a number is taken over, no colour has.
LedInv ==
    /\ latched \in [Colour -> Pictures] /\ oe \in BOOLEAN
    /\ \A d \in Colour : d # owner => latched[d] = Led!Dark
    /\ S!Lit(panel) => oe /\ latched[owner] = Number(panel.value)
    /\ ~S!Lit(panel) => panel = S!Blank /\ (~oe \/ latched = Led!AllDark)
    /\ pc \in Loading => latched = Led!AllDark

\* The letter is never asked for.
NoLetter ==
    pc # "H" /\ (config.rled \/ (curMode # "H" /\ msg.cmd # "H"))

PlainSign ==
    /\ \A m \in Messages : m.protocol # "GAT2014"
    /\ (\A m \in Messages : m.cmd # "H") \/ (\A g \in Configs : g.rled)

-----------------------------------------------------------------------------
\* An empty chain, shifted on, is empty.
LEMMA DarkStaysDark ==
    /\ Flood(<<0, 0>>) = [kind |-> "flood", n |-> 0]
    /\ Led!Dark = Flood(<<0, 0>>) /\ Led!Dark \in Pictures
    /\ EndOf(Led!Dark) = <<0, 0>>
    /\ [e \in Levels |-> Flood(e)]
          [[p \in Pictures |-> EndOf(p)][Led!Dark]] = Led!Dark
<1>1. <<0, 0>> \in Levels
  BY DEF Levels
<1>2. Led!Dark = Flood(<<0, 0>>)
  BY <1>1 DEF Led!Dark
<1>3. Flood(<<0, 0>>) = [kind |-> "flood", n |-> 0]
  BY DEF Flood
<1>4. Led!Dark \in Pictures
  BY <1>1, <1>2 DEF Pictures
<1>5. EndOf(Led!Dark) = <<0, 0>>
  BY <1>2, <1>3 DEF EndOf
<1> QED
  BY <1>1, <1>2, <1>3, <1>4, <1>5

\* A picture in one colour leaves the empty chains of the others empty.
LEMMA DrawOnDark ==
    ASSUME NEW c \in Colour, NEW p \in Pictures,
           latched \in [Colour -> Pictures],
           \A d \in Colour : d # c => latched[d] = Led!Dark,
           Led!Latch(c, p)
    PROVE  /\ latched' \in [Colour -> Pictures]
           /\ latched'[c] = p
           /\ \A d \in Colour : d # c => latched'[d] = Led!Dark
<1>1. latched' = [d \in Colour |->
                     IF d = c THEN p
                     ELSE [e \in Levels |-> Flood(e)]
                             [[q \in Pictures |-> EndOf(q)][latched[d]]]]
  BY DEF Led!Latch
<1>2. \A d \in Colour : d # c => latched'[d] = Led!Dark
  BY <1>1, DarkStaysDark
<1>3. latched'[c] = p
  BY <1>1
<1>4. \A d \in Colour : latched'[d] \in Pictures
  BY <1>2, <1>3, DarkStaysDark
<1> QED
  BY <1>1, <1>2, <1>3, <1>4

\* All chains empty.
LEMMA AllAreDark ==
    /\ Led!AllDark \in [Colour -> Pictures]
    /\ \A d \in Colour : Led!AllDark[d] = Led!Dark
BY DarkStaysDark DEF Led!AllDark

-----------------------------------------------------------------------------
\* No step asks for the letter.
LEMMA LetterStep ==
    ASSUME PlainSign
    PROVE  TypeInv /\ NoLetter /\ [CommNext]_commVars => NoLetter'
<1> SUFFICES ASSUME TypeInv, NoLetter, [CommNext]_commVars PROVE NoLetter'
  OBVIOUS
<1> USE DEF NoLetter
<1>1. CASE Display
  <2>1. UNCHANGED <<config, curMode, msg>>
    BY <1>1 DEF Display, DisplayStep, Pass, BranchNoPost, BranchPost, SetType,
       YellowNoPost, YellowPost, TestFlag, ZeroFirst, ZeroSecond, ClearSync,
       Load, DropFlag, Show, OnlyRed, Wake, counter
  <2>2. pc' # "H"
    BY <1>1 DEF Display, DisplayStep, Pass, BranchNoPost, BranchPost, SetType,
       YellowNoPost, YellowPost, TestFlag, ZeroFirst, ZeroSecond, ClearSync,
       Load, DropFlag, Show, OnlyRed, Wake, Continue, FallAsleep, Clear_Display
  <2> QED
    BY <2>1, <2>2
<1>2. CASE Timer
  BY <1>2 DEF Timer, timeout, Count, counter, parser
<1>3. CASE Parse
  <2>1. UNCHANGED <<config, pc>>
    BY <1>3 DEF Parse, WriteFlag, WriteMode, WriteNum, WriteCurMode, WriteBlind,
       WriteType, Writes, thread
  <2>2. msg'.cmd = msg.cmd
    BY <1>3 DEF Parse, WriteFlag, WriteMode, WriteNum, WriteCurMode, WriteBlind,
       WriteType, Writes, Silent
  <2>3. curMode' \in {curMode, "BLACK"} \/ msg.cmd = "H" \/ curMode' \in Colour
    <3>1. CASE WriteCurMode
      BY <1>3, <3>1 DEF WriteCurMode, Writes, TypeInv, ParseInv
    <3>2. CASE ~WriteCurMode
      BY <1>3, <3>2 DEF Parse, WriteFlag, WriteMode, WriteNum, WriteBlind,
         WriteType, counter
    <3> QED
      BY <3>1, <3>2
  <2> QED
    BY <2>1, <2>2, <2>3 DEF Colour
<1>4. CASE LampChange \/ UNCHANGED commVars
  <2>1. UNCHANGED <<config, pc, curMode, msg>>
    BY <1>4 DEF LampChange, commVars, vars, counter, thread, parser
  <2> QED
    BY <2>1
<1>5. ASSUME NEW m \in Messages, Receive(m) PROVE NoLetter'
  <2>1. UNCHANGED <<config, pc, curMode>> /\ msg' = m
    BY <1>5 DEF Receive, vars, counter, thread
  <2>2. config \in Configs
    BY DEF TypeInv, CommTypeOK, CountdownTypeOK
  <2> QED
    BY <2>1, <2>2 DEF PlainSign
<1> QED
  BY <1>1, <1>2, <1>3, <1>4, <1>5 DEF CommNext, Environment

-----------------------------------------------------------------------------
(***************************************************************************)
(* One step of the display thread, by the driver call it ends in.          *)
(***************************************************************************)

\* Clear_Display.
LEMMA ClearsLeds ==
    ASSUME TypeInv, LedInv, DisplayStep, Clears, Led!LatchDark, oe' = TRUE
    PROVE  LedInv'
<1> USE DEF LedInv
<1>1. panel' = S!Blank
  BY DEF DisplayStep, Pass, BranchNoPost, BranchPost, SetType,
     YellowNoPost, YellowPost, TestFlag, ZeroFirst, ZeroSecond, ClearSync,
     Load, DropFlag, Show, OnlyRed, Wake, Continue, FallAsleep, Clear_Display,
     Clears, Slept
<1>2. latched' = Led!AllDark
  BY DEF Led!LatchDark
<1>3. ~S!Lit(S!Blank)
  BY DEF S!Lit, S!Blank, Colour
<1> QED
  BY <1>1, <1>2, <1>3, AllAreDark

\* Set_LED_Display: the colour of the pass is the one that owns the number.
LEMMA DrawsLeds ==
    ASSUME TypeInv, Handshake, LedInv, DisplayStep, Draws,
           Led!Latch(seen, Number(curNum)), oe' = TRUE
    PROVE  LedInv'
<1> USE DEF LedInv
<1>1. /\ pc = "Show" /\ Show /\ pc' \in {"Shown", "BlinkOn"}
      /\ curNum \in 1 .. MaxShown
      /\ panel' = [colour |-> seen, value |-> curNum]
      /\ UNCHANGED <<owner, curNum>>
  BY DEF DisplayStep, Pass, BranchNoPost, BranchPost, SetType,
     YellowNoPost, YellowPost, TestFlag, ZeroFirst, ZeroSecond, ClearSync,
     Load, DropFlag, Show, OnlyRed, Wake, Continue, FallAsleep, Clear_Display,
     Draws, Slept, counter, history
<1>2. owner = seen /\ seen \in Colour
  BY <1>1 DEF Handshake, TakeOver, TypeInv, CommTypeOK, CountdownTypeOK
<1>3. Number(curNum) \in Pictures
  BY <1>1 DEF Pictures
<1>4. /\ latched' \in [Colour -> Pictures]
      /\ latched'[seen] = Number(curNum)
      /\ \A d \in Colour : d # seen => latched'[d] = Led!Dark
  BY <1>2, <1>3, DrawOnDark
<1>5. S!Lit(panel') /\ panel'.value = curNum
  BY <1>1, <1>2 DEF S!Lit
<1> QED
  BY <1>1, <1>2, <1>4, <1>5 DEF Loading

\* The second half of a blink.
LEMMA BlinksLeds ==
    ASSUME TypeInv, LedInv, DisplayStep, Slept("BlinkOff"), oe' = FALSE,
           UNCHANGED latched
    PROVE  LedInv'
<1> USE DEF LedInv
<1>1. panel' = S!Blank /\ UNCHANGED owner /\ pc' = "BlinkOff"
  BY DEF DisplayStep, Pass, BranchNoPost, BranchPost, SetType,
     YellowNoPost, YellowPost, TestFlag, ZeroFirst, ZeroSecond, ClearSync,
     Load, DropFlag, Show, OnlyRed, Wake, Continue, FallAsleep, Clear_Display,
     Slept, history
<1>2. ~S!Lit(S!Blank)
  BY DEF S!Lit, S!Blank, Colour
<1> QED
  BY <1>1, <1>2 DEF Loading

\* A step without a call; the number changes hands on empty chains only.
LEMMA QuietLeds ==
    ASSUME TypeInv, LedInv, FaceInv, DisplayStep, ~Asleep' \/ pc' = "Idle",
           UNCHANGED <<latched, oe>>
    PROVE  LedInv'
<1> USE DEF LedInv
<1>1. UNCHANGED panel
  BY DEF DisplayStep, Pass, BranchNoPost, BranchPost, SetType,
     YellowNoPost, YellowPost, TestFlag, ZeroFirst, ZeroSecond, ClearSync,
     Load, DropFlag, Show, OnlyRed, Wake, Continue, FallAsleep, Clear_Display,
     Asleep, Sleep
<1>2. pc' \in Loading => pc \in Loading
  BY DEF DisplayStep, Pass, BranchNoPost, BranchPost, SetType,
     YellowNoPost, YellowPost, TestFlag, ZeroFirst, ZeroSecond, ClearSync,
     Load, DropFlag, Show, OnlyRed, Wake, Continue, FallAsleep, Clear_Display,
     Asleep, Sleep, Loading
<1>3. CASE Load
  <2>1. latched = Led!AllDark /\ ~S!Lit(panel)
    BY <1>3 DEF Load, Loading, FaceInv
  <2> QED
    BY <1>1, <1>2, <2>1, AllAreDark
<1>4. CASE ~Load
  <2>1. UNCHANGED owner
    BY <1>4 DEF DisplayStep, Pass, BranchNoPost, BranchPost, SetType,
       YellowNoPost, YellowPost, TestFlag, ZeroFirst, ZeroSecond, ClearSync,
       DropFlag, Show, OnlyRed, Wake, history
  <2> QED
    BY <1>1, <1>2, <2>1
<1> QED
  BY <1>3, <1>4

\* Every step of the display thread, with the call it ends in.
LEMMA DisplayLeds ==
    ASSUME TypeInv, Handshake, FaceInv, LedInv, NoLetter, DisplayStep, Calls
    PROVE  LedInv'
<1>1. pc' # pc /\ pc' # "HShown"
  BY DEF DisplayStep, Pass, BranchNoPost, BranchPost, SetType,
     YellowNoPost, YellowPost, TestFlag, ZeroFirst, ZeroSecond, ClearSync,
     Load, DropFlag, Show, OnlyRed, Wake, Continue, FallAsleep, Clear_Display,
     Asleep, Sleep, NoLetter
<1> QED
  BY <1>1, ClearsLeds, DrawsLeds, BlinksLeds, QuietLeds DEF Calls, Slept

\* Nobody else calls the driver.
LEMMA OthersLeds ==
    ASSUME TypeInv, FaceInv, LedInv, UNCHANGED <<latched, oe>>,
           Timer \/ Parse \/ Environment \/ UNCHANGED commVars
    PROVE  LedInv'
<1>1. UNCHANGED panel
  BY OthersFace
<1>2. UNCHANGED <<pc, owner>>
  BY DEF Timer, timeout, Parse, WriteFlag, WriteMode, WriteNum, WriteCurMode,
     WriteBlind, WriteType, Writes, Environment, LampChange, Receive, commVars,
     vars, thread, history
<1> QED
  BY <1>1, <1>2 DEF LedInv

-----------------------------------------------------------------------------
\* What is seen follows from the invariant.
LEMMA SeenIsFace == TypeInv /\ FaceInv /\ LedInv => LedsShowFace
<1> SUFFICES ASSUME TypeInv, FaceInv, LedInv PROVE Seen = panel
  BY DEF LedsShowFace
<1>1. panel \in S!Face
  BY DEF TypeInv, CommTypeOK, CountdownTypeOK
<1>2. CASE S!Lit(panel)
  <2>1. /\ panel.colour = owner /\ owner \in Colour /\ oe
        /\ latched[owner] = Number(panel.value)
        /\ \A d \in Colour : d # owner => latched[d] = Led!Dark
    BY <1>2 DEF FaceInv, LedInv, S!Lit
  <2>2. /\ Number(panel.value).kind = "number"
        /\ Number(panel.value).n = panel.value
        /\ LetterH.kind = "H" /\ Led!Dark.kind = "flood"
    BY DarkStaysDark DEF Number, LetterH
  <2>3. Number(panel.value) # Led!Dark /\ Number(panel.value) # LetterH
    BY <2>2
  <2>4. LitColours = {owner}
    BY <2>1, <2>3 DEF LitColours
  <2>5. (CHOOSE c \in LitColours : TRUE) = owner
    BY <2>4
  <2>6. Seen = [colour |-> owner, value |-> panel.value]
    <3>1. LitColours # {} /\ LitColours = {owner}
      BY <2>4
    <3>2. ~(LitColours = {"Y"} /\ latched["Y"] = LetterH)
      BY <2>1, <2>3, <2>4
    <3> QED
      BY <2>1, <2>2, <2>5, <3>1, <3>2 DEF Seen
  <2>7. panel = [colour |-> panel.colour, value |-> panel.value]
    BY <1>1 DEF S!Face
  <2> QED
    BY <2>1, <2>6, <2>7
<1>3. CASE ~S!Lit(panel)
  <2>1. panel = S!Blank /\ (~oe \/ latched = Led!AllDark)
    BY <1>3 DEF LedInv
  <2>2. LitColours = {}
    BY <2>1, AllAreDark DEF LitColours
  <2> QED
    BY <2>1, <2>2 DEF Seen
<1> QED
  BY <1>2, <1>3

\* On a sign that speaks GeLinWei or GA/T 508-2004 and never draws the letter
\* H, the LEDs show the face and nothing but the face: whatever is shifted
\* through the chains of the other colours is dark, although bank32 never
\* touches their lines.
THEOREM LedsShowTheFace ==
    ASSUME PlainSign
    PROVE  LedSignSpec => []LedsShowFace
<1>1. \A m \in Messages : m.protocol # "GAT2014"
  BY DEF PlainSign
<1>2. LedSignInit => LedInv /\ NoLetter
  <2> SUFFICES ASSUME LedSignInit PROVE LedInv /\ NoLetter
    OBVIOUS
  <2>1. /\ pc = "Pass" /\ panel = S!Blank /\ curMode = "BLACK"
        /\ msg.cmd = "none" /\ latched = Led!AllDark /\ oe = FALSE
    BY DEF LedSignInit, CommInit, CountdownInit, Silent, Led!LedsInit
  <2>2. ~S!Lit(panel)
    BY <2>1 DEF S!Lit, S!Blank, Colour
  <2> QED
    BY <2>1, <2>2, AllAreDark DEF LedInv, NoLetter, Loading
<1>3. CommInv /\ NoLetter /\ LedInv /\ [LedSignNext]_ledSignVars
         => LedInv' /\ NoLetter'
  <2> SUFFICES ASSUME CommInv, NoLetter, LedInv, [LedSignNext]_ledSignVars
               PROVE  LedInv' /\ NoLetter'
    OBVIOUS
  <2> USE DEF CommInv
  <2>1. [CommNext]_commVars
    BY DEF LedSignNext, ledSignVars, CommNext
  <2>2. CASE Display /\ Calls
    <3>1. DisplayStep
      BY <2>2 DEF Display
    <3> QED
      BY <2>1, <2>2, <3>1, LetterStep, DisplayLeds
  <2>3. CASE ~(Display /\ Calls)
    <3>1. /\ UNCHANGED <<latched, oe>>
          /\ Timer \/ Parse \/ Environment \/ UNCHANGED commVars
      BY <2>3 DEF LedSignNext, ledSignVars
    <3> QED
      BY <2>1, <3>1, LetterStep, OthersLeds
  <2> QED
    BY <2>2, <2>3
<1>4. LedSignInit => CommInit
  BY DEF LedSignInit
<1>5. [LedSignNext]_ledSignVars => [CommNext]_commVars
  BY DEF LedSignNext, ledSignVars, CommNext
<1>6. CommSpec => []CommInv
  BY <1>1, CommInvariant
<1>7. CommInv /\ LedInv => LedsShowFace
  BY SeenIsFace DEF CommInv
<1> QED
  BY <1>2, <1>3, <1>4, <1>5, <1>6, <1>7, PTL DEF LedSignSpec, CommSpec

=============================================================================
