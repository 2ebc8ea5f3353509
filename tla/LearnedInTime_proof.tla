-------------------------- MODULE LearnedInTime_proof --------------------------
(***************************************************************************)
(* The learning sign against the clock, for every light and every schedule *)
(* in which no awake stretch of the display thread spans two expiries: a   *)
(* learned number is taken over within nine tenths of a second, and its    *)
(* count ends with the phase.                                              *)
(***************************************************************************)
EXTENDS StudyDisplay_proof

\* Where the display thread is between the flag it has seen and the number,
\* and where it still asks which colour is to be drawn.
Loading  == {"ZeroFirst", "ZeroSecond", "Sync", "Load"}
Fetching == Loading \cup {"ClearLoad"}
Testing  == {"Branch", "Mode", "Flag"}

\* A sign that draws all colours and whose number never blinks is nowhere else.
Places == {"Pass", "Show", "Shown", "ClearLoop", "Drop"} \cup Testing \cup Fetching

WiringInv ==
    /\ config.motor <=> m_or_p = "motor"
    /\ lamp = IF lit THEN {phase} ELSE {}
    /\ ~lit => phase = "G"
    /\ ~blind /\ pc \in Places

\* Phases last whole seconds, but for the first one; of that nothing is stored.
Untaught == \A c \in Colour : time[c] = <<2, 0>> /\ (timing[c] => c = phase)

TaughtInv ==
    Untaught \/ \E c \in Colour : \E d \in Durations[c] : length = 10 * d

\* A pass that looks at a colour that is no longer on began with that colour.
SightInv ==
    pc \in Testing \cup {"Show"} /\ seen # phase => age <= elapsed

\* The most expiries that pass before the number of the phase is loaded, if
\* its flag is up.
Way(p, current) ==
    IF p \in Loading \cup {"Drop"} THEN 1
    ELSE IF p = "ClearLoad" THEN 3
    ELSE IF p = "Pass" \/ (p \in Testing /\ current) THEN 4
    ELSE IF p = "Shown" THEN 5
    ELSE IF p = "ClearLoop" THEN 6 ELSE 7

UntilLoad == Way(pc, seen = phase) - elapsed

\* A flag is up for the phase that is on only, together with its mode, and
\* not for long.
HandedInv ==
    /\ pc \in Fetching \cup {"Drop"} => flag[seen]
    /\ \A c \in Colour : flag[c] => c = phase /\ noticed /\ posted[c]
    /\ flag[phase] => UntilLoad <= 8 - age
    /\ noticed /\ posted[phase] => mode[phase] /\ type

TakenInv ==
    /\ WiringInv /\ TaughtInv
    /\ config.motor => SightInv /\ HandedInv

\* What is assumed of the schedule and of the dial.
Prompt == Burst <= 1 /\ \A x \in Configs : x.rled

-----------------------------------------------------------------------------
\* A poll posts a number when it notices the phase, or leaves the structure
\* alone.
LEMMA PollHands ==
    ASSUME TypeInv, StudyInv, L!Poll
    PROVE  \/ /\ UNCHANGED <<num, mode, flag, type, blind>>
              /\ (noticed' /\ posted'[phase]) <=> (noticed /\ posted[phase])
           \/ /\ ~noticed /\ noticed' /\ posted'[phase] /\ type' /\ ~blind'
              /\ mode' = [mode EXCEPT ![phase] = TRUE]
              /\ flag' = [flag EXCEPT ![phase] = TRUE]
<1>1. CASE ~lit
  BY <1>1, DarkPoll
<1>2. CASE lit
  <2>1. /\ noticed' /\ (noticed => UNCHANGED posted)
        /\ L!Post(phase) \/ L!AlreadyPosted(phase) \/ L!Unstable(phase)
    BY <1>2, PollFacts, PostKeeps
  <2>2. /\ phase \in Colour /\ Last \in Colour /\ Last # phase
        /\ posted \in [Colour -> BOOLEAN]
    BY TheOneBefore, SameColour DEF TypeInv, StudyTypeOK, L!StudyTypeOK, Last
  <2>3. ~noticed => ~posted[phase]
    BY <2>2 DEF StudyInv, Posting
  <2>4. CASE L!Post(phase)
    <3>1. /\ ~posted[phase] /\ type' /\ ~blind'
          /\ mode' = [mode EXCEPT ![phase] = TRUE]
          /\ flag' = [flag EXCEPT ![phase] = TRUE]
          /\ posted' = [posted EXCEPT ![Last] = FALSE, ![phase] = TRUE]
      BY <2>4 DEF L!Post, Last
    <3>2. posted'[phase]
      BY <2>2, <3>1
    <3>3. ~noticed
      BY <2>1, <3>1, <3>2
    <3> QED
      BY <2>1, <3>1, <3>2, <3>3
  <2>5. CASE L!AlreadyPosted(phase)
    <3>1. /\ posted[phase] /\ UNCHANGED <<num, mode, flag, type, blind>>
          /\ posted' = [posted EXCEPT ![Last] = FALSE]
      BY <2>5 DEF L!AlreadyPosted, L!post, Last
    <3>2. posted'[phase]
      BY <2>2, <3>1
    <3> QED
      BY <2>1, <2>3, <3>1, <3>2
  <2>6. CASE L!Unstable(phase)
    <3>1. /\ UNCHANGED <<num, mode, flag, type, blind>>
          /\ posted' = [posted EXCEPT ![Last] = FALSE, ![phase] = FALSE]
      BY <2>6 DEF L!Unstable, Last
    <3>2. ~posted'[phase]
      BY <2>2, <3>1
    <3> QED
      BY <2>1, <3>1, <3>2
  <2> QED
    BY <2>1, <2>4, <2>5, <2>6
<1> QED
  BY <1>1, <1>2

-----------------------------------------------------------------------------
(***************************************************************************)
(* The wiring.                                                             *)
(***************************************************************************)

LEMMA WiringInit == SDInit => WiringInv
BY DEF SDInit, CountdownInit, L!StudyInit, WiringInv, Places

LEMMA WiringStep ==
    ASSUME TypeInv, StudyInv, WiringInv, [SDNext]_sdVars, Prompt
    PROVE  WiringInv'
<1> USE DEF WiringInv
<1>0. config.rled
  BY DEF Prompt, TypeInv, CountdownTypeOK
<1>1. CASE Display
  <2>1. UNCHANGED <<config, lamp, blind, m_or_p, lit, phase>>
    BY <1>1 DEF Display, DisplayStep, Pass, BranchNoPost, BranchPost, SetType,
       YellowNoPost, YellowPost, TestFlag, ZeroFirst, ZeroSecond, ClearSync,
       Load, DropFlag, Show, OnlyRed, Wake, shared, learning
  <2>2. pc' \in Places
    BY <1>0, <1>1 DEF Display, DisplayStep, Pass, BranchNoPost, BranchPost, SetType,
       YellowNoPost, YellowPost, TestFlag, ZeroFirst, ZeroSecond, ClearSync,
       Load, DropFlag, Show, OnlyRed, Wake, Continue, FallAsleep, Clear_Display,
       Places, Testing, Fetching, Loading, Asleep
  <2> QED
    BY <2>1, <2>2
<1>2. CASE Poll
  <2>1. UNCHANGED <<config, lamp, pc>> /\ L!Poll
    BY <1>2 DEF Poll, thread
  <2>2. UNCHANGED <<m_or_p, lit, phase>>
    BY <2>1 DEF L!Poll, L!plan
  <2>3. ~blind'
    BY <2>1, PollHands
  <2> QED
    BY <2>1, <2>2, <2>3
<1>3. CASE Tick
  BY <1>3 DEF Tick, timeout, L!Expiry, shared
<1>4. CASE Light
  <2>1. UNCHANGED <<config, pc, blind, m_or_p>> /\ lamp' = IF lit' THEN {phase'} ELSE {}
    BY <1>4 DEF Light, LampFollows, thread, L!FlashToggle, L!NextPhase, L!post
  <2>2. ~lit' => phase' = "G"
    BY <1>4 DEF Light, L!FlashToggle, L!NextPhase
  <2> QED
    BY <2>1, <2>2
<1>5. CASE UNCHANGED sdVars
  BY <1>5 DEF sdVars, vars, learning, shared, thread
<1> QED
  BY <1>1, <1>2, <1>3, <1>4, <1>5 DEF SDNext

(***************************************************************************)
(* The first phase.                                                        *)
(***************************************************************************)

LEMMA TaughtInit == SDInit => TaughtInv
BY SameColour DEF SDInit, L!StudyInit, TaughtInv, Untaught

LEMMA TaughtStep ==
    ASSUME TypeInv, TaughtInv, [SDNext]_sdVars
    PROVE  TaughtInv'
<1> USE DEF TaughtInv, Untaught
<1>1. CASE Display \/ Tick \/ UNCHANGED sdVars
  <2>1. UNCHANGED <<time, timing, phase, length>>
    BY <1>1 DEF Display, Tick, L!Expiry, learning, sdVars
  <2> QED
    BY <2>1
<1>2. CASE Poll /\ ~lit
  <2>1. UNCHANGED <<time, timing, phase, length>>
    BY <1>2, DarkPoll DEF Poll
  <2> QED
    BY <2>1
<1>3. CASE Poll /\ lit
  <2>1. L!Learn(phase) /\ UNCHANGED <<phase, length>>
    BY <1>3, PollFacts DEF Poll
  <2>2. /\ phase \in Colour /\ Last \in Colour /\ Last # phase
        /\ timing \in [Colour -> BOOLEAN]
    BY TheOneBefore, SameColour DEF TypeInv, StudyTypeOK, L!StudyTypeOK, Last
  <2>3. /\ timing' = [timing EXCEPT ![Last] = FALSE, ![phase] = TRUE]
        /\ ~timing[Last] => UNCHANGED time
    BY <2>1 DEF L!Learn, Last
  <2>4. Untaught => Untaught'
    BY <2>1, <2>2, <2>3
  <2> QED
    BY <2>1, <2>4
<1>4. CASE Light /\ L!FlashToggle
  BY <1>4 DEF L!FlashToggle, L!learner
<1>5. CASE Light /\ L!NextPhase
  <2>1. PICK c \in L!Watched : \E d \in Durations[c] : length' = 10 * d
    BY <1>5 DEF L!NextPhase
  <2>2. c \in Colour
    BY TheOneBefore DEF TypeInv, StudyTypeOK, L!StudyTypeOK
  <2> QED
    BY <2>1, <2>2
<1> QED
  BY <1>1, <1>2, <1>3, <1>4, <1>5 DEF SDNext, Light

\* A phase that has been posted lasts a second at least.
LEMMA PostedLong ==
    ASSUME TypeInv, StudyInv, TaughtInv, noticed, posted[phase]
    PROVE  length >= 10
<1>1. phase \in Colour
  BY TheOneBefore DEF TypeInv, StudyTypeOK, L!StudyTypeOK
<1>2. time[phase][1] = time[phase][2]
  BY DEF StudyInv, Posting
<1>3. ~Untaught
  BY <1>1, <1>2 DEF Untaught
<1>4. PICK c \in Colour : \E d \in Durations[c] : length = 10 * d
  BY <1>3 DEF TaughtInv
<1>5. PICK d \in Durations[c] : length = 10 * d
  BY <1>4
<1>6. d \in Nat \ {0}
  BY StudyAssumption
<1> QED
  BY <1>5, <1>6

-----------------------------------------------------------------------------
(***************************************************************************)
(* The handshake against the clock.                                        *)
(***************************************************************************)

\* The colour that a pass draws is the one that is on.
LEMMA PassSees ==
    ASSUME TypeInv, WiringInv, config.motor
    PROVE  LightChanged = phase
<1>1. phase \in Colour
  BY SameColour DEF TypeInv, StudyTypeOK, L!StudyTypeOK
<1> QED
  BY <1>1 DEF WiringInv, LightChanged, Colour

\* How long the thread stays where it is.
LEMMA StaysFor ==
    ASSUME TypeInv, CountInv, Prompt
    PROVE  /\ elapsed \in Nat /\ age \in Nat
           /\ pc \notin Sleep => elapsed <= 1
           /\ pc = "Shown" => elapsed <= 1
           /\ pc \in {"ClearLoop", "ClearLoad"} => elapsed <= 2
<1>1. /\ elapsed \in Nat /\ age \in Nat /\ Burst \in Nat /\ Burst <= 1
      /\ elapsed <= AtMost(pc)
  BY CountdownAssumption
     DEF Prompt, CountInv, TypeInv, CountdownTypeOK, StudyTypeOK, L!StudyTypeOK
<1>2. pc \notin Sleep => AtMost(pc) = Burst
  BY DEF AtMost, Sleep, Long, Short
<1>3. pc = "Shown" => AtMost(pc) = 1
  BY DEF AtMost, Sleep, Long, Short
<1>4. pc \in {"ClearLoop", "ClearLoad"} => AtMost(pc) = 2
  BY DEF AtMost, Sleep, Long, Short
<1> QED
  BY <1>1, <1>2, <1>3, <1>4

\* There is still way to go.
LEMMA WayLeft ==
    ASSUME TypeInv, CountInv, WiringInv, Prompt
    PROVE  UntilLoad \in Nat
<1>1. pc \in Sleep => pc \in {"Shown", "ClearLoop", "ClearLoad"}
  BY DEF WiringInv, Places, Testing, Fetching, Loading, Sleep
<1>2. /\ elapsed \in Nat /\ elapsed <= 2
      /\ pc \notin {"ClearLoop", "ClearLoad"} => elapsed <= 1
  BY <1>1, StaysFor
<1>3. /\ Way(pc, seen = phase) \in Nat /\ Way(pc, seen = phase) >= 1
      /\ pc \in {"ClearLoop", "ClearLoad"} => Way(pc, seen = phase) >= 3
  BY DEF Way, Testing, Loading
<1> QED
  BY <1>2, <1>3 DEF UntilLoad

\* A step of the display brings the thread no farther from the number.
LEMMA DisplayNears ==
    ASSUME TypeInv, CountInv, WiringInv, HandedInv, Prompt, config.motor,
           flag[phase], Display, pc # "Drop",
           NEW n \in Int, UntilLoad <= n
    PROVE  UntilLoad' <= n
<1> USE DEF HandedInv
<1>0. /\ elapsed \in Nat /\ phase' = phase /\ config.rled
      /\ phase \in Colour /\ seen \in Colour /\ mode[phase]
  BY SameColour DEF Display, learning, TypeInv, CountdownTypeOK, StudyTypeOK,
     L!StudyTypeOK, Prompt
<1>1. CASE Pass
  <2>1. pc = "Pass" /\ pc' = "Branch" /\ seen' = phase /\ elapsed' = elapsed
    BY <1>0, <1>1, PassSees DEF Pass, Continue
  <2> QED
    BY <1>0, <2>1 DEF UntilLoad, Way, Testing, Loading
<1>2. CASE BranchNoPost
  <2>1. /\ pc = "Branch" /\ pc' = "ClearLoop" /\ seen' = seen /\ elapsed' = 0
        /\ seen # phase /\ elapsed <= 1
    BY <1>0, <1>2, StaysFor DEF BranchNoPost, Clear_Display, FallAsleep, Sleep
  <2> QED
    BY <1>0, <2>1 DEF UntilLoad, Way, Testing, Loading
<1>3. CASE BranchPost \/ SetType \/ YellowPost
  <2>1. pc \in Testing /\ pc' \in Testing /\ seen' = seen /\ elapsed' = elapsed
    BY <1>3 DEF BranchPost, SetType, YellowPost, Continue, Testing
  <2> QED
    BY <1>0, <2>1 DEF UntilLoad, Way, Testing, Loading
<1>4. CASE YellowNoPost
  <2>1. /\ pc = "Mode" /\ pc' = "Pass" /\ seen' = seen /\ elapsed' = 0
        /\ seen # phase /\ elapsed <= 1
    BY <1>0, <1>4, StaysFor DEF YellowNoPost, Sleep
  <2> QED
    BY <1>0, <2>1 DEF UntilLoad, Way, Testing, Loading
<1>5. CASE TestFlag /\ flag[seen]
  <2>1. /\ pc = "Flag" /\ pc' = "ClearLoad" /\ seen' = seen /\ elapsed' = 0
        /\ seen = phase /\ elapsed <= 1
    BY <1>0, <1>5, StaysFor DEF TestFlag, Clear_Display, FallAsleep, Sleep
  <2> QED
    BY <1>0, <2>1 DEF UntilLoad, Way, Testing, Loading
<1>6. CASE TestFlag /\ ~flag[seen]
  <2>1. /\ pc = "Flag" /\ pc' = "Show" /\ seen' = seen /\ elapsed' = elapsed
        /\ seen # phase
    BY <1>0, <1>6 DEF TestFlag, Continue
  <2> QED
    BY <1>0, <2>1 DEF UntilLoad, Way, Testing, Loading
<1>7. CASE ZeroFirst \/ ZeroSecond \/ ClearSync \/ Load
  <2>1. /\ pc \in Loading /\ pc' \in Loading \cup {"Drop"} /\ seen' = seen
        /\ elapsed' = elapsed
    BY <1>7 DEF ZeroFirst, ZeroSecond, ClearSync, Load, Continue, Loading
  <2> QED
    BY <1>0, <2>1 DEF UntilLoad, Way
<1>8. CASE Show
  <2>1. /\ pc = "Show" /\ pc' \in {"Shown", "ClearLoop"} /\ seen' = seen
        /\ elapsed' = 0 /\ elapsed <= 1
    BY <1>0, <1>8, StaysFor DEF Show, Clear_Display, FallAsleep, Sleep, WiringInv
  <2> QED
    BY <1>0, <2>1 DEF UntilLoad, Way, Testing, Loading
<1>9. CASE Wake
  <2>1. /\ pc \in {"Shown", "ClearLoop", "ClearLoad"} /\ elapsed' = 0
        /\ seen' = seen
        /\ pc' = IF pc = "ClearLoad" THEN "ZeroFirst" ELSE "Pass"
    BY <1>9 DEF Wake, Asleep, Sleep, WiringInv, Places, Testing, Fetching, Loading
  <2>2. /\ pc = "Shown" => elapsed <= 1
        /\ pc # "Shown" => elapsed <= 2
    BY <2>1, StaysFor
  <2> QED
    BY <1>0, <2>1, <2>2 DEF UntilLoad, Way, Testing, Loading
<1>10. pc \notin {"Black", "H", "Rest", "Drop"}
  BY DEF WiringInv, Places, Testing, Fetching, Loading
<1> QED
  BY <1>1, <1>2, <1>3, <1>4, <1>5, <1>6, <1>7, <1>8, <1>9, <1>10
     DEF Display, DisplayStep, DropFlag, OnlyRed

\* A new sign has no flags.
LEMMA HandedInit == SDInit => SightInv /\ HandedInv
<1> SUFFICES ASSUME SDInit PROVE SightInv /\ HandedInv
  OBVIOUS
<1>1. /\ pc = "Pass" /\ ~noticed /\ \A c \in Colour : ~flag[c]
      /\ phase \in Colour
  <2>1. pc = "Pass" /\ ~noticed /\ flag = [c \in Colour |-> FALSE]
    BY DEF SDInit, CountdownInit, L!StudyInit
  <2>2. phase \in Colour
    BY DEF SDInit, L!StudyInit, L!Watched, L!Colour, Colour
  <2> QED
    BY <2>1, <2>2
<1> QED
  BY <1>1 DEF SightInv, HandedInv, Testing, Fetching, Loading

\* While a pass runs it sees the lamp once.
LEMMA SightStep ==
    ASSUME TypeInv, CountInv, WiringInv, SightInv, HandedInv, [SDNext]_sdVars,
           Prompt, config.motor
    PROVE  SightInv'
<1> USE DEF SightInv
<1>0. elapsed \in Nat /\ age \in Nat
  BY StaysFor
<1>1. CASE Display
  <2>1. UNCHANGED <<phase, age>>
    BY <1>1 DEF Display, learning
  <2>2. CASE Pass
    <3>1. seen' = phase
      BY <2>2, PassSees DEF Pass
    <3> QED
      BY <2>1, <3>1
  <2>3. CASE DropFlag
    <3>1. pc = "Drop" /\ seen' = seen
      BY <2>3 DEF DropFlag
    <3>2. seen = phase
      BY <3>1 DEF HandedInv, TypeInv, CountdownTypeOK
    <3> QED
      BY <2>1, <3>1, <3>2
  <2>4. CASE ~Pass /\ ~DropFlag
    <3>1. /\ seen' = seen
          /\ pc' \in Testing \cup {"Show"} =>
                pc \in Testing \cup {"Show"} /\ elapsed' = elapsed
      BY <1>1, <2>4 DEF Display, DisplayStep, BranchNoPost, BranchPost, SetType,
         YellowNoPost, YellowPost, TestFlag, ZeroFirst, ZeroSecond, ClearSync,
         Load, Show, OnlyRed, Wake, Continue, FallAsleep, Clear_Display, Testing
    <3> QED
      BY <2>1, <3>1
  <2> QED
    BY <2>2, <2>3, <2>4
<1>2. CASE Poll
  <2>1. UNCHANGED <<pc, seen, elapsed, phase, age>>
    BY <1>2 DEF Poll, L!Poll, L!plan, thread
  <2> QED
    BY <2>1
<1>3. CASE Tick
  <2>1. /\ UNCHANGED <<pc, seen, phase>>
        /\ elapsed' = elapsed + 1 /\ age' = age + 1
    BY <1>3 DEF Tick, L!Expiry, timeout
  <2> QED
    BY <1>0, <2>1
<1>4. CASE Light
  <2>1. UNCHANGED <<pc, seen, elapsed>>
    BY <1>4 DEF Light, thread
  <2>2. age' = 0 \/ UNCHANGED <<phase, age>>
    BY <1>4 DEF Light, L!FlashToggle, L!NextPhase
  <2> QED
    BY <1>0, <2>1, <2>2
<1>5. CASE UNCHANGED sdVars
  BY <1>5 DEF sdVars, vars, thread, learning
<1> QED
  BY <1>1, <1>2, <1>3, <1>4, <1>5 DEF SDNext

\* What the display thread does to flags and modes while it takes over.
LEMMA DisplayHands ==
    ASSUME TypeInv, WiringInv, HandedInv, Prompt, config.motor, Display
    PROVE  /\ pc' \in Fetching \cup {"Drop"} => flag'[seen']
           /\ \A c \in Colour : flag'[c] => flag[c]
           /\ pc = "Drop" => ~flag'[phase]
           /\ noticed /\ posted[phase] => mode'[phase]
<1> USE DEF HandedInv
<1>0. /\ phase \in Colour /\ seen \in Colour
      /\ mode \in [Colour -> BOOLEAN] /\ flag \in [Colour -> BOOLEAN]
  BY SameColour DEF TypeInv, CountdownTypeOK, StudyTypeOK, L!StudyTypeOK
<1>1. CASE TestFlag
  <2>1. /\ seen' = seen /\ UNCHANGED <<flag, mode>> /\ pc = "Flag"
        /\ IF flag[seen] THEN pc' = "ClearLoad" ELSE pc' = "Show"
    BY <1>1 DEF TestFlag, Clear_Display, FallAsleep, Continue, shared
  <2> QED
    BY <1>0, <2>1 DEF Fetching, Loading
<1>2. CASE ZeroFirst \/ ZeroSecond
  <2>1. /\ seen' = seen /\ pc \in Loading /\ pc' \in Loading /\ UNCHANGED flag
        /\ \/ mode' = [mode EXCEPT ![FirstOther(seen)] = FALSE]
           \/ mode' = [mode EXCEPT ![SecondOther(seen)] = FALSE]
    BY <1>2 DEF ZeroFirst, ZeroSecond, Continue, Loading
  <2>2. flag[seen] /\ seen = phase
    BY <1>0, <2>1 DEF Fetching
  <2>3. mode'[phase] = mode[phase]
    BY <1>0, <2>1, <2>2, TheOthers
  <2>4. pc # "Drop"
    BY <2>1 DEF Loading
  <2> QED
    BY <2>1, <2>2, <2>3, <2>4
<1>3. CASE ClearSync \/ Load
  <2>1. seen' = seen /\ pc \in Loading /\ UNCHANGED <<flag, mode>> /\ pc # "Drop"
    BY <1>3 DEF ClearSync, Load, shared, Loading
  <2> QED
    BY <2>1 DEF Fetching
<1>4. CASE DropFlag
  <2>1. /\ pc = "Drop" /\ pc' = "Show" /\ UNCHANGED <<mode, seen>>
        /\ flag' = [flag EXCEPT ![seen] = FALSE]
    BY <1>4 DEF DropFlag, Continue
  <2>2. seen = phase
    BY <1>0, <2>1
  <2> QED
    BY <1>0, <2>1, <2>2 DEF Fetching, Loading
<1>5. CASE Wake
  <2>1. /\ UNCHANGED <<flag, mode, seen>> /\ pc # "Drop"
        /\ pc' = IF pc = "ClearLoad" THEN "ZeroFirst"
                 ELSE IF pc = "BlinkOn" THEN "BlinkOff" ELSE "Pass"
    BY <1>5 DEF Wake, shared, Asleep, Sleep
  <2> QED
    BY <2>1 DEF Fetching, Loading
<1>6. CASE Pass \/ BranchNoPost \/ BranchPost \/ SetType \/ YellowNoPost
            \/ YellowPost \/ Show \/ OnlyRed
  <2>1. UNCHANGED <<flag, mode>> /\ pc' \notin Fetching \cup {"Drop"} /\ pc # "Drop"
    BY <1>6 DEF Pass, BranchNoPost, BranchPost, SetType, YellowNoPost,
       YellowPost, Show, OnlyRed, shared, Continue, FallAsleep, Clear_Display,
       Fetching, Loading
  <2> QED
    BY <2>1
<1> QED
  BY <1>1, <1>2, <1>3, <1>4, <1>5, <1>6 DEF Display, DisplayStep

\* One step per kind of action.
LEMMA HandedStep ==
    ASSUME TypeInv, StudyInv, CountInv, WiringInv, TaughtInv, SightInv, HandedInv,
           [SDNext]_sdVars, Prompt, config.motor
    PROVE  HandedInv'
<1>0. /\ elapsed \in Nat /\ age \in Nat /\ phase \in Colour
      /\ mode \in [Colour -> BOOLEAN] /\ flag \in [Colour -> BOOLEAN]
      /\ UntilLoad \in Int
  <2>1. elapsed \in Nat /\ age \in Nat
    BY StaysFor
  <2>2. UntilLoad \in Int
    BY <2>1 DEF UntilLoad, Way
  <2> QED
    BY <2>1, <2>2, SameColour
       DEF TypeInv, CountdownTypeOK, StudyTypeOK, L!StudyTypeOK
<1>1. CASE Display
  <2>1. UNCHANGED <<phase, age, noticed, posted, type>>
    BY <1>1 DEF Display, DisplayStep, Pass, BranchNoPost, BranchPost, SetType,
       YellowNoPost, YellowPost, TestFlag, ZeroFirst, ZeroSecond, ClearSync,
       Load, DropFlag, Show, OnlyRed, Wake, shared, learning
  <2>2. /\ pc' \in Fetching \cup {"Drop"} => flag'[seen']
        /\ \A c \in Colour : flag'[c] => flag[c]
        /\ pc = "Drop" => ~flag'[phase]
        /\ noticed /\ posted[phase] => mode'[phase]
    BY <1>1, DisplayHands
  <2>3. ASSUME flag'[phase]
        PROVE  UntilLoad' <= 8 - age
    <3>1. /\ flag[phase] /\ UntilLoad <= 8 - age /\ pc # "Drop"
          /\ 8 - age \in Int
      BY <1>0, <2>2, <2>3 DEF HandedInv
    <3> QED
      BY <1>1, <3>1, DisplayNears
  <2> QED
    BY <2>1, <2>2, <2>3 DEF HandedInv
<1>2. CASE Poll
  <2>1. L!Poll /\ UNCHANGED <<pc, seen, elapsed>>
    BY <1>2 DEF Poll, thread
  <2>2. UNCHANGED <<phase, age>> /\ UntilLoad' = UntilLoad
    BY <2>1 DEF L!Poll, L!plan, UntilLoad
  <2>3. CASE /\ UNCHANGED <<num, mode, flag, type, blind>>
             /\ (noticed' /\ posted'[phase]) <=> (noticed /\ posted[phase])
    BY <1>0, <2>1, <2>2, <2>3 DEF HandedInv
  <2>4. CASE /\ ~noticed /\ noticed' /\ posted'[phase] /\ type'
             /\ mode' = [mode EXCEPT ![phase] = TRUE]
             /\ flag' = [flag EXCEPT ![phase] = TRUE]
    <3>1. \A c \in Colour : ~flag[c]
      BY <2>4 DEF HandedInv
    <3>2. pc \notin Fetching \cup {"Drop"}
      BY <3>1 DEF HandedInv, TypeInv, CountdownTypeOK
    <3>3. UntilLoad <= 8 - age
      <4>1. age <= 1
        BY <1>0, <2>4 DEF StudyInv, Fresh
      <4>2. Way(pc, seen = phase) \in 1 .. 7
        BY DEF Way
      <4> QED
        BY <1>0, <4>1, <4>2 DEF UntilLoad
    <3>4. /\ mode'[phase] /\ \A c \in Colour : flag'[c] => c = phase
      BY <1>0, <2>4, <3>1
    <3> QED
      BY <1>0, <2>1, <2>2, <2>4, <3>2, <3>3, <3>4 DEF HandedInv
  <2> QED
    BY <2>1, <2>3, <2>4, PollHands
<1>3. CASE Tick
  <2>1. /\ UNCHANGED <<pc, seen, phase, noticed, posted, mode, flag, type>>
        /\ elapsed' = elapsed + 1 /\ age' = age + 1
    BY <1>3 DEF Tick, L!Expiry, timeout, shared
  <2>2. UntilLoad' = UntilLoad - 1
    BY <1>0, <2>1 DEF UntilLoad, Way
  <2>3. UntilLoad <= 8 - age => UntilLoad' <= 8 - age'
    BY <1>0, <2>1, <2>2
  <2> QED
    BY <2>1, <2>3 DEF HandedInv
<1>4. CASE Light /\ L!FlashToggle
  <2>1. UNCHANGED <<pc, seen, elapsed, phase, age, noticed, posted, mode, flag, type>>
    BY <1>4 DEF Light, thread, L!FlashToggle, L!learner, L!post
  <2> QED
    BY <2>1 DEF HandedInv, UntilLoad
<1>5. CASE Light /\ L!NextPhase
  <2>1. /\ UNCHANGED <<pc, seen, flag>> /\ ~noticed' /\ age = length
    BY <1>5 DEF Light, thread, L!NextPhase, L!post
  <2>2. ~flag[phase]
    <3>1. flag[phase] => length >= 10 /\ UntilLoad <= 8 - age
      BY <1>0, PostedLong DEF HandedInv
    <3>2. UntilLoad \in Nat
      BY WayLeft
    <3> QED
      BY <1>0, <2>1, <3>1, <3>2
  <2>3. \A c \in Colour : ~flag[c]
    BY <2>2 DEF HandedInv
  <2>4. pc \notin Fetching \cup {"Drop"} /\ phase' \in Colour
    <3>1. phase' \in Colour
      BY <1>5, TheOneBefore DEF L!NextPhase, TypeInv, StudyTypeOK, L!StudyTypeOK
    <3> QED
      BY <2>3, <3>1 DEF HandedInv, TypeInv, CountdownTypeOK
  <2> QED
    BY <2>1, <2>3, <2>4 DEF HandedInv
<1>6. CASE UNCHANGED sdVars
  <2>1. UNCHANGED <<pc, seen, elapsed, phase, age, noticed, posted, mode, flag, type>>
    BY <1>6 DEF sdVars, vars, thread, learning, shared
  <2> QED
    BY <2>1 DEF HandedInv, UntilLoad
<1> QED
  BY <1>1, <1>2, <1>3, <1>4, <1>5, <1>6 DEF SDNext, Light

-----------------------------------------------------------------------------
\* The switches of a sign are read once.
LEMMA SameConfig == [SDNext]_sdVars => config' = config
BY DEF SDNext, Display, DisplayStep, Pass, BranchNoPost, BranchPost, SetType,
   YellowNoPost, YellowPost, TestFlag, ZeroFirst, ZeroSecond, ClearSync, Load,
   DropFlag, Show, OnlyRed, Wake, Poll, Tick, timeout, Light, sdVars, vars

LEMMA TakenStep ==
    ASSUME SDInv, StudyInv, TakenInv, [SDNext]_sdVars, Prompt
    PROVE  TakenInv'
<1>1. TypeInv /\ CountInv
  BY DEF SDInv
<1>2. WiringInv' /\ TaughtInv'
  BY <1>1, WiringStep, TaughtStep DEF TakenInv
<1>3. CASE config.motor
  BY <1>1, <1>2, <1>3, SightStep, HandedStep DEF TakenInv
<1>4. CASE ~config.motor
  BY <1>2, <1>4, SameConfig DEF TakenInv
<1> QED
  BY <1>3, <1>4

LEMMA TakenInvariant == ASSUME Prompt PROVE SDSpec => []TakenInv
<1>1. SDInit => TakenInv
  BY WiringInit, TaughtInit, HandedInit DEF TakenInv
<1>2. SDInv /\ TypeInv /\ StudyInv /\ TakenInv /\ [SDNext]_sdVars => TakenInv'
  BY TakenStep
<1> QED
  BY <1>1, <1>2, SDInvariant, StudyInvariant, PTL DEF SDSpec

\* A learned phase is on the face of a vehicle sign nine tenths after the lamp
\* changed: flag, clear and load are through, wherever in its loop and in
\* which sleep the change and the study thread caught the display thread.
THEOREM LearnedTakenInTime ==
    ASSUME Burst <= 1, \A x \in Configs : x.rled
    PROVE  SDSpec => []TakenInTime
<1>1. Prompt
  BY DEF Prompt
<1>2. SDInv /\ TakenInv => TakenInTime
  <2> SUFFICES ASSUME SDInv, TakenInv, config.motor, posted[phase], noticed,
                      age >= 9
               PROVE  owner = phase /\ ~flag[phase]
    BY DEF TakenInTime
  <2>1. HandedInv /\ UntilLoad \in Nat /\ age \in Nat /\ phase \in Colour
    BY <1>1, WayLeft, StaysFor, SameColour
       DEF SDInv, TakenInv, TypeInv, StudyTypeOK, L!StudyTypeOK
  <2>2. ~flag[phase]
    BY <2>1 DEF HandedInv
  <2>3. mode[phase]
    BY <2>1 DEF HandedInv
  <2> QED
    BY <2>1, <2>2, <2>3 DEF SDInv, TakeOver
<1> QED
  BY <1>1, <1>2, SDInvariant, TakenInvariant, PTL
-----------------------------------------------------------------------------
(***************************************************************************)
(* The end of the count and the end of the phase.                          *)
(***************************************************************************)

\* A pedestrian sign draws no numbers.
PeopleInv ==
    ~config.motor => owner = "none" /\ seen # "Y" /\ pc \in {"Pass", "Branch", "ClearLoop"}

\* A phase that has ended has been measured when the next one is noticed,
\* unless it was on when the power came up.
PastInv ==
    /\ \A c \in Colour : (noticed \/ c # Last) /\ past[c][1] > 0 => measured[c] >= 1
    /\ ~noticed => timing[Last] \/ past[Last][1] = 0

\* The number on the way down is not one before the new number is loaded, so
\* its end cannot switch the counting off under the new number.
Far == curNum = 0 \/ UntilLoad <= curNum - 2

\* The thread is past the place where it reads type, in a pass that loads.
Typed ==
    seen = phase /\ (pc \in Fetching \cup {"Flag"} \/ (pc = "Mode" /\ seen = "Y"))

\* While a flag is up: the load is near, or the old count is far from its end,
\* or it is about to be drawn once more.
FetchInv ==
    flag[phase] /\ pc # "Drop" =>
        \/ UntilLoad <= 7 - age
        \/ Far /\ (Typed => countdownType)
        \/ pc = "Show" /\ curNum \in 1 .. MaxShown

\* The most expiries that pass before type is read, after a load.
UntilType ==
    (IF pc \in {"Drop", "Show"} THEN 3 ELSE IF pc = "Shown" THEN 2 ELSE 1) - elapsed

\* The count lags the phase by nine tenths at most.
LagInv ==
    IF countdownType THEN age <= ran + 9
    ELSE /\ pc \in {"Drop", "Show", "Shown", "Pass", "Branch", "Mode"}
         /\ pc = "Mode" => seen # "Y"
         /\ UntilType <= ran + 9 - age

\* The phase has been posted and its number has been loaded.
Taken == noticed /\ posted[phase] /\ (~flag[phase] \/ pc = "Drop")

RanInv ==
    Taken => /\ loaded = num[phase] /\ seen = phase
             /\ curNum >= 2 /\ loaded <= MaxShown => LagInv

EndInv ==
    /\ PeopleInv /\ PastInv
    /\ config.motor => FetchInv /\ RanInv

\* The dial and the lengths that are learned fit the sign.
Fits ==
    /\ Prompt
    /\ PerSecond = 10 /\ MaxShown >= 8
    /\ \A c \in Colour : \A d \in Durations[c] : d <= MaxShown

-----------------------------------------------------------------------------
LEMMA EndInit == SDInit => EndInv
<1> SUFFICES ASSUME SDInit PROVE EndInv
  OBVIOUS
<1>1. /\ owner = "none" /\ seen = "G" /\ pc = "Pass" /\ ~noticed
      /\ past = [c \in Colour |-> <<0, 0>>]
      /\ flag = [c \in Colour |-> FALSE]
  BY SameColour DEF SDInit, CountdownInit, L!StudyInit
<1>2. Last \in Colour /\ phase \in Colour
  BY InitTypeInv, TheOneBefore DEF TypeInv, StudyTypeOK, L!StudyTypeOK, Last
<1>3. \A c \in Colour : past[c][1] = 0
  BY <1>1
<1> QED
  BY <1>1, <1>2, <1>3 DEF EndInv, PeopleInv, PastInv, FetchInv, RanInv, Taken

LEMMA PeopleStep ==
    ASSUME TypeInv, WiringInv, PeopleInv, [SDNext]_sdVars, Prompt
    PROVE  PeopleInv'
<1> USE DEF PeopleInv
<1>1. config.rled /\ config' = config
  BY SameConfig DEF Prompt, TypeInv, CountdownTypeOK
<1>2. CASE Display
  BY <1>1, <1>2 DEF Display, DisplayStep, Pass, BranchNoPost, BranchPost, SetType,
     YellowNoPost, YellowPost, TestFlag, ZeroFirst, ZeroSecond, ClearSync, Load,
     DropFlag, Show, OnlyRed, Wake, LightChanged, Continue, FallAsleep,
     Clear_Display, history
<1>3. CASE Poll \/ Tick \/ Light \/ UNCHANGED sdVars
  <2>1. UNCHANGED <<owner, seen, pc>>
    BY <1>3 DEF Poll, Tick, timeout, Light, thread, history, sdVars, vars
  <2> QED
    BY <1>1, <2>1
<1> QED
  BY <1>2, <1>3 DEF SDNext

LEMMA PastStep ==
    ASSUME TypeInv, StudyInv, PastInv, [SDNext]_sdVars
    PROVE  PastInv'
<1>0. /\ phase \in Colour /\ Last \in Colour /\ Last # phase
      /\ measured \in [Colour -> 0 .. 3] /\ past \in [Colour -> Nat \X Nat]
      /\ timing \in [Colour -> BOOLEAN]
  BY TheOneBefore, SameColour DEF TypeInv, StudyTypeOK, L!StudyTypeOK, Last
<1>1. CASE Display \/ Tick \/ (Light /\ L!FlashToggle) \/ (Poll /\ ~lit)
              \/ UNCHANGED sdVars
  <2>1. UNCHANGED <<m_or_p, phase, noticed, past, measured, timing>>
    BY <1>1, DarkPoll DEF Display, learning, Tick, L!Expiry, L!FlashToggle,
       L!learner, Poll, sdVars
  <2> QED
    BY <2>1 DEF PastInv, Last, L!Before
<1>2. CASE Poll /\ lit
  <2>1. L!Learn(phase) /\ noticed' /\ UNCHANGED <<m_or_p, phase, past>>
    BY <1>2, PollFacts DEF Poll
  <2>2. measured' = IF timing[Last] /\ measured[Last] < 3
                      THEN [measured EXCEPT ![Last] = measured[Last] + 1]
                      ELSE measured
    BY <2>1 DEF L!Learn, Last
  <2>3. \A c \in Colour : c # Last => measured'[c] = measured[c]
    BY <1>0, <2>2
  <2>4. noticed => ~timing[Last]
    BY <1>0 DEF StudyInv, Timing
  <2>5. past[Last][1] > 0 => measured'[Last] >= 1
    <3>1. CASE noticed
      BY <1>0, <2>2, <2>4, <3>1 DEF PastInv
    <3>2. CASE ~noticed /\ timing[Last]
      <4>1. measured[Last] \in 0 .. 3
        BY <1>0
      <4>2. measured[Last] < 3 => measured'[Last] = measured[Last] + 1
        BY <1>0, <2>2, <3>2
      <4>3. ~(measured[Last] < 3) => measured'[Last] = measured[Last]
        BY <2>2
      <4> QED
        BY <4>1, <4>2, <4>3
    <3>3. CASE ~noticed /\ ~timing[Last]
      BY <1>0, <3>3 DEF PastInv
    <3> QED
      BY <3>1, <3>2, <3>3
  <2> QED
    BY <2>1, <2>3, <2>5 DEF PastInv
<1>3. CASE Light /\ L!NextPhase
  <2>1. /\ ~noticed' /\ age = length /\ UNCHANGED <<m_or_p, measured, timing>>
        /\ past' = [past EXCEPT ![phase] = <<length, past[phase][1]>>]
        /\ \E c \in L!Watched : L!Before(c) = phase /\ phase' = c
    BY <1>3 DEF L!NextPhase, L!learner
  <2>2. Last' = phase
    BY <2>1 DEF Last, L!Before
  <2>3. noticed
    BY <2>1 DEF StudyInv, Fresh
  <2>4. timing[phase]
    BY <1>0, <2>3 DEF StudyInv, Timing
  <2>5. \A c \in Colour : c # phase => past'[c] = past[c]
    BY <1>0, <2>1
  <2> QED
    BY <2>1, <2>2, <2>3, <2>4, <2>5 DEF PastInv
<1> QED
  BY <1>1, <1>2, <1>3 DEF SDNext, Light

-----------------------------------------------------------------------------
\* What an expiry does to the count.
LEMMA TickCounts ==
    ASSUME TypeInv, CountInv, Tick
    PROVE  /\ curNum = 0 => curNum' = 0
           /\ curNum >= 1 => curNum' \in {curNum, curNum - 1}
           /\ curNum >= 3 => curNum' >= 2
           /\ countdownType /\ curNum # 1 => countdownType'
           /\ ~countdownType => ~countdownType' /\ curNum' = curNum /\ ran' = ran
           /\ countdownType /\ curNum >= 1 => ran' = ran + 1
<1>1. curNum \in Nat
  BY CountdownAssumption DEF TypeInv, CountdownTypeOK
<1>2. IF countdownType THEN Count ELSE UNCHANGED <<counter, ran>>
  BY DEF Tick, timeout
<1>3. CASE countdownType
  <2>1. Count
    BY <1>2, <1>3
  <2>2. countdownType' = (curNum # 1)
    BY <2>1 DEF Count
  <2>3. /\ curNum = 0 => curNum' = 0
        /\ curNum >= 1 => curNum' \in {curNum, curNum - 1} /\ ran' = ran + 1
        /\ curNum >= 3 => curNum' >= 2
    BY <1>1, <2>1 DEF Count, SecondOver, LastOver
  <2> QED
    BY <1>3, <2>2, <2>3
<1>4. CASE ~countdownType
  BY <1>1, <1>2, <1>4 DEF counter
<1> QED
  BY <1>3, <1>4

\* The facts about an expiry that the two invariants share.
LEMMA TickMoves ==
    ASSUME TypeInv, CountInv, Prompt, Tick
    PROVE  /\ UNCHANGED <<config, pc, seen, phase, noticed, posted, num, mode,
                          flag, type, owner, loaded>>
           /\ elapsed' = elapsed + 1 /\ age' = age + 1
           /\ UntilLoad \in Int /\ UntilLoad' = UntilLoad - 1
           /\ UntilType \in Int /\ UntilType' = UntilType - 1
<1>1. elapsed \in Nat
  BY StaysFor
<1>2. /\ UNCHANGED <<config, pc, seen, phase, noticed, posted, num, mode,
                     flag, type, owner, loaded>>
      /\ elapsed' = elapsed + 1 /\ age' = age + 1
  BY DEF Tick, L!Expiry, timeout, shared
<1>3. Way(pc, seen = phase) \in Nat
  BY DEF Way
<1>4. UntilLoad \in Int /\ UntilLoad' = UntilLoad - 1
  BY <1>1, <1>2, <1>3 DEF UntilLoad
<1>5. UntilType \in Int /\ UntilType' = UntilType - 1
  BY <1>1, <1>2 DEF UntilType
<1> QED
  BY <1>2, <1>4, <1>5

\* What a step of the display thread does to the count and to its type.
LEMMA DisplayCounts ==
    ASSUME TypeInv, Display
    PROVE  /\ UNCHANGED <<config, phase, age, noticed, posted, num, type>>
           /\ ~Load => UNCHANGED <<curNum, ran, loaded, owner>>
           /\ ~SetType => UNCHANGED countdownType
           /\ ~Pass => UNCHANGED seen
           /\ ~DropFlag => UNCHANGED flag
BY DEF Display, DisplayStep, Pass, BranchNoPost, BranchPost, SetType,
   YellowNoPost, YellowPost, TestFlag, ZeroFirst, ZeroSecond, ClearSync, Load,
   DropFlag, Show, OnlyRed, Wake, learning, shared, counter, history

\* While a flag is up.
LEMMA DisplayFetches ==
    ASSUME TypeInv, CountInv, WiringInv, SightInv, HandedInv, FetchInv, Display,
           Fits, config.motor, flag'[phase'], pc' # "Drop"
    PROVE  FetchInv'
<1> USE DEF Fits
<1>0. /\ elapsed \in Nat /\ age \in Nat /\ curNum \in Nat /\ UntilLoad \in Int
      /\ flag \in [Colour -> BOOLEAN] /\ phase \in Colour /\ seen \in Colour
      /\ MaxShown \in Nat
  <2>1. elapsed \in Nat /\ age \in Nat
    BY StaysFor
  <2> QED
    BY <2>1, SameColour, CountdownAssumption
       DEF UntilLoad, Way, TypeInv, CountdownTypeOK, StudyTypeOK, L!StudyTypeOK
<1>1. /\ UNCHANGED <<config, phase, age, noticed, posted, num, type>>
      /\ ~Load => UNCHANGED <<curNum, ran, loaded, owner>>
      /\ ~SetType => UNCHANGED countdownType
      /\ ~Pass => UNCHANGED seen
      /\ ~DropFlag => UNCHANGED flag
  BY DisplayCounts
<1>2. flag[phase] /\ pc # "Drop"
  BY <1>0, <1>1, DisplayHands
<1>3. ~Load /\ ~DropFlag
  BY <1>2 DEF Load, DropFlag, Continue
<1>4. CASE UntilLoad <= 7 - age
  <2>1. 7 - age \in Int
    BY <1>0
  <2>2. UntilLoad' <= 7 - age
    BY <1>2, <1>4, <2>1, DisplayNears
  <2> QED
    BY <1>1, <2>2 DEF FetchInv
<1>5. CASE Far /\ (Typed => countdownType)
  <2>1. Far'
    <3>1. CASE curNum = 0
      BY <1>1, <1>3, <3>1 DEF Far
    <3>2. CASE UntilLoad <= curNum - 2
      <4>1. curNum - 2 \in Int
        BY <1>0
      <4>2. UntilLoad' <= curNum - 2
        BY <1>2, <3>2, <4>1, DisplayNears
      <4> QED
        BY <1>1, <1>3, <4>2 DEF Far
    <3> QED
      BY <1>5, <3>1, <3>2 DEF Far
  <2>2. Typed' => countdownType'
    <3>1. CASE SetType
      <4>1. type
        BY <1>0, <1>2 DEF HandedInv
      <4> QED
        BY <3>1, <4>1 DEF SetType
    <3>2. CASE ~SetType
      <4>1. Typed' => Typed
        BY <1>1, <1>3, <3>2 DEF Display, DisplayStep, Pass, BranchNoPost,
           BranchPost, YellowNoPost, YellowPost, TestFlag, ZeroFirst, ZeroSecond,
           ClearSync, Show, OnlyRed, Wake, Asleep, Sleep, Continue,
           FallAsleep, Clear_Display, Typed, Fetching, Loading
      <4> QED
        BY <1>1, <1>5, <3>2, <4>1
    <3> QED
      BY <3>1, <3>2
  <2> QED
    BY <2>1, <2>2 DEF FetchInv
<1>6. CASE pc = "Show" /\ curNum \in 1 .. MaxShown
  <2>1. Show
    BY <1>6 DEF Display, DisplayStep, Pass, BranchNoPost, BranchPost, SetType,
       YellowNoPost, YellowPost, TestFlag, ZeroFirst, ZeroSecond, ClearSync,
       Load, DropFlag, OnlyRed, Wake, Asleep, Sleep
  <2>2. pc' = "Shown" /\ elapsed' = 0
    BY <1>6, <2>1 DEF Show, FallAsleep, WiringInv
  <2>3. UntilLoad' = 5
    BY <2>2 DEF UntilLoad, Way, Testing, Loading
  <2>4. UntilLoad = 7 - elapsed /\ elapsed <= 1
    BY <1>6, StaysFor DEF UntilLoad, Way, Testing, Loading, Sleep
  <2>5. UntilLoad <= 8 - age
    BY <1>2 DEF HandedInv
  <2>6. age <= 2
    BY <1>0, <2>4, <2>5
  <2> QED
    BY <1>0, <1>1, <2>3, <2>6 DEF FetchInv
<1> QED
  BY <1>2, <1>4, <1>5, <1>6 DEF FetchInv

\* A flag that has just been posted.
LEMMA PostFetches ==
    ASSUME TypeInv, StudyInv, CountInv, WiringInv, SightInv, HandedInv, Poll, Fits,
           config.motor, ~flag[phase], flag'[phase'], ~noticed
    PROVE  FetchInv'
<1> USE DEF Fits
<1>0. /\ elapsed \in Nat /\ age \in Nat /\ curNum \in Nat
      /\ phase \in Colour /\ seen \in Colour /\ MaxShown \in Nat /\ MaxShown >= 8
  <2>1. elapsed \in Nat /\ age \in Nat
    BY StaysFor
  <2> QED
    BY <2>1, SameColour, CountdownAssumption
       DEF TypeInv, CountdownTypeOK, StudyTypeOK, L!StudyTypeOK
<1>1. UNCHANGED <<curNum, sync, countdownType, pc, seen, elapsed, phase, age>>
  BY DEF Poll, L!Poll, L!plan, thread
<1>2. UntilLoad' = UntilLoad
  BY <1>1 DEF UntilLoad
<1>3. age <= 1
  BY <1>0 DEF StudyInv, Fresh
<1>4. pc \notin Fetching \cup {"Drop"}
  <2>1. \A c \in Colour : ~flag[c]
    BY DEF HandedInv
  <2> QED
    BY <1>0, <2>1 DEF HandedInv
<1>5. CASE pc \in {"Pass", "Shown", "ClearLoop"} \/ (pc \in Testing /\ seen = phase)
  <2>1. Way(pc, seen = phase) \in 4 .. 6
    BY <1>5 DEF Way, Testing, Loading
  <2> QED
    BY <1>0, <1>1, <1>2, <1>3, <2>1 DEF FetchInv, UntilLoad
<1>6. CASE pc \in Testing \cup {"Show"} /\ seen # phase
  <2>1. age <= elapsed
    BY <1>6 DEF SightInv
  <2>2. Way(pc, seen = phase) \in 1 .. 7
    BY DEF Way
  <2> QED
    BY <1>0, <1>1, <1>2, <2>1, <2>2 DEF FetchInv, UntilLoad
<1>7. CASE pc = "Show"
  <2>1. UntilLoad \in Int /\ UntilLoad <= 7
    <3>1. Way(pc, seen = phase) \in 1 .. 7
      BY DEF Way
    <3> QED
      BY <1>0, <3>1 DEF UntilLoad
  <2>2. ~Typed
    BY <1>7 DEF Typed, Fetching, Loading
  <2>3. curNum \in 1 .. MaxShown \/ Far
    BY <1>0, <2>1 DEF Far
  <2>4. Far => Far' /\ ~Typed'
    BY <1>1, <1>2, <2>2 DEF Far, Typed
  <2> QED
    BY <1>1, <1>7, <2>3, <2>4 DEF FetchInv
<1> QED
  BY <1>4, <1>5, <1>6, <1>7 DEF WiringInv, Places

\* The thread leaves its place before it runs out of way.
LEMMA TickLeft ==
    ASSUME TypeInv, CountInv, WiringInv, Prompt, Tick
    PROVE  UntilLoad >= 1
<1>1. pc \in Sleep => pc \in {"Shown", "ClearLoop", "ClearLoad"}
  BY DEF WiringInv, Places, Testing, Fetching, Loading, Sleep
<1>2. elapsed \in Nat /\ elapsed < AtMost(pc) /\ Burst \in Nat /\ Burst <= 1
  BY CountdownAssumption
     DEF Tick, timeout, Prompt, TypeInv, CountdownTypeOK
<1>3. elapsed <= 1 /\ (pc \notin {"ClearLoop", "ClearLoad"} => elapsed = 0)
  BY <1>1, <1>2 DEF AtMost, Long, Short, Sleep
<1>4. /\ Way(pc, seen = phase) \in Nat /\ Way(pc, seen = phase) >= 1
      /\ pc \in {"ClearLoop", "ClearLoad"} => Way(pc, seen = phase) >= 3
  BY DEF Way, Testing, Loading
<1> QED
  BY <1>2, <1>3, <1>4 DEF UntilLoad

\* An expiry while a flag is up.
LEMMA TickFetches ==
    ASSUME TypeInv, CountInv, WiringInv, FetchInv, Tick, Fits, config.motor
    PROVE  FetchInv'
<1> USE DEF Fits
<1>0. /\ elapsed \in Nat /\ age \in Nat /\ curNum \in Nat /\ UntilLoad \in Nat
      /\ MaxShown \in Nat
  BY StaysFor, WayLeft, CountdownAssumption DEF TypeInv, CountdownTypeOK
<1>1. /\ UNCHANGED <<pc, seen, phase, flag>> /\ age' = age + 1
      /\ UntilLoad' = UntilLoad - 1
  BY TickMoves
<1>2. SUFFICES ASSUME flag[phase], pc # "Drop"
               PROVE  \/ UntilLoad' <= 7 - age'
                      \/ Far' /\ (Typed' => countdownType')
                      \/ pc = "Show" /\ curNum' \in 1 .. MaxShown
  BY <1>1 DEF FetchInv
<1>3. Typed' = Typed
  BY <1>1 DEF Typed
<1>4. CASE UntilLoad <= 7 - age
  BY <1>0, <1>1, <1>4
<1>5. CASE Far /\ (Typed => countdownType)
  <2>1. UntilLoad >= 1
    BY TickLeft
  <2>2. CASE curNum = 0
    BY <1>3, <1>5, <2>2, TickCounts DEF Far
  <2>3. CASE UntilLoad <= curNum - 2
    <3>1. curNum >= 3
      BY <1>0, <2>1, <2>3
    <3>2. curNum' \in {curNum, curNum - 1}
      BY <1>0, <3>1, TickCounts
    <3>3. UntilLoad - 1 <= curNum' - 2
      <4>1. CASE curNum' = curNum
        BY <1>0, <2>3, <4>1
      <4>2. CASE curNum' = curNum - 1
        BY <1>0, <2>3, <4>2
      <4> QED
        BY <3>2, <4>1, <4>2
    <3>4. Far'
      BY <1>1, <3>3 DEF Far
    <3>5. countdownType => countdownType'
      BY <1>0, <3>1, TickCounts
    <3> QED
      BY <1>3, <1>5, <3>4, <3>5
  <2> QED
    BY <1>5, <2>2, <2>3 DEF Far
<1>6. CASE pc = "Show" /\ curNum \in 1 .. MaxShown
  <2>1. curNum' \in {curNum, curNum - 1}
    BY <1>0, <1>6, TickCounts
  <2>2. curNum' = 0 \/ curNum' \in 1 .. MaxShown
    BY <1>0, <1>6, <2>1
  <2>3. ~Typed
    BY <1>6 DEF Typed, Fetching, Loading
  <2> QED
    BY <1>3, <1>6, <2>2, <2>3 DEF Far
<1> QED
  BY <1>2, <1>4, <1>5, <1>6 DEF FetchInv

\* While a flag is up, the number on its way out leaves room for the new one.
LEMMA FetchStep ==
    ASSUME TypeInv, StudyInv, CountInv, WiringInv, TaughtInv, SightInv, HandedInv,
           FetchInv, [SDNext]_sdVars, Fits, config.motor
    PROVE  FetchInv'
<1> USE DEF Fits
<1>0. phase \in Colour /\ flag \in [Colour -> BOOLEAN]
  BY SameColour DEF TypeInv, CountdownTypeOK, StudyTypeOK, L!StudyTypeOK
<1>1. CASE Display
  BY <1>1, DisplayFetches DEF FetchInv
<1>2. CASE Poll
  <2>1. L!Poll /\ UNCHANGED <<pc, seen, elapsed, curNum, countdownType>>
    BY <1>2 DEF Poll, thread
  <2>2. UNCHANGED <<phase, age>>
    BY <2>1 DEF L!Poll, L!plan
  <2>3. CASE UNCHANGED flag
    BY <2>1, <2>2, <2>3 DEF FetchInv, Far, Typed, UntilLoad
  <2>4. CASE ~noticed
    <3>1. ~flag[phase]
      BY <1>0, <2>4 DEF HandedInv
    <3>2. flag'[phase'] => FetchInv'
      BY <1>2, <2>4, <3>1, PostFetches
    <3> QED
      BY <3>2 DEF FetchInv
  <2> QED
    BY <2>1, <2>3, <2>4, PollHands
<1>3. CASE Tick
  BY <1>3, TickFetches
<1>4. CASE Light /\ L!FlashToggle
  <2>1. UNCHANGED <<pc, seen, elapsed, curNum, countdownType, phase, age, flag>>
    BY <1>4 DEF Light, thread, L!FlashToggle, L!post
  <2> QED
    BY <2>1 DEF FetchInv, Far, Typed, UntilLoad
<1>5. CASE Light /\ L!NextPhase
  <2>1. ~noticed'
    BY <1>5 DEF L!NextPhase
  <2>2. phase' \in Colour
    BY <1>5, TheOneBefore DEF L!NextPhase, TypeInv, StudyTypeOK, L!StudyTypeOK
  <2>3. HandedInv'
    BY HandedStep
  <2>4. ~flag'[phase']
    BY <2>1, <2>2, <2>3 DEF HandedInv
  <2> QED
    BY <2>4 DEF FetchInv
<1>6. CASE UNCHANGED sdVars
  BY <1>6 DEF FetchInv, Far, Typed, UntilLoad, sdVars, vars, shared, counter, thread,
     learning
<1> QED
  BY <1>1, <1>2, <1>3, <1>4, <1>5, <1>6 DEF SDNext, Light

-----------------------------------------------------------------------------
\* A number is loaded while its phase is young, and type is read soon.
LEMMA LoadLags ==
    ASSUME TypeInv, StudyInv, CountInv, WiringInv, HandedInv, FetchInv, Load, Fits,
           config.motor, Display
    PROVE  RanInv'
<1> USE DEF Fits
<1>0. /\ elapsed \in Nat /\ age \in Nat /\ sync \in Nat /\ elapsed <= 1
      /\ phase \in Colour /\ seen \in Colour
  <2>1. elapsed \in Nat /\ age \in Nat
    BY StaysFor
  <2>2. elapsed <= 1
    BY StaysFor DEF Load, Sleep
  <2> QED
    BY <2>1, <2>2, SameColour, CountdownAssumption
       DEF TypeInv, CountdownTypeOK, StudyTypeOK, L!StudyTypeOK
<1>1. /\ pc = "Load" /\ pc' = "Drop" /\ loaded' = num[seen] /\ ran' = sync
      /\ UNCHANGED <<countdownType, seen, elapsed, phase, age, num>>
  BY DisplayCounts DEF Load, Continue, counter, shared, SetType
<1>2. flag[phase] /\ seen = phase
  BY <1>0, <1>1 DEF HandedInv, Fetching, Loading
<1>3. UntilLoad = 1 - elapsed
  BY <1>0, <1>1 DEF UntilLoad, Way, Loading
<1>4. age <= 8
  <2>1. UntilLoad <= 8 - age
    BY <1>2 DEF HandedInv
  <2> QED
    BY <1>0, <1>3, <2>1
<1>5. ~countdownType => age <= 6 + elapsed
  <2>1. Typed
    BY <1>1, <1>2 DEF Typed, Fetching, Loading
  <2>2. ~countdownType => UntilLoad <= 7 - age
    BY <1>1, <1>2, <2>1 DEF FetchInv
  <2> QED
    BY <1>0, <1>3, <2>2
<1>6. UntilType' = 3 - elapsed
  BY <1>1 DEF UntilType
<1>7. LagInv'
  <2>1. age <= sync + 9
    BY <1>0, <1>4
  <2>2. ~countdownType => 3 - elapsed <= sync + 9 - age
    BY <1>0, <1>5
  <2> QED
    BY <1>1, <1>6, <2>1, <2>2 DEF LagInv
<1> QED
  BY <1>1, <1>2, <1>7 DEF RanInv

\* Once loaded, the count runs, or is about to.
LEMMA DisplayLags ==
    ASSUME TypeInv, CountInv, WiringInv, HandedInv, RanInv, Display, ~Load, Fits,
           config.motor
    PROVE  RanInv'
<1> USE DEF Fits
<1>0. /\ elapsed \in Nat /\ age \in Nat /\ ran \in Nat /\ curNum \in Nat
      /\ loaded \in Nat /\ curNum <= loaded /\ MaxShown \in Nat
      /\ phase \in Colour /\ seen \in Colour /\ config.rled
  <2>1. elapsed \in Nat /\ age \in Nat
    BY StaysFor
  <2> QED
    BY <2>1, SameColour, CountdownAssumption
       DEF Prompt, CountInv, TypeInv, CountdownTypeOK, StudyTypeOK, L!StudyTypeOK
<1>1. /\ UNCHANGED <<config, phase, age, noticed, posted, num, type>>
      /\ UNCHANGED <<curNum, ran, loaded, owner>>
      /\ ~SetType => UNCHANGED countdownType
      /\ ~Pass => UNCHANGED seen
      /\ ~DropFlag => UNCHANGED flag
  BY DisplayCounts
<1>2. pc' # "Drop"
  BY DEF Display, DisplayStep, Pass, BranchNoPost, BranchPost, SetType,
     YellowNoPost, YellowPost, TestFlag, ZeroFirst, ZeroSecond, ClearSync,
     DropFlag, Show, OnlyRed, Wake, Continue, FallAsleep, Clear_Display
<1>3. SUFFICES ASSUME Taken
               PROVE  /\ loaded' = num'[phase'] /\ seen' = phase'
                      /\ curNum >= 2 /\ loaded <= MaxShown => LagInv'
  <2>1. Taken' => Taken
    BY <1>1, <1>2 DEF Taken, DropFlag
  <2> QED
    BY <1>1, <2>1 DEF RanInv
<1>4. /\ loaded = num[phase] /\ seen = phase
      /\ curNum >= 2 /\ loaded <= MaxShown => LagInv
  BY <1>3 DEF RanInv
<1>5. seen' = phase
  BY <1>1, <1>4, PassSees DEF Pass
<1>6. pc # "Drop" => ~flag[seen]
  BY <1>3, <1>4 DEF Taken
<1>7. mode[seen] /\ type
  BY <1>3, <1>4 DEF Taken, HandedInv
<1>8. ASSUME curNum >= 2, loaded <= MaxShown PROVE LagInv'
  <2>1. LagInv
    BY <1>4, <1>8
  <2>2. CASE SetType
    <3>1. countdownType'
      BY <1>7, <2>2 DEF SetType
    <3>2. age <= ran + 9
      <4>1. pc \in {"Mode", "Branch"} /\ elapsed <= 1
        BY <2>2, StaysFor DEF SetType, Sleep
      <4>2. UntilType = 1 - elapsed
        BY <4>1 DEF UntilType
      <4>3. age <= ran + 9 \/ UntilType <= ran + 9 - age
        BY <2>1 DEF LagInv
      <4> QED
        BY <1>0, <4>1, <4>2, <4>3
    <3> QED
      BY <1>1, <3>1, <3>2 DEF LagInv
  <2>3. CASE ~SetType /\ countdownType
    BY <1>1, <2>1, <2>3 DEF LagInv
  <2>4. CASE ~SetType /\ ~countdownType
    <3>1. /\ pc \in {"Drop", "Show", "Shown", "Pass", "Branch", "Mode"}
          /\ pc = "Mode" => seen # "Y"
          /\ UntilType <= ran + 9 - age
      BY <2>1, <2>4 DEF LagInv
    <3>2. /\ pc' \in {"Drop", "Show", "Shown", "Pass", "Branch", "Mode"}
          /\ pc' = "Mode" => seen' # "Y"
          /\ UntilType' <= UntilType
      <4>1. CASE DropFlag
        BY <1>0, <4>1 DEF DropFlag, Continue, UntilType
      <4>2. CASE Show
        <5>1. pc = "Show" /\ elapsed <= 1
          BY <4>2, StaysFor DEF Show, Sleep
        <5>2. curNum \in 1 .. MaxShown
          BY <1>0, <1>8
        <5>3. pc' = "Shown" /\ elapsed' = 0
          BY <4>2, <5>2 DEF Show, FallAsleep, WiringInv
        <5>4. UntilType' = 2 /\ UntilType = 3 - elapsed
          BY <1>0, <5>1, <5>3 DEF UntilType
        <5> QED
          BY <1>0, <5>1, <5>3, <5>4
      <4>3. CASE Wake
        <5>1. pc = "Shown" /\ elapsed <= 1
          BY <3>1, <4>3, StaysFor DEF Wake, Asleep, Sleep
        <5>2. pc' = "Pass" /\ elapsed' = 0
          BY <4>3, <5>1 DEF Wake
        <5>3. UntilType' = 1 /\ UntilType = 2 - elapsed
          BY <1>0, <5>1, <5>2 DEF UntilType
        <5> QED
          BY <1>0, <5>1, <5>2, <5>3
      <4>4. CASE Pass
        <5>1. pc = "Pass" /\ pc' = "Branch" /\ elapsed' = elapsed
          BY <1>0, <4>4 DEF Pass, Continue
        <5> QED
          BY <1>0, <5>1 DEF UntilType
      <4>5. CASE BranchPost
        <5>1. pc = "Branch" /\ pc' = "Mode" /\ elapsed' = elapsed /\ seen # "Y"
          BY <4>5 DEF BranchPost, Continue
        <5> QED
          BY <1>0, <1>4, <1>5, <5>1 DEF UntilType
      <4>6. CASE BranchNoPost
        BY <1>7, <4>6 DEF BranchNoPost
      <4> QED
        BY <2>4, <3>1, <4>1, <4>2, <4>3, <4>4, <4>5, <4>6
           DEF Display, DisplayStep, YellowNoPost, YellowPost, TestFlag,
           ZeroFirst, ZeroSecond, ClearSync, OnlyRed
    <3>3. UntilType \in Int /\ UntilType' \in Int
      <4>1. elapsed' \in Nat
        BY <1>0 DEF Display, DisplayStep, Pass, BranchNoPost, BranchPost, SetType,
           YellowNoPost, YellowPost, TestFlag, ZeroFirst, ZeroSecond, ClearSync,
           DropFlag, Show, OnlyRed, Wake, Continue, FallAsleep, Clear_Display
      <4> QED
        BY <1>0, <4>1 DEF UntilType
    <3>4. UntilType' <= ran + 9 - age
      BY <1>0, <3>1, <3>2, <3>3
    <3> QED
      BY <1>1, <2>4, <3>2, <3>4 DEF LagInv
  <2> QED
    BY <2>2, <2>3, <2>4
<1> QED
  BY <1>1, <1>4, <1>5, <1>8

\* An expiry adds a tenth to both.
LEMMA TickLags ==
    ASSUME TypeInv, CountInv, RanInv, Tick, Fits
    PROVE  RanInv'
<1>0. /\ age \in Nat /\ ran \in Nat /\ curNum \in Nat /\ UntilType \in Int
  BY StaysFor, TickMoves, CountdownAssumption DEF Fits, TypeInv, CountdownTypeOK
<1>1. /\ UNCHANGED <<pc, seen, phase, noticed, posted, num, flag, loaded>>
      /\ age' = age + 1 /\ UntilType' = UntilType - 1
  BY TickMoves DEF Fits
<1>2. Taken' = Taken
  BY <1>1 DEF Taken
<1>3. curNum' >= 2 => curNum >= 2
  <2>1. curNum < 2 => curNum' < 2
    <3>1. curNum = 0 => curNum' = 0
      BY TickCounts
    <3>2. curNum = 1 => curNum' \in {curNum, curNum - 1}
      BY TickCounts
    <3> QED
      BY <1>0, <3>1, <3>2
  <2>2. curNum' \in Nat
    BY TickTypeInv, CountdownAssumption DEF TypeInv, CountdownTypeOK
  <2> QED
    BY <1>0, <2>1, <2>2
<1>4. ASSUME LagInv, curNum >= 2 PROVE LagInv'
  <2>1. CASE countdownType
    <3>1. countdownType' /\ ran' = ran + 1
      BY <1>0, <1>4, <2>1, TickCounts
    <3>2. age + 1 <= ran + 1 + 9
      BY <1>0, <1>4, <2>1 DEF LagInv
    <3> QED
      BY <1>1, <3>1, <3>2 DEF LagInv
  <2>2. CASE ~countdownType
    <3>1. ~countdownType' /\ ran' = ran
      BY <2>2, TickCounts
    <3>2. UntilType - 1 <= ran + 9 - (age + 1)
      BY <1>0, <1>4, <2>2 DEF LagInv
    <3> QED
      BY <1>1, <1>4, <2>2, <3>1, <3>2 DEF LagInv
  <2> QED
    BY <2>1, <2>2
<1> QED
  BY <1>1, <1>2, <1>3, <1>4 DEF RanInv

\* One step per kind of action.
LEMMA RanStep ==
    ASSUME TypeInv, StudyInv, CountInv, WiringInv, HandedInv, FetchInv, RanInv,
           [SDNext]_sdVars, Fits, config.motor
    PROVE  RanInv'
<1>1. CASE Display
  BY <1>1, LoadLags, DisplayLags
<1>2. CASE Poll
  <2>1. L!Poll /\ UNCHANGED <<pc, seen, elapsed, curNum, countdownType, ran, loaded>>
    BY <1>2 DEF Poll, thread, history
  <2>2. UNCHANGED <<phase, age>> /\ phase \in Colour
    BY <2>1, SameColour DEF L!Poll, L!plan, TypeInv, StudyTypeOK, L!StudyTypeOK
  <2>3. CASE /\ UNCHANGED <<num, flag>>
             /\ (noticed' /\ posted'[phase]) <=> (noticed /\ posted[phase])
    <3>1. Taken' => Taken
      BY <2>1, <2>2, <2>3 DEF Taken
    <3>2. LagInv' = LagInv
      BY <2>1, <2>2 DEF LagInv, UntilType
    <3> QED
      BY <2>1, <2>2, <2>3, <3>1, <3>2 DEF RanInv
  <2>4. CASE ~noticed /\ flag' = [flag EXCEPT ![phase] = TRUE]
    <3>1. flag'[phase'] /\ pc' # "Drop"
      <4>1. \A c \in Colour : ~flag[c]
        BY <2>4 DEF HandedInv
      <4>2. pc # "Drop" /\ flag \in [Colour -> BOOLEAN]
        BY <4>1 DEF HandedInv, TypeInv, CountdownTypeOK
      <4> QED
        BY <2>1, <2>2, <2>4, <4>2
    <3> QED
      BY <3>1 DEF RanInv, Taken
  <2> QED
    BY <2>1, <2>3, <2>4, PollHands
<1>3. CASE Tick
  BY <1>3, TickLags
<1>4. CASE Light /\ L!FlashToggle
  <2>1. UNCHANGED <<pc, seen, elapsed, curNum, countdownType, ran, loaded, phase,
                    age, noticed, posted, num, flag>>
    BY <1>4 DEF Light, thread, history, L!FlashToggle, L!learner, L!post
  <2> QED
    BY <2>1 DEF RanInv, Taken, LagInv, UntilType
<1>5. CASE Light /\ L!NextPhase
  BY <1>5 DEF L!NextPhase, RanInv, Taken
<1>6. CASE UNCHANGED sdVars
  BY <1>6 DEF RanInv, Taken, LagInv, UntilType, sdVars, vars, shared, counter, thread,
     history, learning
<1> QED
  BY <1>1, <1>2, <1>3, <1>4, <1>5, <1>6 DEF SDNext, Light

LEMMA EndStep ==
    ASSUME SDInv, StudyInv, TakenInv, EndInv, [SDNext]_sdVars, Fits
    PROVE  EndInv'
<1>1. TypeInv /\ CountInv /\ WiringInv /\ TaughtInv /\ Prompt /\ config' = config
  BY SameConfig DEF SDInv, TakenInv, Fits
<1>2. PeopleInv' /\ PastInv'
  BY <1>1, PeopleStep, PastStep DEF EndInv
<1>3. CASE config.motor
  BY <1>1, <1>2, <1>3, FetchStep, RanStep DEF EndInv, TakenInv
<1>4. CASE ~config.motor
  BY <1>1, <1>2, <1>4 DEF EndInv
<1> QED
  BY <1>3, <1>4

LEMMA EndInvariant == ASSUME Fits PROVE SDSpec => []EndInv
<1>1. Prompt
  BY DEF Fits
<1>2. SDInv /\ TypeInv /\ StudyInv /\ TakenInv /\ EndInv /\ [SDNext]_sdVars => EndInv'
  BY EndStep
<1> QED
  BY <1>1, <1>2, EndInit, SDInvariant, StudyInvariant, TakenInvariant, PTL DEF SDSpec

\* What a learned phase that ends as long as it was has left on the count.
LEMMA LastOfPhase ==
    ASSUME SDInv, StudyInv, TakenInv, EndInv, Fits,
           L!NextPhase, posted[phase], owner = phase,
           past[phase] = <<length, length>>
    PROVE  curNum <= 1
<1>0. /\ phase \in Colour /\ length \in Nat /\ age \in Nat /\ curNum \in Nat
      /\ loaded \in Nat /\ ran \in Nat /\ sync \in Nat /\ past \in [Colour -> Nat \X Nat]
      /\ MaxShown \in Nat /\ ByteMod \in Nat /\ ByteMod > 2
  BY SameColour, CountdownAssumption, StudyAssumption
     DEF SDInv, TypeInv, CountdownTypeOK, StudyTypeOK, L!StudyTypeOK
<1>1. age = length /\ noticed
  BY DEF L!NextPhase, StudyInv, Fresh
<1>2. config.motor
  BY <1>0 DEF EndInv, PeopleInv, Colour
<1>3. PICK c \in Colour : \E d \in Durations[c] : length = 10 * d
  <2>1. time[phase][1] = time[phase][2]
    BY <1>1 DEF StudyInv, Posting
  <2>2. ~Untaught
    BY <1>0, <2>1 DEF Untaught
  <2> QED
    BY <2>2 DEF TakenInv, TaughtInv
<1>4. PICK d \in Durations[c] : length = 10 * d
  BY <1>3
<1>5. d \in Nat \ {0} /\ d <= MaxShown
  BY <1>4, StudyAssumption DEF Fits
<1>6. num[phase] = d % ByteMod
  <2>1. past[phase][1] = length /\ length > 0 /\ length % 10 = 0
    BY <1>4, <1>5
  <2>2. measured[phase] >= 1
    BY <1>0, <1>1, <2>1 DEF EndInv, PastInv
  <2>3. time[phase][1] = Sec(length)
    BY <1>0, <1>1, <2>1, <2>2 DEF StudyInv, Kept, Agree
  <2>4. length \div 10 = d
    BY <1>4, <1>5
  <2> QED
    BY <1>1, <2>3, <2>4 DEF StudyInv, Posting, Sec
<1>7. d % ByteMod \in 0 .. d
  BY <1>0, <1>5
<1>8. ~flag[phase]
  <2>1. flag[phase] => UntilLoad <= 8 - age
    BY <1>2 DEF TakenInv, HandedInv
  <2>2. UntilLoad \in Nat
    BY WayLeft DEF SDInv, TakenInv, Fits
  <2>3. age >= 10
    BY <1>1, <1>4, <1>5
  <2> QED
    BY <1>0, <2>1, <2>2, <2>3
<1>9. SUFFICES ASSUME curNum >= 2 PROVE FALSE
  BY <1>0
<1>10. loaded = num[phase] /\ loaded <= d /\ LagInv
  BY <1>0, <1>1, <1>2, <1>5, <1>6, <1>7, <1>8, <1>9 DEF EndInv, RanInv, Taken
<1>11. age <= ran + 9
  <2>1. CASE countdownType
    BY <1>10, <2>1 DEF LagInv
  <2>2. CASE ~countdownType
    <3>1. /\ elapsed \in Nat /\ (pc \notin Sleep => elapsed <= 1)
          /\ (pc = "Shown" => elapsed <= 1)
      BY StaysFor DEF Fits, SDInv
    <3>2. /\ pc \in {"Drop", "Show", "Shown", "Pass", "Branch", "Mode"}
          /\ UntilType <= ran + 9 - age
      BY <1>10, <2>2 DEF LagInv
    <3>3. UntilType \in Nat
      BY <3>1, <3>2 DEF UntilType, Sleep
    <3> QED
      BY <1>0, <3>2, <3>3
  <2> QED
    BY <2>1, <2>2
<1>12. ran = 10 * (loaded - curNum) + sync /\ sync <= 10
  <2>1. seen = phase
    BY <1>1, <1>2, <1>8 DEF EndInv, RanInv, Taken
  <2>2. pc # "Load"
    BY <1>2, <1>8, <2>1 DEF TakenInv, HandedInv, Fetching, Loading
  <2> QED
    BY <1>0, <1>9, <2>2 DEF SDInv, CountInv, CountExact, Fits
<1> QED
  BY <1>0, <1>1, <1>4, <1>5, <1>9, <1>10, <1>11, <1>12

\* A learned countdown ends with its phase: whatever the schedule and the light,
\* when a phase ends that was as long as the two of its colour before it, the
\* number loaded for it is in its last second or over.
THEOREM LearnedEndsWithPhase ==
    ASSUME Burst <= 1, \A x \in Configs : x.rled, PerSecond = 10, MaxShown >= 8,
           \A c \in Colour : \A d \in Durations[c] : d <= MaxShown
    PROVE  SDSpec => EndsWithPhase
<1>1. Fits
  BY DEF Fits, Prompt
<1>2. SDInv /\ StudyInv /\ TakenInv /\ EndInv =>
          [L!NextPhase /\ posted[phase] /\ owner = phase
              /\ past[phase] = <<length, length>> => curNum <= 1]_sdVars
  BY <1>1, LastOfPhase
<1>3. Prompt
  BY <1>1 DEF Fits
<1> QED
  BY <1>1, <1>2, <1>3, SDInvariant, StudyInvariant, TakenInvariant, EndInvariant, PTL
     DEF EndsWithPhase
=============================================================================
