-------------------------- MODULE StudyDisplay_proof --------------------------
(***************************************************************************)
(* Theorems about the learning sign, for every pattern of phase lengths,   *)
(* number range and width of the bytes:                                    *)
(*   - what the study thread learns and when it posts;                     *)
(*   - the exactness of the count, and that the face shows the number of   *)
(*     its own colour, from the same lemmas as the communication sign.     *)
(***************************************************************************)
EXTENDS StudyDisplay, Countdown_proof

Byte == 0 .. ByteMod - 1

\* What Seconds should have stored for a phase of n tenths, in whole seconds.
Sec(n) == (n \div 10) % ByteMod

Last == L!Before(phase)

TypeInv ==
    /\ CountdownTypeOK
    /\ StudyTypeOK
    /\ time \in [Colour -> Byte \X Byte]
    /\ past \in [Colour -> Nat \X Nat]
    /\ measured \in [Colour -> 0 .. 3]
    /\ phase \in L!Watched
    /\ age <= length /\ length + 2 < WordMod

\* A phase is noticed before it can flash or end, in its first tenth or, if
\* the last poll of the phase before came after its last expiry, its second.
Fresh ==
    ~noticed =>
        /\ lit
        /\ age = 0 \/ (age = 1 /\ ~polled)
        /\ age < length
        /\ phase = "G" => age + Flash < length
        /\ age = 0 /\ polled =>
               1 < length /\ (phase = "G" => 1 + Flash < length)

\* The phase that is on is timed, at most one tenth short; until it is
\* noticed, the one before it is.  Nothing else is, and nothing else has
\* tenths.
Timing ==
    /\ noticed => /\ timing = [c \in Colour |-> c = phase]
                  /\ tenths[phase] <= age /\ age <= tenths[phase] + 1
                  /\ \A c \in Colour : c # phase => tenths[c] = 0
    /\ ~noticed =>
          \/ /\ timing = [c \in Colour |-> FALSE]
             /\ \A c \in Colour : tenths[c] = 0 /\ measured[c] = 0
          \/ /\ timing = [c \in Colour |-> c = Last]
             /\ tenths[Last] <= past[Last][1] + age
             /\ past[Last][1] + age <= tenths[Last] + 1
             /\ past[Last][1] + 2 < WordMod
             /\ \A c \in Colour : c # Last => tenths[c] = 0

\* The stored lengths are those of the phases, but for the phase that has
\* ended without a poll since.
Agree(c) ==
    /\ measured[c] >= 1 /\ past[c][1] % 10 = 0 => time[c][1] = Sec(past[c][1])
    /\ measured[c] >= 2 /\ past[c][2] % 10 = 0 => time[c][2] = Sec(past[c][2])

Kept ==
    /\ \A c \in Colour : noticed \/ c # Last => Agree(c)
    /\ ~noticed /\ measured[Last] >= 1 /\ past[Last][2] % 10 = 0 =>
          time[Last][1] = Sec(past[Last][2])

\* The phase that is on has been posted if its lengths agree; no other has.
Posting ==
    /\ noticed => /\ posted[phase] <=> time[phase][1] = time[phase][2]
                  /\ posted[phase] => num[phase] = time[phase][1]
                  /\ \A c \in Colour : c # phase => ~posted[c]
    /\ ~noticed => \A c \in Colour : c # Last => ~posted[c]

StudyInv == Fresh /\ Timing /\ Kept /\ Posting

-----------------------------------------------------------------------------
\* The two modules mean the same colours.
LEMMA SameColour == L!Colour = Colour
BY DEF L!Colour, Colour

\* The colour before another is another.
LEMMA TheOneBefore ==
    ASSUME m_or_p \in {"motor", "people"}, NEW c \in L!Watched
    PROVE  /\ c \in Colour
           /\ L!Before(c) \in Colour /\ L!Before(c) # c
BY DEF L!Watched, L!Before, L!Colour, Colour

\* A number of whole seconds, timed up to one tenth short or long, is stored
\* as that number.
LEMMA Rounding ==
    ASSUME NEW n \in Nat, NEW t \in Nat, n % 10 = 0, n <= t + 1, t <= n + 1
    PROVE  L!Seconds(t) = Sec(n)
<1>1. (t + 1) \div 10 = n \div 10
  OBVIOUS
<1> QED
  BY <1>1 DEF L!Seconds, Sec

\* What is stored is a byte.
LEMMA SecondsIsByte == ASSUME NEW t \in Nat PROVE L!Seconds(t) \in Byte
<1>1. (t + 1) \div 10 \in Nat /\ ByteMod \in Nat \ {0}
  BY StudyAssumption
<1> QED
  BY <1>1, ModRange DEF L!Seconds, Byte

-----------------------------------------------------------------------------
(***************************************************************************)
(* Types.                                                                  *)
(***************************************************************************)

\* A sign that has just been switched on.
LEMMA InitTypeInv == SDInit => TypeInv
<1> SUFFICES ASSUME SDInit PROVE TypeInv
  OBVIOUS
<1> USE StudyAssumption, LightAssumption, SameColour DEF SDInit, L!StudyInit
<1>1. CountdownTypeOK
  <2>1. lamp \in SUBSET Colour
    BY DEF L!Watched, L!Colour, Colour
  <2> QED
    BY <2>1, InitType
<1>2. /\ timing \in [Colour -> BOOLEAN] /\ posted \in [Colour -> BOOLEAN]
      /\ mode \in [Colour -> BOOLEAN] /\ flag \in [Colour -> BOOLEAN]
      /\ type \in BOOLEAN /\ blind \in BOOLEAN /\ curMode = "BLACK"
  OBVIOUS
<1>3. /\ tenths \in [Colour -> 0 .. WordMod - 1]
      /\ num \in [Colour -> Byte]
      /\ time \in [Colour -> Byte \X Byte]
      /\ past \in [Colour -> Nat \X Nat]
      /\ measured \in [Colour -> 0 .. 3]
  BY DEF Byte
<1>4. /\ m_or_p \in {"motor", "people"} /\ phase \in L!Watched
      /\ phase \in Colour /\ length \in Nat /\ age = 0 /\ lit = TRUE
      /\ polled = FALSE /\ noticed = FALSE /\ length + 2 < WordMod
  BY TheOneBefore
<1>5. StudyTypeOK
  <2>1. \A c \in Colour : \A i \in 1 .. 2 : time[c][i] \in Byte
    BY <1>3
  <2> HIDE DEF SDInit, L!StudyInit
  <2> QED
    BY <1>2, <1>3, <1>4, <2>1 DEF StudyTypeOK, L!StudyTypeOK, Byte
<1> HIDE DEF SDInit, L!StudyInit
<1> QED
  BY <1>1, <1>3, <1>4, <1>5 DEF TypeInv

\* The display thread leaves the learner alone, and its timer only ever
\* darkens cur_mode.
LEMMA DisplayTypeInv == TypeInv /\ Display => TypeInv'
<1> SUFFICES ASSUME TypeInv, Display PROVE TypeInv'
  OBVIOUS
<1>1. CountdownTypeOK'
  BY DisplayType DEF Display, TypeInv
<1>2. UNCHANGED <<learning, num, curMode, type, blind>>
  BY DEF Display, DisplayStep, Pass, BranchNoPost, BranchPost, SetType,
     YellowNoPost, YellowPost, TestFlag, ZeroFirst, ZeroSecond, ClearSync,
     Load, DropFlag, Show, OnlyRed, Wake, shared, counter
<1>3. mode' \in [Colour -> BOOLEAN] /\ flag' \in [Colour -> BOOLEAN]
  BY <1>1 DEF CountdownTypeOK
<1> QED
  BY <1>1, <1>2, <1>3, SameColour
     DEF TypeInv, StudyTypeOK, L!StudyTypeOK, learning, L!Watched

\* An expiry, in both handlers.
LEMMA TickTypeInv == TypeInv /\ Tick => TypeInv'
<1> SUFFICES ASSUME TypeInv, Tick PROVE TypeInv'
  OBVIOUS
<1> USE SameColour
<1>1. CountdownTypeOK'
  BY TimeoutType DEF Tick, TypeInv
<1>2. UNCHANGED <<m_or_p, timing, time, posted, phase, length, lit, noticed,
                  past, measured, num, mode, flag, type, blind>>
  BY DEF Tick, L!Expiry, timeout, shared
<1>3. curMode' \in Colour \cup {"BLACK"}
  BY DEF Tick, timeout, Count, counter, TypeInv, StudyTypeOK, L!StudyTypeOK
<1>4. tenths' \in [Colour -> 0 .. WordMod - 1]
  <2>1. \A c \in Colour : tenths[c] \in 0 .. WordMod - 1
    BY DEF TypeInv, StudyTypeOK, L!StudyTypeOK
  <2>2. \A c \in Colour : (tenths[c] + 1) % WordMod \in 0 .. WordMod - 1
    <3> TAKE c \in Colour
    <3>1. tenths[c] + 1 \in Nat /\ WordMod \in Nat \ {0}
      BY <2>1, StudyAssumption
    <3> QED
      BY <3>1, ModRange
  <2> QED
    BY <2>1, <2>2 DEF Tick, L!Expiry, L!timer_out
<1>5. age' \in Nat /\ age' <= length /\ polled' = FALSE
  <2>1. age \in Nat /\ length \in Nat
    BY DEF TypeInv, StudyTypeOK, L!StudyTypeOK
  <2>2. age < length /\ age' = age + 1 /\ polled' = FALSE
    BY DEF Tick, L!Expiry
  <2> QED
    BY <2>1, <2>2
<1> QED
  BY <1>1, <1>2, <1>3, <1>4, <1>5
     DEF TypeInv, StudyTypeOK, L!StudyTypeOK, L!Watched

\* The light.
LEMMA LightTypeInv == TypeInv /\ Light => TypeInv'
<1> SUFFICES ASSUME TypeInv, Light PROVE TypeInv'
  OBVIOUS
<1> USE SameColour
<1>1. UNCHANGED <<config, num, mode, flag, type, blind, curMode, counter, thread,
                  history, m_or_p, timing, tenths, time, posted, polled,
                  measured>>
  BY DEF Light, L!FlashToggle, L!NextPhase, L!learner, L!post, counter, shared
<1>2. /\ phase' \in L!Watched /\ phase' \in Colour
      /\ length' \in Nat /\ age' \in Nat /\ age' <= length'
      /\ length' + 2 < WordMod
      /\ lit' \in BOOLEAN /\ noticed' \in BOOLEAN
      /\ past' \in [Colour -> Nat \X Nat]
  <2> USE DEF TypeInv, StudyTypeOK, L!StudyTypeOK
  <2>1. CASE L!FlashToggle
    BY <2>1 DEF L!FlashToggle
  <2>2. CASE L!NextPhase
    <3>1. PICK c \in L!Watched : /\ phase' = c
                                /\ \E d \in Durations[c] : length' = 10 * d
      BY <2>2 DEF L!NextPhase
    <3>2. c \in Colour
      BY TheOneBefore
    <3>3. length' \in Nat /\ length' + 2 < WordMod
      BY <3>1, <3>2, StudyAssumption, LightAssumption
    <3>4. /\ past' = [past EXCEPT ![phase] = <<length, past[phase][1]>>]
          /\ age' = 0 /\ lit' = TRUE /\ noticed' = FALSE
      BY <2>2 DEF L!NextPhase
    <3>5. length \in Nat /\ past \in [Colour -> Nat \X Nat] /\ phase \in Colour
      OBVIOUS
    <3>6. past' \in [Colour -> Nat \X Nat]
      <4>1. <<length, past[phase][1]>> \in Nat \X Nat
        BY <3>5
      <4> QED
        BY <3>4, <3>5, <4>1
    <3>7. age' \in Nat /\ age' <= length'
      BY <3>3, <3>4
    <3> QED
      BY <3>1, <3>2, <3>3, <3>4, <3>6, <3>7
  <2> QED
    BY <2>1, <2>2 DEF Light
<1>3. lamp' \in SUBSET Colour
  BY <1>2 DEF Light, LampFollows
<1>4. phase' \in L!Watched'
  BY <1>1, <1>2 DEF L!Watched
<1> QED
  BY <1>1, <1>2, <1>3, <1>4
     DEF TypeInv, StudyTypeOK, L!StudyTypeOK, CountdownTypeOK, counter, thread,
         history

-----------------------------------------------------------------------------
(***************************************************************************)
(* A poll, as the proofs need it: of the phase that is on, or of a dark    *)
(* lamp.                                                                   *)
(***************************************************************************)

\* A poll of a lamp that is on.
LEMMA PollFacts ==
    ASSUME TypeInv, L!Poll, lit
    PROVE  /\ L!Learn(phase) /\ noticed' = TRUE
           /\ L!Post(phase) \/ L!AlreadyPosted(phase) \/ L!Unstable(phase)
           /\ UNCHANGED <<m_or_p, phase, length, age, lit, past>>
BY DEF L!Poll, L!Seen, L!plan

\* A poll of a dark lamp.
LEMMA DarkPoll ==
    ASSUME L!Poll, ~lit
    PROVE  UNCHANGED <<m_or_p, phase, length, age, lit, past, timing, tenths,
                       time, posted, num, mode, flag, type, blind, curMode,
                       measured, noticed>>
BY DEF L!Poll, L!Seen, L!plan, L!learner, L!post

\* What a poll writes keeps its type.
LEMMA PollTypeInv == TypeInv /\ Poll => TypeInv'
<1> SUFFICES ASSUME TypeInv, Poll PROVE TypeInv'
  OBVIOUS
<1> USE SameColour
<1>1. UNCHANGED <<config, curNum, sync, countdownType, lamp, thread, history>>
      /\ L!Poll /\ polled' = TRUE
  BY DEF Poll, L!Poll
<1>2. CASE ~lit
  BY <1>1, <1>2, DarkPoll DEF TypeInv, StudyTypeOK, L!StudyTypeOK, L!Watched,
     CountdownTypeOK, thread, history
<1>3. CASE lit
  <2>1. /\ L!Learn(phase) /\ noticed' = TRUE
        /\ L!Post(phase) \/ L!AlreadyPosted(phase) \/ L!Unstable(phase)
        /\ UNCHANGED <<m_or_p, phase, length, age, lit, past>>
    BY <1>1, <1>3, PollFacts
  <2>2. phase \in Colour /\ L!Before(phase) \in Colour
    BY TheOneBefore DEF TypeInv, StudyTypeOK, L!StudyTypeOK
  <2> DEFINE b == L!Before(phase)
  <2> HIDE DEF b
  <2>3. tenths[b] \in Nat /\ time[b][1] \in Byte /\ time[phase][1] \in Byte
    BY <2>2 DEF b, TypeInv, StudyTypeOK, L!StudyTypeOK
  <2>4. /\ time' = IF timing[b]
                     THEN [time EXCEPT ![b] = <<L!Seconds(tenths[b]), time[b][1]>>]
                     ELSE time
        /\ timing' = [timing EXCEPT ![b] = FALSE, ![phase] = TRUE]
        /\ tenths' = [tenths EXCEPT ![b] = 0]
        /\ measured' = IF timing[b] /\ measured[b] < 3
                         THEN [measured EXCEPT ![b] = measured[b] + 1]
                         ELSE measured
    BY <2>1 DEF L!Learn, b
  <2>5. /\ time' \in [Colour -> Byte \X Byte]
        /\ timing' \in [Colour -> BOOLEAN]
        /\ tenths' \in [Colour -> 0 .. WordMod - 1]
        /\ measured' \in [Colour -> 0 .. 3]
    <3>1. /\ time \in [Colour -> Byte \X Byte] /\ timing \in [Colour -> BOOLEAN]
          /\ tenths \in [Colour -> 0 .. WordMod - 1]
          /\ measured \in [Colour -> 0 .. 3]
          /\ b \in Colour /\ phase \in Colour
      BY <2>2 DEF b, TypeInv, StudyTypeOK, L!StudyTypeOK
    <3>2. <<L!Seconds(tenths[b]), time[b][1]>> \in Byte \X Byte
      BY <2>3, SecondsIsByte
    <3>3. 0 \in 0 .. WordMod - 1
      BY <3>1, StudyAssumption
    <3>4. measured[b] < 3 => measured[b] + 1 \in 0 .. 3
      BY <3>1
    <3>5. time' \in [Colour -> Byte \X Byte]
      BY <2>4, <3>1, <3>2
    <3>6. timing' \in [Colour -> BOOLEAN]
      BY <2>4, <3>1
    <3>7. tenths' \in [Colour -> 0 .. WordMod - 1]
      BY <2>4, <3>1, <3>3
    <3>8. measured' \in [Colour -> 0 .. 3]
      BY <2>4, <3>1, <3>4
    <3> QED
      BY <3>5, <3>6, <3>7, <3>8
  <2>6. /\ num' \in [Colour -> Byte]
        /\ mode' \in [Colour -> BOOLEAN] /\ flag' \in [Colour -> BOOLEAN]
        /\ type' \in BOOLEAN /\ blind' \in BOOLEAN
        /\ curMode' \in Colour \cup {"BLACK"}
        /\ posted' \in [Colour -> BOOLEAN]
    <3> USE DEF TypeInv, StudyTypeOK, L!StudyTypeOK
    <3>1. num \in [Colour -> Byte]
      BY DEF Byte
    <3>2. CASE L!Post(phase)
      BY <2>2, <2>3, <3>1, <3>2 DEF L!Post
    <3>3. CASE L!AlreadyPosted(phase)
      BY <3>1, <3>3 DEF L!AlreadyPosted, L!post
    <3>4. CASE L!Unstable(phase)
      BY <3>1, <3>4 DEF L!Unstable
    <3> QED
      BY <2>1, <3>2, <3>3, <3>4
  <2>7. num' \in [Colour -> 0 .. MaxNum]
    BY <2>6, StudyAssumption, CountdownAssumption DEF Byte
  <2>8. \A c \in Colour : \A i \in 1 .. 2 : time'[c][i] \in Byte
    BY <2>5
  <2>9. StudyTypeOK'
    BY <1>1, <2>1, <2>5, <2>6, <2>8 DEF TypeInv, StudyTypeOK, L!StudyTypeOK, Byte
  <2>10. CountdownTypeOK'
    BY <1>1, <2>6, <2>7 DEF TypeInv, CountdownTypeOK, thread, history
  <2> QED
    BY <2>1, <2>5, <2>9, <2>10 DEF TypeInv, L!Watched
<1> QED
  BY <1>2, <1>3

\* Nothing happens.
LEMMA StutterTypeInv == TypeInv /\ UNCHANGED sdVars => TypeInv'
BY DEF TypeInv, StudyTypeOK, L!StudyTypeOK, L!Watched, CountdownTypeOK, sdVars,
   vars, shared, counter, thread, history, learning

\* Every step keeps the types.
LEMMA StepTypeInv == TypeInv /\ [SDNext]_sdVars => TypeInv'
BY DisplayTypeInv, PollTypeInv, TickTypeInv, LightTypeInv, StutterTypeInv
   DEF SDNext

-----------------------------------------------------------------------------
(***************************************************************************)
(* What is learned, and when it is posted.                                 *)
(***************************************************************************)

\* Before power-up nothing is timed, learned or posted.
LEMMA InitStudyInv == SDInit => StudyInv
<1> SUFFICES ASSUME SDInit PROVE StudyInv
  OBVIOUS
<1>1. /\ noticed = FALSE /\ lit = TRUE /\ age = 0 /\ polled = FALSE
      /\ timing = [c \in Colour |-> FALSE]
      /\ \A c \in Colour : tenths[c] = 0 /\ measured[c] = 0 /\ posted[c] = FALSE
      /\ length \in PowerUp /\ phase \in L!Watched
      /\ m_or_p \in {"motor", "people"}
  BY SameColour DEF SDInit, L!StudyInit
<1>2. 0 < length /\ Flash < length /\ Flash \in Nat
  BY <1>1, StudyAssumption, LightAssumption
<1>3. Last \in Colour
  BY <1>1, TheOneBefore DEF Last
<1>4. Fresh
  BY <1>1, <1>2 DEF Fresh
<1>5. Timing
  BY <1>1 DEF Timing
<1>6. Kept
  BY <1>1, <1>3 DEF Kept, Agree
<1>7. Posting
  BY <1>1 DEF Posting
<1> QED
  BY <1>4, <1>5, <1>6, <1>7 DEF StudyInv

\* What a poll of a lit lamp does to the lengths and tenths.
LEMMA LearnKeeps ==
    ASSUME TypeInv, StudyInv, L!Poll, lit
    PROVE  Timing' /\ Kept'
<1> DEFINE b == Last
<1>1. /\ L!Learn(phase) /\ noticed' = TRUE /\ Last' = b
      /\ UNCHANGED <<phase, length, age, past>>
  BY PollFacts DEF Last, L!Before
<1>2. /\ phase \in Colour /\ b \in Colour /\ b # phase
      /\ timing \in [Colour -> BOOLEAN]
      /\ tenths \in [Colour -> 0 .. WordMod - 1]
      /\ time \in [Colour -> Byte \X Byte]
      /\ past \in [Colour -> Nat \X Nat]
      /\ measured \in [Colour -> 0 .. 3]
      /\ age \in Nat
  BY TheOneBefore, SameColour DEF TypeInv, StudyTypeOK, L!StudyTypeOK, Last
<1>3. /\ time' = IF timing[b]
                   THEN [time EXCEPT ![b] = <<L!Seconds(tenths[b]), time[b][1]>>]
                   ELSE time
      /\ timing' = [timing EXCEPT ![b] = FALSE, ![phase] = TRUE]
      /\ tenths' = [tenths EXCEPT ![b] = 0]
      /\ measured' = IF timing[b] /\ measured[b] < 3
                       THEN [measured EXCEPT ![b] = measured[b] + 1]
                       ELSE measured
  BY <1>1 DEF L!Learn, Last
<1> HIDE DEF b
<1> USE DEF StudyInv
<1>4. CASE noticed
  <2>1. /\ timing = [c \in Colour |-> c = phase]
        /\ tenths[phase] <= age /\ age <= tenths[phase] + 1
        /\ \A c \in Colour : c # phase => tenths[c] = 0
    BY <1>4 DEF Timing
  <2>2. UNCHANGED <<time, measured>>
    BY <1>2, <1>3, <2>1
  <2>3. timing' = [c \in Colour |-> c = phase]
    BY <1>2, <1>3, <2>1
  <2>4. Timing'
    BY <1>1, <1>2, <1>3, <2>1, <2>3 DEF Timing
  <2>5. Kept'
    BY <1>1, <1>4, <2>2 DEF Kept, Agree
  <2> QED
    BY <2>4, <2>5
<1>5. CASE ~noticed /\ timing = [c \in Colour |-> FALSE]
  <2>1. \A c \in Colour : tenths[c] = 0 /\ measured[c] = 0
    BY <1>2, <1>5 DEF Timing, b
  <2>2. age = 0 \/ age = 1
    BY <1>5 DEF Fresh
  <2>3. timing' = [c \in Colour |-> c = phase]
    BY <1>2, <1>3, <1>5
  <2>4. Timing'
    <3>1. tenths'[phase] = 0 /\ (\A c \in Colour : tenths'[c] = 0)
      BY <1>2, <1>3, <2>1
    <3>2. tenths'[phase] <= age /\ age <= tenths'[phase] + 1
      BY <2>2, <3>1
    <3> HIDE DEF StudyInv
    <3> QED
      BY <1>1, <2>3, <3>1, <3>2 DEF Timing
  <2>5. UNCHANGED measured
    BY <1>2, <1>3, <1>5
  <2>6. Kept'
    BY <1>1, <2>1, <2>5 DEF Kept, Agree
  <2> QED
    BY <2>4, <2>6
<1>6. CASE ~noticed /\ timing # [c \in Colour |-> FALSE]
  <2>1. /\ timing = [c \in Colour |-> c = b]
        /\ tenths[b] <= past[b][1] + age
        /\ past[b][1] + age <= tenths[b] + 1
        /\ \A c \in Colour : c # b => tenths[c] = 0
    BY <1>6 DEF Timing, b
  <2>2. age = 0 \/ age = 1
    BY <1>6 DEF Fresh
  <2>3. timing' = [c \in Colour |-> c = phase]
    BY <1>2, <1>3, <2>1
  <2>4. Timing'
    <3>1. tenths'[phase] = 0 /\ (\A c \in Colour : tenths'[c] = 0)
      BY <1>2, <1>3, <2>1
    <3>2. tenths'[phase] <= age /\ age <= tenths'[phase] + 1
      BY <2>2, <3>1
    <3> HIDE DEF StudyInv
    <3> QED
      BY <1>1, <2>3, <3>1, <3>2 DEF Timing
  <2>5. time' = [time EXCEPT ![b] = <<L!Seconds(tenths[b]), time[b][1]>>]
    BY <1>2, <1>3, <2>1
  <2>6. \A c \in Colour : c # b =>
            time'[c] = time[c] /\ measured'[c] = measured[c]
    BY <1>2, <1>3, <2>5
  <2>7. measured'[b] >= 2 => measured[b] >= 1
    BY <1>2, <1>3
  <2>8. past[b][1] % 10 = 0 => time'[b][1] = Sec(past[b][1])
    <3>1. past[b][1] \in Nat /\ tenths[b] \in Nat
      BY <1>2
    <3>2. past[b][1] <= tenths[b] + 1 /\ tenths[b] <= past[b][1] + 1
      BY <2>1, <2>2, <3>1
    <3>3. time'[b][1] = L!Seconds(tenths[b])
      BY <1>2, <2>5
    <3> QED
      BY <3>1, <3>2, <3>3, Rounding
  <2>9. time'[b][2] = time[b][1]
    BY <1>2, <2>5
  <2>10. \A c \in Colour : c # b => Agree(c)
    BY <1>6 DEF Kept, b
  <2>11. measured[b] >= 1 /\ past[b][2] % 10 = 0 => time[b][1] = Sec(past[b][2])
    BY <1>6 DEF Kept, b
  <2>12. ASSUME NEW c \in Colour PROVE Agree(c)'
    <3>1. CASE c = b
      BY <1>1, <2>7, <2>8, <2>9, <2>11, <3>1 DEF Agree
    <3>2. CASE c # b
      BY <1>1, <2>6, <2>10, <3>2 DEF Agree
    <3> QED
      BY <3>1, <3>2
  <2>13. Kept'
    BY <1>1, <2>12 DEF Kept
  <2> QED
    BY <2>4, <2>13
<1> QED
  BY <1>4, <1>5, <1>6

\* And to the posts.
LEMMA PostKeeps ==
    ASSUME TypeInv, StudyInv, L!Poll, lit
    PROVE  Posting' /\ (noticed => UNCHANGED posted)
<1> DEFINE b == Last
<1>1. /\ noticed' = TRUE /\ UNCHANGED phase
      /\ L!Post(phase) \/ L!AlreadyPosted(phase) \/ L!Unstable(phase)
  BY PollFacts
<1>2. /\ phase \in Colour /\ b \in Colour /\ b # phase
      /\ time \in [Colour -> Byte \X Byte] /\ num \in [Colour -> 0 .. MaxNum]
      /\ posted \in [Colour -> BOOLEAN]
  BY TheOneBefore, SameColour
     DEF TypeInv, StudyTypeOK, L!StudyTypeOK, CountdownTypeOK, Last
<1>3. time'[phase] = time[phase]
  BY <1>2, PollFacts DEF L!Learn, Last
<1>4. /\ \A c \in Colour : c # phase /\ c # b => ~posted[c]
      /\ noticed => ~posted[b]
      /\ noticed => (posted[phase] <=> time[phase][1] = time[phase][2])
      /\ noticed /\ posted[phase] => num[phase] = time[phase][1]
      /\ ~noticed => ~posted[phase]
  BY <1>2 DEF StudyInv, Posting
<1>5. CASE L!Post(phase)
  <2>1. /\ time[phase][1] = time[phase][2] /\ ~posted[phase]
        /\ num' = [num EXCEPT ![phase] = time[phase][1]]
        /\ posted' = [posted EXCEPT ![b] = FALSE, ![phase] = TRUE]
    BY <1>5 DEF L!Post, L!Stable, Last
  <2> QED
    BY <1>1, <1>2, <1>3, <1>4, <2>1 DEF Posting
<1>6. CASE L!AlreadyPosted(phase)
  <2>1. /\ time[phase][1] = time[phase][2] /\ posted[phase] /\ UNCHANGED num
        /\ posted' = [posted EXCEPT ![b] = FALSE]
    BY <1>6 DEF L!AlreadyPosted, L!Stable, L!post, Last
  <2>2. noticed
    BY <1>4, <2>1
  <2> QED
    BY <1>1, <1>2, <1>3, <1>4, <2>1, <2>2 DEF Posting
<1>7. CASE L!Unstable(phase)
  <2>1. /\ time[phase][1] # time[phase][2]
        /\ posted' = [posted EXCEPT ![b] = FALSE, ![phase] = FALSE]
    BY <1>7 DEF L!Unstable, L!Stable, Last
  <2> QED
    BY <1>1, <1>2, <1>3, <1>4, <2>1 DEF Posting
<1> QED
  BY <1>1, <1>5, <1>6, <1>7

\* A poll.
LEMMA PollStudyInv == TypeInv /\ StudyInv /\ Poll => StudyInv'
<1> SUFFICES ASSUME TypeInv, StudyInv, Poll PROVE StudyInv'
  OBVIOUS
<1>1. L!Poll
  BY DEF Poll
<1>2. CASE lit
  <2>1. noticed'
    BY <1>1, <1>2, PollFacts
  <2> QED
    BY <1>1, <1>2, <2>1, LearnKeeps, PostKeeps DEF StudyInv, Fresh
<1>3. CASE ~lit
  <2>1. noticed
    BY <1>3 DEF StudyInv, Fresh
  <2>2. UNCHANGED <<m_or_p, phase, length, age, lit, past, timing, tenths,
                    time, posted, num, measured, noticed>>
    BY <1>1, <1>3, DarkPoll
  <2> QED
    BY <2>1, <2>2 DEF StudyInv, Fresh, Timing, Kept, Agree, Posting, Last,
       L!Before
<1> QED
  BY <1>2, <1>3

\* The interrupt adds a tenth to the colour that is timed.
LEMMA OneTenth ==
    ASSUME TypeInv, NEW x \in L!Watched, timing = [c \in Colour |-> c = x],
           tenths[x] + 1 < WordMod, L!timer_out
    PROVE  /\ tenths'[x] = tenths[x] + 1
           /\ \A c \in Colour : c # x => tenths'[c] = tenths[c]
<1>1. x \in Colour
  BY TheOneBefore DEF TypeInv, StudyTypeOK, L!StudyTypeOK
<1>2. \A c \in Colour : L!Timed(c) <=> c = x
  BY <1>1 DEF L!Timed, Colour
<1>3. tenths[x] + 1 \in Nat /\ WordMod \in Nat
  BY <1>1, SameColour, StudyAssumption DEF TypeInv, StudyTypeOK, L!StudyTypeOK
<1>4. (tenths[x] + 1) % WordMod = tenths[x] + 1
  BY <1>3, ModSmall
<1> QED
  BY <1>1, <1>2, <1>4, SameColour DEF L!timer_out

\* An expiry.
LEMMA TickStudyInv == TypeInv /\ StudyInv /\ Tick => StudyInv'
<1> SUFFICES ASSUME TypeInv, StudyInv, Tick PROVE StudyInv'
  OBVIOUS
<1>1. /\ polled /\ age < length /\ L!timer_out /\ age' = age + 1
      /\ polled' = FALSE
      /\ UNCHANGED <<m_or_p, timing, time, posted, phase, length, lit, noticed,
                     past, measured, num>>
      /\ Last' = Last
  BY DEF Tick, L!Expiry, timeout, shared, Last, L!Before
<1>2. /\ age \in Nat /\ length \in Nat /\ length + 2 < WordMod
      /\ tenths \in [Colour -> 0 .. WordMod - 1]
      /\ past \in [Colour -> Nat \X Nat]
      /\ phase \in L!Watched /\ phase \in Colour /\ Last \in Colour
      /\ Last \in L!Watched /\ WordMod \in Nat /\ Flash \in Nat
  BY TheOneBefore, SameColour, StudyAssumption
     DEF TypeInv, StudyTypeOK, L!StudyTypeOK, Last, L!Watched, L!Before, Colour
<1>3. ~noticed => age = 0
  BY <1>1 DEF StudyInv, Fresh
<1>4. Fresh'
  BY <1>1, <1>2, <1>3 DEF StudyInv, Fresh
<1>5. Timing'
  <2>1. CASE noticed
    <3>1. /\ timing = [c \in Colour |-> c = phase]
          /\ tenths[phase] <= age /\ age <= tenths[phase] + 1
          /\ \A c \in Colour : c # phase => tenths[c] = 0
      BY <2>1 DEF StudyInv, Timing
    <3>2. tenths[phase] + 1 < WordMod /\ tenths[phase] \in Nat
      BY <1>1, <1>2, <3>1
    <3>3. /\ tenths'[phase] = tenths[phase] + 1
          /\ \A c \in Colour : c # phase => tenths'[c] = tenths[c]
      BY <1>1, <1>2, <3>1, <3>2, OneTenth
    <3> QED
      BY <1>1, <1>2, <2>1, <3>1, <3>2, <3>3 DEF Timing
  <2>2. CASE ~noticed /\ timing = [c \in Colour |-> FALSE]
    <3>1. \A c \in Colour : tenths[c] = 0 /\ measured[c] = 0
      BY <1>2, <2>2 DEF StudyInv, Timing
    <3>2. \A c \in Colour : ~L!Timed(c)
      BY <2>2 DEF L!Timed
    <3>3. \A c \in Colour : tenths'[c] = tenths[c]
      BY <1>1, <3>2, SameColour DEF L!timer_out
    <3> QED
      BY <1>1, <2>2, <3>1, <3>3 DEF Timing
  <2>3. CASE ~noticed /\ timing # [c \in Colour |-> FALSE]
    <3>1. /\ timing = [c \in Colour |-> c = Last]
          /\ tenths[Last] <= past[Last][1] + age
          /\ past[Last][1] + age <= tenths[Last] + 1
          /\ past[Last][1] + 2 < WordMod
          /\ \A c \in Colour : c # Last => tenths[c] = 0
      BY <2>3 DEF StudyInv, Timing
    <3>2. tenths[Last] \in Nat /\ past[Last][1] \in Nat
      BY <1>2
    <3>3. tenths[Last] + 1 < WordMod
      BY <1>2, <1>3, <2>3, <3>1, <3>2
    <3>4. /\ tenths'[Last] = tenths[Last] + 1
          /\ \A c \in Colour : c # Last => tenths'[c] = tenths[c]
      BY <1>1, <1>2, <3>1, <3>3, OneTenth
    <3>5. /\ tenths'[Last] <= past[Last][1] + age'
          /\ past[Last][1] + age' <= tenths'[Last] + 1
      BY <1>1, <1>2, <3>1, <3>2, <3>4
    <3>6. \A c \in Colour : c # Last => tenths'[c] = 0
      BY <3>1, <3>4
    <3>7. ~noticed' /\ timing' = [c \in Colour |-> c = Last']
      BY <1>1, <2>3, <3>1
    <3> QED
      BY <1>1, <3>1, <3>5, <3>6, <3>7 DEF Timing
  <2> QED
    BY <2>1, <2>2, <2>3
<1>6. Kept' /\ Posting'
  BY <1>1 DEF StudyInv, Kept, Agree, Posting
<1> QED
  BY <1>4, <1>5, <1>6 DEF StudyInv

\* The light goes on only after a poll has noticed the phase.
LEMMA NextPhaseKeeps ==
    ASSUME TypeInv, StudyInv, L!NextPhase
    PROVE  StudyInv'
<1>1. PICK c \in L!Watched : /\ L!Before(c) = phase /\ phase' = c
                            /\ \E d \in Durations[c] : length' = 10 * d
  BY DEF L!NextPhase
<1>2. /\ age = length /\ age' = 0 /\ lit' = TRUE /\ noticed' = FALSE
      /\ past' = [past EXCEPT ![phase] = <<length, past[phase][1]>>]
      /\ UNCHANGED <<m_or_p, timing, tenths, time, posted, num, polled, measured>>
  BY DEF L!NextPhase, L!learner, L!post
<1>3. Last' = phase
  BY <1>1, <1>2 DEF Last, L!Before
<1>4. noticed
  BY <1>2 DEF StudyInv, Fresh
<1>5. /\ age \in Nat /\ length \in Nat /\ length + 2 < WordMod
      /\ tenths \in [Colour -> 0 .. WordMod - 1]
      /\ past \in [Colour -> Nat \X Nat] /\ phase \in Colour /\ c \in Colour
      /\ Flash \in Nat
  BY TheOneBefore, SameColour, StudyAssumption
     DEF TypeInv, StudyTypeOK, L!StudyTypeOK
<1>6. Fresh'
  <2>1. PICK d \in Durations[c] : length' = 10 * d
    BY <1>1
  <2>2. d \in Nat \ {0}
    BY <1>5, StudyAssumption
  <2>3. c = "G" => Flash + 1 < length'
    BY <2>1, LightAssumption
  <2> QED
    BY <1>1, <1>2, <1>5, <2>1, <2>2, <2>3 DEF Fresh
<1>7. /\ timing = [k \in Colour |-> k = phase]
      /\ tenths[phase] <= age /\ age <= tenths[phase] + 1
      /\ \A k \in Colour : k # phase => tenths[k] = 0
  BY <1>4 DEF StudyInv, Timing
<1>8. past'[phase] = <<length, past[phase][1]>>
  BY <1>2, <1>5
<1>9. Timing'
  <2>1. /\ tenths'[phase] <= past'[phase][1] + age'
        /\ past'[phase][1] + age' <= tenths'[phase] + 1
        /\ past'[phase][1] + 2 < WordMod
    BY <1>2, <1>5, <1>7, <1>8
  <2>2. timing' = [k \in Colour |-> k = Last']
    BY <1>2, <1>3, <1>7
  <2>3. \A k \in Colour : k # phase => tenths'[k] = 0
    BY <1>2, <1>7
  <2> QED
    BY <1>2, <1>3, <2>1, <2>2, <2>3 DEF Timing
<1>10. Kept'
  <2>1. \A k \in Colour : Agree(k)
    BY <1>4 DEF StudyInv, Kept
  <2>2. \A k \in Colour : k # phase => past'[k] = past[k]
    BY <1>2, <1>5
  <2>3. \A k \in Colour : k # phase => Agree(k)'
    BY <1>2, <2>1, <2>2 DEF Agree
  <2>4. measured[phase] >= 1 /\ past'[phase][2] % 10 = 0 =>
            time[phase][1] = Sec(past'[phase][2])
    BY <1>5, <1>8, <2>1 DEF Agree
  <2> QED
    BY <1>2, <1>3, <2>3, <2>4 DEF Kept, Sec
<1>11. Posting'
  BY <1>2, <1>3, <1>4 DEF StudyInv, Posting
<1> QED
  BY <1>6, <1>9, <1>10, <1>11 DEF StudyInv

\* Green flashes only when it has been noticed.
LEMMA FlashKeeps ==
    ASSUME TypeInv, StudyInv, L!FlashToggle
    PROVE  StudyInv'
<1>1. /\ phase = "G" /\ age + Flash >= length
      /\ UNCHANGED <<m_or_p, timing, tenths, time, posted, num, phase, length,
                     age, polled, noticed, past, measured>>
  BY DEF L!FlashToggle, L!learner, L!post
<1>2. noticed
  <2>1. age + Flash \in Nat /\ length \in Nat
    BY StudyAssumption DEF TypeInv, StudyTypeOK, L!StudyTypeOK
  <2> QED
    BY <1>1, <2>1 DEF StudyInv, Fresh
<1> QED
  BY <1>1, <1>2 DEF StudyInv, Fresh, Timing, Kept, Agree, Posting, Last, L!Before

\* The display erases modes and flags, none of which the learner reads.
LEMMA DisplayStudyInv == StudyInv /\ (Display \/ UNCHANGED sdVars) => StudyInv'
<1> SUFFICES ASSUME StudyInv, Display \/ UNCHANGED sdVars PROVE StudyInv'
  OBVIOUS
<1>1. UNCHANGED <<m_or_p, timing, tenths, time, posted, num, phase, length,
                  age, lit, polled, noticed, past, measured>>
  BY DEF Display, DisplayStep, Pass, BranchNoPost, BranchPost, SetType,
     YellowNoPost, YellowPost, TestFlag, ZeroFirst, ZeroSecond, ClearSync,
     Load, DropFlag, Show, OnlyRed, Wake, shared, learning, sdVars, vars
<1> QED
  BY <1>1 DEF StudyInv, Fresh, Timing, Kept, Agree, Posting, Last, L!Before

\* The invariant of the learner.
LEMMA StudyInvariant == SDSpec => [](TypeInv /\ StudyInv)
<1>1. SDInit => TypeInv /\ StudyInv
  BY InitTypeInv, InitStudyInv
<1>2. TypeInv /\ StudyInv /\ [SDNext]_sdVars => TypeInv' /\ StudyInv'
  BY StepTypeInv, DisplayStudyInv, PollStudyInv, TickStudyInv, NextPhaseKeeps,
     FlashKeeps DEF SDNext, Light
<1> QED
  BY <1>1, <1>2, PTL DEF SDSpec

\* Every variable of the learning sign keeps its type: the bytes of the
\* lengths, the words of the tenths, and the structure the display reads.
THEOREM LearnerTypeCorrect == SDSpec => [](CountdownTypeOK /\ StudyTypeOK)
<1>1. TypeInv => CountdownTypeOK /\ StudyTypeOK
  BY DEF TypeInv
<1> QED
  BY <1>1, StudyInvariant, PTL

\* The structure the display thread shares with the timer and the poster, and
\* its program counter, keep their types whatever the study thread posts
\* (config.h:9-28, countdown.c:353).
THEOREM DisplayTypeCorrect == SDSpec => []CountdownTypeOK
<1>1. TypeInv => CountdownTypeOK
  BY DEF TypeInv
<1> QED
  BY <1>1, StudyInvariant, PTL

\* From the first poll of a phase on, that phase and no other is timed.
THEOREM TimesOnePhase == SDSpec => []OneTimed
<1>1. TypeInv /\ StudyInv => OneTimed
  BY SameColour DEF StudyInv, Timing, OneTimed, L!OneTimed
<1> QED
  BY <1>1, StudyInvariant, PTL

\* A phase of whole seconds is stored with its length, modulo the byte,
\* although each end of it is noticed up to a tenth late.
THEOREM LearnsEveryLength == SDSpec => []LearnsLength
<1>1. TypeInv /\ StudyInv => LearnsLength
  <2> SUFFICES ASSUME TypeInv, StudyInv PROVE LearnsLength
    OBVIOUS
  <2>1. Last \in Colour
    BY TheOneBefore DEF TypeInv, StudyTypeOK, L!StudyTypeOK, Last
  <2>2. noticed => Agree(Last)
    BY <2>1 DEF StudyInv, Kept
  <2> QED
    BY <2>2 DEF LearnsLength, L!LearnsLength, Agree, Sec, Last
<1> QED
  BY <1>1, StudyInvariant, PTL

\* A phase is posted exactly when its last two lengths agree, with that length.
THEOREM PostsIfStable == SDSpec => []PostsStableLength
<1>1. TypeInv /\ StudyInv => PostsStableLength
  <2> SUFFICES ASSUME TypeInv, StudyInv, noticed, measured[phase] >= 2,
                      L!Whole(phase)
               PROVE  /\ posted[phase] <=> Sec(past[phase][1]) = Sec(past[phase][2])
                      /\ posted[phase] => num[phase] = Sec(past[phase][1])
    BY DEF PostsStableLength, L!PostsStableLength, Sec
  <2>1. phase \in Colour /\ measured[phase] \in 0 .. 3
    BY TheOneBefore DEF TypeInv, StudyTypeOK, L!StudyTypeOK
  <2>2. Agree(phase)
    BY <2>1 DEF StudyInv, Kept
  <2>3. past[phase][1] % 10 = 0 /\ past[phase][2] % 10 = 0
    BY DEF L!Whole
  <2>4. /\ time[phase][1] = Sec(past[phase][1])
        /\ time[phase][2] = Sec(past[phase][2])
    BY <2>1, <2>2, <2>3 DEF Agree
  <2> QED
    BY <2>4 DEF StudyInv, Posting
<1> QED
  BY <1>1, StudyInvariant, PTL

\* A phase is posted when it is first noticed or not at all: neither a dark
\* moment of a flashing green nor a later poll posts it again.
THEOREM PostsOncePerPhase == SDSpec => PostsAtPhaseStart
<1>1. TypeInv /\ StudyInv /\ [SDNext]_sdVars =>
         [\A c \in L!Colour : ~posted[c] /\ posted'[c] => ~noticed]_L!studyVars
  <2> SUFFICES ASSUME TypeInv, StudyInv, [SDNext]_sdVars, noticed
               PROVE  UNCHANGED posted
    OBVIOUS
  <2>1. CASE Poll
    <3>1. L!Poll
      BY <2>1 DEF Poll
    <3> QED
      BY <3>1, PostKeeps, DarkPoll DEF TypeInv, StudyTypeOK, L!StudyTypeOK
  <2>2. CASE Display \/ Tick \/ Light \/ UNCHANGED sdVars
    BY <2>2 DEF Display, Tick, Light, L!Expiry, L!FlashToggle, L!NextPhase,
       L!learner, learning, sdVars
  <2> QED
    BY <2>1, <2>2 DEF SDNext
<1> QED
  BY <1>1, StudyInvariant, PTL DEF SDSpec, PostsAtPhaseStart, L!PostsAtPhaseStart

-----------------------------------------------------------------------------
(***************************************************************************)
(* The display of what was learned.                                        *)
(***************************************************************************)

\* The learner and the light leave the count alone.
LEMMA OthersLeaveCount ==
    Poll \/ Light \/ UNCHANGED sdVars =>
        UNCHANGED countVars /\ UNCHANGED panel /\ UNCHANGED owner
BY DEF Poll, Light, countVars, thread, history, sdVars, vars, counter

\* A poll sets the flag of a number with its mode, in one step.
LEMMA PollTakeOver == TypeInv /\ TakeOver /\ Poll => TakeOver'
<1> SUFFICES ASSUME TypeInv, TakeOver, Poll PROVE TakeOver'
  OBVIOUS
<1>1. L!Poll /\ UNCHANGED <<pc, seen, owner>>
  BY DEF Poll, thread, history
<1>2. /\ mode \in [Colour -> BOOLEAN] /\ flag \in [Colour -> BOOLEAN]
      /\ phase \in Colour /\ seen \in Colour
      /\ FirstOther(seen) \in Colour /\ SecondOther(seen) \in Colour
  BY TheOneBefore, TheOthers
     DEF TypeInv, StudyTypeOK, L!StudyTypeOK, CountdownTypeOK
<1>3. \/ UNCHANGED <<mode, flag>>
      \/ /\ mode' = [mode EXCEPT ![phase] = TRUE]
         /\ flag' = [flag EXCEPT ![phase] = TRUE]
  <2>1. CASE lit
    BY <1>1, <2>1, PollFacts
       DEF L!Post, L!AlreadyPosted, L!Unstable, L!post
  <2>2. CASE ~lit
    BY <1>1, <2>2, DarkPoll
  <2> QED
    BY <2>1, <2>2
<1> QED
  BY <1>1, <1>2, <1>3 DEF TakeOver

\* The inductive invariant of the learning sign's display.
SDInv == TypeInv /\ CountInv /\ TakeOver /\ FaceInv

\* Every step keeps it, and is a step of the abstract sign.
LEMMA SDStep ==
    SDInv /\ [SDNext]_sdVars => SDInv' /\ [S!SignNext]_panel
<1> SUFFICES ASSUME SDInv, [SDNext]_sdVars PROVE SDInv' /\ [S!SignNext]_panel
  OBVIOUS
<1>1. TypeInv' /\ CountdownTypeOK
  BY StepTypeInv DEF SDInv, TypeInv
<1>2. CASE Display
  <2>1. DisplayStep
    BY <1>2 DEF Display
  <2> QED
    BY <1>1, <2>1, DisplayCount, DisplayTakeOver, DisplayFace DEF SDInv
<1>3. CASE Tick
  <2>1. timeout /\ UNCHANGED <<mode, flag, pc, seen, owner>>
    BY <1>3 DEF Tick, timeout, shared
  <2>2. TakeOver'
    BY <2>1 DEF SDInv, TakeOver
  <2> QED
    BY <1>1, <2>1, <2>2, TimeoutCount, TimeoutFace DEF SDInv
<1>4. CASE Poll \/ Light \/ UNCHANGED sdVars
  <2>1. UNCHANGED <<countVars, panel, owner>>
    BY <1>4, OthersLeaveCount
  <2>2. CountInv' /\ FaceInv'
    BY <2>1, OthersCount DEF SDInv, FaceInv, S!Lit, countVars
  <2>3. CASE Poll
    BY <1>1, <2>1, <2>2, <2>3, PollTakeOver DEF SDInv
  <2>4. CASE Light \/ UNCHANGED sdVars
    <3>1. UNCHANGED <<mode, flag, pc, seen, owner>>
      BY <2>4 DEF Light, L!FlashToggle, L!NextPhase, L!post, thread, history,
         sdVars, vars, shared
    <3>2. TakeOver'
      BY <3>1 DEF SDInv, TakeOver
    <3> QED
      BY <1>1, <2>1, <2>2, <3>2 DEF SDInv
  <2> QED
    BY <1>4, <2>3, <2>4
<1> QED
  BY <1>2, <1>3, <1>4 DEF SDNext

\* Hence it holds.
LEMMA SDInvariant == SDSpec => []SDInv
<1>1. SDInit => SDInv
  BY InitTypeInv, InitCount, InitTakeOver DEF SDInit, SDInv
<1>2. SDInv /\ [SDNext]_sdVars => SDInv'
  BY SDStep
<1> QED
  BY <1>1, <1>2, PTL DEF SDSpec

\* A learned number is counted by the second, with no drift and no stop,
\* wherever the study thread preempts the display thread.
THEOREM LearnedCountsExactly == SDSpec => [](NoOvershoot /\ CountExact)
<1>1. SDInv => NoOvershoot /\ CountExact
  BY CountInvImplies DEF SDInv
<1> QED
  BY <1>1, SDInvariant, PTL

\* The face of a learning sign shows the number learned for its own colour.
THEOREM LearnedShowsOwnNumber == SDSpec => []OwnNumber
<1>1. SDInv => OwnNumber
  BY DEF SDInv, FaceInv, OwnNumber
<1> QED
  BY <1>1, SDInvariant, PTL

\* The learning sign implements the abstract one, too.
THEOREM LearnedImplementsSign == SDSpec => ShowsAsSign
<1>1. SDInit => S!SignInit
  BY DEF SDInit, CountdownInit, S!SignInit
<1>2. SDInv /\ [SDNext]_sdVars => [S!SignNext]_panel
  BY SDStep
<1> QED
  BY <1>1, <1>2, SDInvariant, PTL DEF SDSpec, ShowsAsSign, S!SignSpec

\* The face of a learning sign is at most one second behind the count.
THEOREM LearnedStaysFresh ==
    ASSUME Burst < LastSecond
    PROVE  SDSpec => []FaceFresh
<1>1. SDInit => FreshInv
  BY InitFresh DEF SDInit
<1>2. SDInv /\ FreshInv /\ [SDNext]_sdVars => FreshInv'
  <2> SUFFICES ASSUME SDInv, FreshInv, [SDNext]_sdVars PROVE FreshInv'
    OBVIOUS
  <2>1. CountdownTypeOK /\ CountInv
    BY DEF SDInv, TypeInv
  <2>2. CASE Display
    BY <2>1, <2>2, DisplayFresh DEF Display
  <2>3. CASE Tick
    BY <2>1, <2>3, TimeoutFresh DEF Tick
  <2>4. CASE Poll \/ Light \/ UNCHANGED sdVars
    <3>1. UNCHANGED <<config, panel, pc, seen, elapsed, curNum, sync>>
      BY <2>4 DEF Poll, Light, sdVars, vars, counter, thread
    <3> QED
      BY <3>1, OthersFresh
  <2> QED
    BY <2>2, <2>3, <2>4 DEF SDNext
<1>3. SDInv /\ FreshInv => FaceFresh
  BY FreshInvImplies DEF SDInv, TypeInv
<1> QED
  BY <1>1, <1>2, <1>3, SDInvariant, PTL DEF SDSpec

=============================================================================
