---------------------------- MODULE StudyDisplay ----------------------------
(***************************************************************************)
(* The learning sign as a whole: the study thread of Study posts into the  *)
(* structure that the display thread and the timer of Countdown work on,   *)
(* and both look at the same lamp.  The study thread preempts the display  *)
(* thread between any two of its actions; the two timers have the same     *)
(* period, so one expiry stands for both handlers.                         *)
(***************************************************************************)
EXTENDS Countdown

CONSTANTS Durations, Flash, PowerUp, ByteMod, WordMod

ASSUME StudyAssumption ==
    /\ Durations \in [Colour -> SUBSET (Nat \ {0})]
    /\ Flash \in Nat
    /\ PowerUp \subseteq Nat \ {0}
    /\ ByteMod \in Nat /\ ByteMod > 2 /\ ByteMod <= MaxNum + 1
    /\ WordMod \in Nat

\* The traffic light: green does not flash before a poll can have noticed it,
\* and no phase outlasts the counter of its tenths (109 minutes in the code).
ASSUME LightAssumption ==
    /\ \A d \in Durations["G"] : Flash + 1 < 10 * d
    /\ \A n \in PowerUp : Flash < n
    /\ \A n \in PowerUp : n + 2 < WordMod
    /\ \A c \in Colour : \A d \in Durations[c] : 10 * d + 2 < WordMod

VARIABLES m_or_p, timing, tenths, time, posted, phase, length, age, lit,
          polled, noticed, past, measured

L == INSTANCE Study

learning == <<m_or_p, timing, tenths, time, posted, phase, length, age, lit,
              polled, noticed, past, measured>>

sdVars == <<vars, learning>>

\* The display's terminals are those the study thread watches.
LampFollows == lamp' = IF lit' THEN {phase'} ELSE {}

Display == DisplayStep /\ UNCHANGED learning

Poll ==
    /\ L!Poll
    /\ UNCHANGED <<config, curNum, sync, countdownType, lamp, thread, history>>

Tick == timeout /\ L!Expiry

Light ==
    /\ L!FlashToggle \/ L!NextPhase
    /\ LampFollows
    /\ UNCHANGED <<config, curNum, sync, countdownType, thread, history>>

SDInit ==
    /\ CountdownInit
    /\ L!StudyInit
    /\ m_or_p = (IF config.motor THEN "motor" ELSE "people")
    /\ lamp = {phase}

SDNext == Display \/ Poll \/ Tick \/ Light

SDSpec == SDInit /\ [][SDNext]_sdVars

-----------------------------------------------------------------------------
(***************************************************************************)
(* Properties.                                                             *)
(***************************************************************************)

\* The learner's own properties, stated and explained in Study, while the
\* display erases modes and flags of the structure it posts into.

\* Types of the learner; the learned lengths stay bytes (study.c:22-24, 40-41).
StudyTypeOK == L!StudyTypeOK

\* Only the phase that is on is timed (timer_out, study.c:51).
OneTimed == L!OneTimed

\* The stored length is the length of the phase, in whole seconds.
LearnsLength == L!LearnsLength

\* A phase is counted exactly when its last two lengths agree, and from there.
PostsStableLength == L!PostsStableLength

\* One post per phase, at its start, and none after a flash of green.
PostsAtPhaseStart == L!PostsAtPhaseStart

\* A learned phase is on the face of a vehicle sign soon: nine tenths after
\* the lamp changed, the display has taken the new number over.
TakenInTime ==
    config.motor /\ posted[phase] /\ noticed /\ age >= 9 =>
        owner = phase /\ ~flag[phase]

\* A learned countdown ends with its phase: when a phase that is as long as
\* the two of its colour before it ends, the count that was loaded for it is
\* over or in its last second.
EndsWithPhase ==
    [][L!NextPhase /\ posted[phase] /\ owner = phase
          /\ past[phase] = <<length, length>> => curNum <= 1]_sdVars

=============================================================================
