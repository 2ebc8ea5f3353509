-------------------------------- MODULE Study --------------------------------
(***************************************************************************)
(* The learning sign (applications/study.c): the thread "study" polls the  *)
(* lamp terminals every 20 ms, the timer "study" counts tenths of a second *)
(* for the colour that is on, and a colour whose last two measured lengths  *)
(* agree is posted to the display at the start of its next phase.          *)
(*                                                                         *)
(* The vehicle sign learns three colours from one set of terminals, the    *)
(* pedestrian sign two from another; but for the colour that comes before  *)
(* each colour the two functions are the same, so they are one action here.*)
(*                                                                         *)
(* The thread has priority 19, above the display, and does not block       *)
(* inside a poll: a poll is one step.  StudyDisplay composes it with the   *)
(* display of the sign.                                                    *)
(***************************************************************************)
EXTENDS Naturals

CONSTANTS
    Durations,   \* Durations[c]: the lengths, in seconds, a phase may have
    Flash,       \* tenths of a second at the end of green that it may flash
    PowerUp,     \* tenths left of the phase that is on when power comes up
    ByteMod,     \* width of the bytes red_time[] and so on: 256 in the code
    WordMod      \* width of the counters: 65536 in the code

Colour == {"R", "G", "Y"}

VARIABLES
    m_or_p,      \* which sign this is, read from the dial when the thread starts
    timing,      \* red_flag, green_flag, yellow_flag
    tenths,      \* red_counter, green_counter, yellow_counter
    time,        \* time[c]: the last two lengths, red_time[0] and [1]
    posted,      \* r_t, g_t, y_t: posted in this phase
    num, mode, flag, type, blind, curMode   \* the structure "countdown"

\* The lamp and the clock.
VARIABLES
    phase,       \* the colour that is on
    length,      \* how long this phase lasts, in tenths
    age,         \* expiries of the timer since the phase began
    lit,         \* FALSE while green flashes off
    polled,      \* the thread has polled since the last expiry
    noticed,     \* the thread has polled since the phase began
    past,        \* (history) past[c]: lengths of the last two whole phases
    measured     \* (history) measured[c]: how many lengths were measured

learner == <<timing, tenths, time, posted>>
post    == <<num, mode, flag, type, blind, curMode>>
plan    == <<phase, length, age, lit>>

studyVars == <<m_or_p, learner, post, plan, polled, noticed, past, measured>>

-----------------------------------------------------------------------------
Watched == IF m_or_p = "motor" THEN Colour ELSE {"R", "G"}

\* The colour whose phase ends when c comes on.
Before(c) ==
    IF m_or_p = "motor" THEN [R |-> "Y", Y |-> "G", G |-> "R"][c]
    ELSE IF c = "R" THEN "G" ELSE "R"

\* What the poll sees: no terminal, or exactly one, is on.
Seen == IF lit THEN {phase} ELSE {}

\* Mutants: no rounding, rounding up, and a word instead of a byte.
Seconds_Down(n) == (n \div 10) % ByteMod
Seconds_Up(n)   == ((n + 10) \div 10) % ByteMod
Seconds_Word(n) == ((n + 1) \div 10) % WordMod

\* The length of the phase that just ended, in seconds: the byte that
\* (counter+1)/10 is stored in.
Seconds(n) == ((n + 1) \div 10) % ByteMod

Stable(t) == t[1] = t[2]

-----------------------------------------------------------------------------
\* Mutant: the phase that ended is timed for ever.
Learn_KeepsTiming(c) ==
    LET b == Before(c)
    IN  /\ time' = IF timing[b]
                     THEN [time EXCEPT ![b] = <<Seconds(tenths[b]), time[b][1]>>]
                     ELSE time
        /\ timing' = [timing EXCEPT ![c] = TRUE]
        /\ tenths' = [tenths EXCEPT ![b] = 0]
        /\ measured' = IF timing[b] /\ measured[b] < 3
                         THEN [measured EXCEPT ![b] = @ + 1] ELSE measured

\* Mutant: the new length is stored before the old one is moved.
Learn_Overwrites(c) ==
    LET b == Before(c)
        s == Seconds(tenths[b])
    IN  /\ time' = IF timing[b] THEN [time EXCEPT ![b] = <<s, s>>] ELSE time
        /\ timing' = [timing EXCEPT ![b] = FALSE, ![c] = TRUE]
        /\ tenths' = [tenths EXCEPT ![b] = 0]
        /\ measured' = IF timing[b] /\ measured[b] < 3
                         THEN [measured EXCEPT ![b] = @ + 1] ELSE measured

\* rt_hw_motor_stduy, rt_hw_people_stduy: colour c is on.
Learn(c) ==
    LET b == Before(c)
    IN  /\ time' = IF timing[b]
                     THEN [time EXCEPT ![b] = <<Seconds(tenths[b]), time[b][1]>>]
                     ELSE time
        /\ timing' = [timing EXCEPT ![b] = FALSE, ![c] = TRUE]
        /\ tenths' = [tenths EXCEPT ![b] = 0]
        /\ measured' = IF timing[b] /\ measured[b] < 3
                         THEN [measured EXCEPT ![b] = @ + 1] ELSE measured

\* Two equal lengths, not yet posted in this phase.
Post(c) ==
    /\ Stable(time[c]) /\ ~posted[c]
    /\ num' = [num EXCEPT ![c] = time[c][1]]
    /\ mode' = [mode EXCEPT ![c] = TRUE]
    /\ flag' = [flag EXCEPT ![c] = TRUE]
    /\ type' = TRUE /\ blind' = FALSE /\ curMode' = c
    /\ posted' = [posted EXCEPT ![Before(c)] = FALSE, ![c] = TRUE]

AlreadyPosted(c) ==
    /\ Stable(time[c]) /\ posted[c]
    /\ posted' = [posted EXCEPT ![Before(c)] = FALSE]
    /\ UNCHANGED post

Unstable(c) ==
    /\ ~Stable(time[c])
    /\ curMode' = "BLACK"
    /\ posted' = [posted EXCEPT ![Before(c)] = FALSE, ![c] = FALSE]
    /\ UNCHANGED <<num, mode, flag, type, blind>>

\* Mutant: a dark lamp ends the phase.
Poll_DarkEnds ==
    /\ polled' = TRUE
    /\ \/ /\ Seen = {}
          /\ posted' = [c \in Colour |-> FALSE]
          /\ UNCHANGED <<timing, tenths, time, post, measured, noticed>>
       \/ \E c \in Seen :
             /\ Learn(c)
             /\ Post(c) \/ AlreadyPosted(c) \/ Unstable(c)
             /\ noticed' = TRUE
    /\ UNCHANGED <<m_or_p, plan, past>>

\* One round of the thread's loop.  A dark lamp changes nothing.
Poll ==
    /\ polled' = TRUE
    /\ \/ /\ Seen = {}
          /\ UNCHANGED <<learner, post, measured, noticed>>
       \/ \E c \in Seen :
             /\ Learn(c)
             /\ Post(c) \/ AlreadyPosted(c) \/ Unstable(c)
             /\ noticed' = TRUE
    /\ UNCHANGED <<m_or_p, plan, past>>

\* timer_out: the first of red, green, yellow that is being timed.
Timed(c) ==
    /\ c \in Watched /\ timing[c]
    /\ c = "G" => ~timing["R"]
    /\ c = "Y" => ~timing["R"] /\ ~timing["G"]

timer_out ==
    tenths' = [c \in Colour |->
                  IF Timed(c) THEN (tenths[c] + 1) % WordMod ELSE tenths[c]]

\* The thread polls five times between two expiries; once is what matters.
Expiry ==
    /\ polled
    /\ age < length
    /\ timer_out
    /\ age' = age + 1
    /\ polled' = FALSE
    /\ UNCHANGED <<m_or_p, timing, time, posted, phase, length, lit, noticed,
                   past, measured>>

-----------------------------------------------------------------------------
(***************************************************************************)
(* The traffic light: green, flashing green, yellow, red, green (study.c). *)
(* A phase lasts a whole number of seconds; the first one, which was on    *)
(* when the sign was powered up, does not.                                 *)
(***************************************************************************)
FlashToggle ==
    /\ phase = "G" /\ age + Flash >= length
    /\ lit' = ~lit
    /\ UNCHANGED <<m_or_p, learner, post, phase, length, age, polled,
                   noticed, past, measured>>

NextPhase ==
    /\ age = length
    /\ \E c \in Watched :
          /\ Before(c) = phase
          /\ phase' = c
          /\ \E d \in Durations[c] : length' = 10 * d
    /\ age' = 0 /\ lit' = TRUE /\ noticed' = FALSE
    /\ past' = [past EXCEPT ![phase] = <<length, @[1]>>]
    /\ UNCHANGED <<m_or_p, learner, post, polled, measured>>

StudyInit ==
    /\ m_or_p \in {"motor", "people"}
    /\ timing = [c \in Colour |-> FALSE]
    /\ tenths = [c \in Colour |-> 0]
    /\ time = [c \in Colour |-> <<2, 0>>]
    /\ posted = [c \in Colour |-> FALSE]
    /\ num = [c \in Colour |-> 0]
    /\ mode = [c \in Colour |-> FALSE]
    /\ flag = [c \in Colour |-> FALSE]
    /\ type = FALSE /\ blind = FALSE /\ curMode = "BLACK"
    /\ phase \in Watched /\ length \in PowerUp /\ age = 0 /\ lit = TRUE
    /\ polled = FALSE /\ noticed = FALSE
    /\ past = [c \in Colour |-> <<0, 0>>]
    /\ measured = [c \in Colour |-> 0]

-----------------------------------------------------------------------------
(***************************************************************************)
(* Properties.                                                             *)
(***************************************************************************)

\* Types; the learned lengths stay bytes and the counters words.
StudyTypeOK ==
    /\ m_or_p \in {"motor", "people"}
    /\ timing \in [Colour -> BOOLEAN]
    /\ tenths \in [Colour -> 0 .. WordMod - 1]
    /\ \A c \in Colour : \A i \in 1 .. 2 : time[c][i] \in 0 .. ByteMod - 1
    /\ posted \in [Colour -> BOOLEAN]
    /\ num \in [Colour -> 0 .. ByteMod - 1]
    /\ mode \in [Colour -> BOOLEAN] /\ flag \in [Colour -> BOOLEAN]
    /\ type \in BOOLEAN /\ blind \in BOOLEAN
    /\ curMode \in Colour \cup {"BLACK"}
    /\ phase \in Colour /\ length \in Nat /\ age \in Nat
    /\ lit \in BOOLEAN /\ polled \in BOOLEAN /\ noticed \in BOOLEAN

Whole(c) == \A i \in 1 .. 2 : past[c][i] % 10 = 0

\* Once the thread has noticed the phase, the phase and nothing else is being
\* timed: every flag set for an earlier phase has been cleared, or the first
\* flag in the order red, green, yellow would take all the expiries.
OneTimed == noticed => timing = [c \in Colour |-> c = phase]

\* The stored length of a phase is its length in seconds, although the phase
\* is noticed up to one poll late and green flashes dark before it ends.
LearnsLength ==
    LET b == Before(phase)
    IN  noticed /\ measured[b] >= 1 /\ past[b][1] % 10 = 0 =>
            time[b][1] = (past[b][1] \div 10) % ByteMod

\* A phase is counted down exactly when the two phases of its colour before
\* it were equally long, and from that length.
PostsStableLength ==
    noticed /\ measured[phase] >= 2 /\ Whole(phase) =>
        /\ posted[phase] <=>
               (past[phase][1] \div 10) % ByteMod =
               (past[phase][2] \div 10) % ByteMod
        /\ posted[phase] => num[phase] = (past[phase][1] \div 10) % ByteMod

\* A number is posted when its phase is first noticed and never again in the
\* same phase: not after each dark moment of the flashing green.
PostsAtPhaseStart ==
    [][\A c \in Colour : ~posted[c] /\ posted'[c] => ~noticed]_studyVars

=============================================================================
