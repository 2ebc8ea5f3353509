--------------------------------- MODULE Dial ---------------------------------
(***************************************************************************)
(* The bank of dial switches (applications/dial_init.c): sixteen switches  *)
(* behind two shift registers, read twice until two readings agree and     *)
(* then decoded, one assignment at a time, into config_init.  This happens *)
(* once before the threads start, and again whenever somebody types        *)
(* rt_hw_dial_init in the shell.                                           *)
(***************************************************************************)
EXTENDS Naturals, Sequences

CONSTANTS
    Words,      \* positions of the switches at power-up, as 16-bit words
    Turns       \* pairs of positions: how they may be turned later

ASSUME DialAssumption ==
    /\ Words \subseteq 0 .. 65535
    /\ Turns \subseteq (0 .. 65535) \X (0 .. 65535)

VARIABLES
    boma,         \* the switches as they stand
    data_a,       \* the first reading
    dial,         \* where rt_hw_dial_detection is: "first", "second",
                  \* "assign" or "done"
    assignments,  \* what it has still to assign, in the order of the code
    config_init,
    accepted      \* (history) the word on which two readings agreed

dialVars == <<boma, data_a, dial, assignments, config_init, accepted>>

On(w, k)    == (w \div 2^k) % 2 = 1
Digit(w, k) == IF On(w, k) THEN 1 ELSE 0

-----------------------------------------------------------------------------
(***************************************************************************)
(* The three swaps of a byte: nibbles, pairs, neighbours.  A byte is a     *)
(* function from its places to 0 and 1, a mask is a set of places.         *)
(***************************************************************************)

\* The upper byte of the word, as far as it is in the mask.
UpperByte(w, mask) == [k \in 0 .. 7 |-> IF k \in mask THEN Digit(w, 8 + k) ELSE 0]

\* (b << n) under the mask, (b >> n) under the places that are not in it.
Swap(b, n, mask) ==
    [k \in 0 .. 7 |->
        IF k \in mask THEN IF k >= n THEN b[k - n] ELSE 0
                      ELSE IF k + n <= 7 THEN b[k + n] ELSE 0]

Mirrored(b) == Swap(Swap(Swap(b, 4, 4 .. 7), 2, {2, 3, 6, 7}), 1, {1, 3, 5, 7})

\* The two halves of a byte as numbers.
LowHalf(b)  == 8 * b[3] + 4 * b[2] + 2 * b[1] + b[0]
HighHalf(b) == 8 * b[7] + 4 * b[6] + 2 * b[5] + b[4]

\* The switches that name the sign in the GeLinWei protocol.
Direction(w) == \hb0 + HighHalf(Mirrored(UpperByte(w, 1 .. 3)))
Signal(w)    == LET b == Mirrored(UpperByte(w, 4 .. 7))
                IN  \hc0 + 16 * HighHalf(b) + LowHalf(b)

\* The channel of the national protocols.
Channel(w) == LowHalf(Mirrored(UpperByte(w, 0 .. 7)))

-----------------------------------------------------------------------------
(***************************************************************************)
(* What is assigned for each kind of sign: fields and values, in order.    *)
(***************************************************************************)
baud_rate(w) == <<"baud_rate", IF On(w, 8) THEN 9600 ELSE 4800>>
r_led(w)     == <<"r_led", Digit(w, 0)>>
motor_or_people(w) == <<"motor_or_people", Digit(w, 3)>>

Learning(w) == << <<"study_or_comm", 1>>, r_led(w), motor_or_people(w)>>

GeLin(w) ==
    << <<"study_or_comm", 0>>, baud_rate(w), <<"protocol", 1>>,
       <<"countdown_direction", Direction(w)>>, <<"singal_direction", Signal(w)>>,
       r_led(w), motor_or_people(w)>>

\* Mutant: the protocol is only set for GeLinWei; zero at power-up does for
\* the rest.
National_KeepsProtocol(w) ==
    << <<"study_or_comm", 0>>, baud_rate(w), <<"countdown_channel", Channel(w)>>,
       r_led(w), motor_or_people(w)>>

National(w) ==
    << <<"study_or_comm", 0>>, baud_rate(w), <<"protocol", 0>>,
       <<"countdown_channel", Channel(w)>>, r_led(w), motor_or_people(w)>>

Decoded(w) ==
    IF ~On(w, 2) THEN Learning(w) ELSE IF On(w, 1) THEN GeLin(w) ELSE National(w)

-----------------------------------------------------------------------------
ReadFirst ==
    /\ dial = "first"
    /\ data_a' = boma
    /\ dial' = "second"
    /\ UNCHANGED <<boma, assignments, config_init, accepted>>

\* The second reading; a switch that has moved in between starts again.
ReadSecond ==
    /\ dial = "second"
    /\ IF boma = data_a
       THEN /\ assignments' = Decoded(boma)
            /\ accepted' = boma
            /\ dial' = "assign"
       ELSE /\ dial' = "first"
            /\ UNCHANGED <<assignments, accepted>>
    /\ UNCHANGED <<boma, data_a, config_init>>

Assign ==
    /\ dial = "assign"
    /\ LET a == Head(assignments) IN
           config_init' = [config_init EXCEPT ![a[1]] = a[2]]
    /\ assignments' = Tail(assignments)
    /\ dial' = IF Len(assignments) = 1 THEN "done" ELSE "assign"
    /\ UNCHANGED <<boma, data_a, accepted>>

\* The shell command.
Redial ==
    /\ dial = "done"
    /\ dial' = "first"
    /\ UNCHANGED <<boma, data_a, assignments, config_init, accepted>>

\* Somebody turns the switches, at any moment.
Turn ==
    /\ \E t \in Turns : boma = t[1] /\ boma' = t[2]
    /\ UNCHANGED <<data_a, dial, assignments, config_init, accepted>>

\* config_init is in .bss.
DialInit ==
    /\ boma \in Words
    /\ data_a = 0
    /\ dial = "first"
    /\ assignments = <<>>
    /\ config_init =
          [baud_rate |-> 0, countdown_direction |-> 0, singal_direction |-> 0,
           protocol |-> 0, r_led |-> 0, countdown_channel |-> 0,
           motor_or_people |-> 0, study_or_comm |-> 0]
    /\ accepted = 0

DialNext == ReadFirst \/ ReadSecond \/ Assign \/ Redial \/ Turn

-----------------------------------------------------------------------------
(***************************************************************************)
(* What the switches mean, without the bit swaps: a row of switches is a   *)
(* number whose highest digit comes first.                                 *)
(***************************************************************************)
Row3(w)     == 4 * Digit(w, 9) + 2 * Digit(w, 10) + Digit(w, 11)
Row4(w)     == 8 * Digit(w, 12) + 4 * Digit(w, 13) + 2 * Digit(w, 14)
                   + Digit(w, 15)

\* When the dial has been read, every setting the sign goes by is the one of
\* the switches, whatever it was set to before: no field that only the other
\* protocol assigns decides anything (dial_init.c:45-95, print_info).
DialObeyed ==
    dial = "done" =>
        LET c == config_init IN
        /\ c.study_or_comm = 0 <=> On(accepted, 2)
        /\ c.r_led = Digit(accepted, 0)
        /\ c.motor_or_people = Digit(accepted, 3)
        /\ c.study_or_comm = 0 =>
              /\ c.protocol = Digit(accepted, 1)
              /\ c.protocol = 1 =>
                    /\ c.countdown_direction = \hb0 + Row3(accepted)
                    /\ c.singal_direction = \hc0 + Row4(accepted)
              /\ c.protocol = 0 => c.countdown_channel = Row4(accepted)
=============================================================================
