----------------------------- MODULE CommDisplay -----------------------------
(***************************************************************************)
(* The communication sign: the thread "rcv_process" parses a frame from    *)
(* the traffic controller and writes the result into the structure that    *)
(* the display thread and the timer of Countdown work on.                  *)
(*                                                                         *)
(* The three parsers write the same fields in three different orders, and  *)
(* both threads have priority 20 with a time slice of 5 ticks, so the      *)
(* display thread may run between any two of the writes.  A frame is a     *)
(* decoded message here; how it is cut out of the byte stream, decrypted   *)
(* and checked is not this module's business.                              *)
(***************************************************************************)
EXTENDS Countdown

CONSTANTS
    Messages,    \* the messages the controller may send
    Lamps        \* the sets of colours the lamp terminals may show

Command == {"none", "off", "H"}

\* auto: the sign is to count by itself; cmd and refresh exist in the
\* GeLinWei protocol only, blink in GA/T 508-2014 only.
Message ==
    [protocol : {"GAT2004", "GAT2014", "GeLinWei"},
     colour : Colour \cup {"dark"}, total : 0 .. MaxNum, auto : BOOLEAN,
     blink : BOOLEAN, cmd : Command, refresh : BOOLEAN]

ASSUME CommAssumption ==
    /\ Messages \subseteq Message
    /\ \A m \in Messages :
          /\ m.protocol # "GeLinWei" => m.cmd = "none" /\ m.refresh
          /\ m.protocol = "GAT2014" => ~m.auto
    /\ Lamps \subseteq SUBSET Colour

VARIABLES
    msg,    \* the message being parsed; of the last one, its command
    at,     \* the field the parser writes next, "idle" between messages
    tmp,    \* countdown.cur_tmp
    owed    \* the display thread fell asleep in the middle of this message

parser == <<msg, at, tmp, owed>>

commVars == <<vars, parser>>

-----------------------------------------------------------------------------
(***************************************************************************)
(* The order in which each parser writes the shared fields.  "dark" is the *)
(* branch of colour 0, "cmd" the command word of GeLinWei.                 *)
(***************************************************************************)
gat_2004_parse ==
    [start |-> "flag", flag |-> "mode", mode |-> "num", num |-> "curMode",
     curMode |-> "type", dark |-> "type", type |-> "idle"]

gat_2014_parse ==
    [start |-> "num", num |-> "mode", mode |-> "flag", flag |-> "blind",
     dark |-> "blind", blind |-> "type", type |-> "idle"]

\* Mutant: the mode before the flag, as in GA/T 508-2014.
ge_lin_wei_parse_ModeFirst ==
    [start |-> "num", num |-> "mode", mode |-> "flag", flag |-> "curMode",
     curMode |-> "cmd", dark |-> "cmd", cmd |-> "type", type |-> "idle"]

ge_lin_wei_parse ==
    [start |-> "num", num |-> "flag", flag |-> "mode", mode |-> "curMode",
     curMode |-> "cmd", dark |-> "cmd", cmd |-> "type", type |-> "idle"]

Order(m) == IF m.protocol = "GAT2004" THEN gat_2004_parse
            ELSE IF m.protocol = "GAT2014" THEN gat_2014_parse
            ELSE ge_lin_wei_parse

First(m) == IF m.colour = "dark" THEN "dark" ELSE Order(m)["start"]

\* Between two messages the parser's locals are gone; the last command is
\* kept for the properties.
Silent(cmd) ==
    [protocol |-> "GeLinWei", colour |-> "dark", total |-> 0, auto |-> FALSE,
     blink |-> FALSE, cmd |-> cmd, refresh |-> TRUE]

-----------------------------------------------------------------------------
\* A complete frame for this sign has been received.  GeLinWei's refresh
\* code 03 keeps the number of the message before, whatever its colour was.
Receive(m) ==
    /\ at = "idle"
    /\ msg' = m
    /\ at' = First(m)
    /\ tmp' = IF m.refresh THEN m.total ELSE tmp
    /\ UNCHANGED <<vars, owed>>

\* The parser executes the assignment to field f and goes on to the next.
Writes(f) ==
    /\ at = f
    /\ at' = Order(msg)[f]
    /\ UNCHANGED <<config, curNum, sync, countdownType, lamp, thread, history,
                   msg, tmp, owed>>

WriteFlag ==
    /\ Writes("flag")
    /\ flag' = [flag EXCEPT ![msg.colour] = TRUE]
    /\ UNCHANGED <<num, mode, type, blind, curMode>>

WriteMode ==
    /\ Writes("mode")
    /\ mode' = [mode EXCEPT ![msg.colour] = TRUE]
    /\ UNCHANGED <<num, flag, type, blind, curMode>>

WriteNum ==
    /\ Writes("num")
    /\ num' = [num EXCEPT ![msg.colour] = tmp]
    /\ UNCHANGED <<mode, flag, type, blind, curMode>>

WriteCurMode ==
    /\ \/ Writes("curMode") /\ curMode' = msg.colour
       \/ Writes("dark") /\ curMode' = "BLACK"
       \/ Writes("cmd") /\ curMode' = IF msg.cmd = "off" THEN "BLACK"
                                      ELSE IF msg.cmd = "H" THEN "H"
                                      ELSE curMode
    /\ UNCHANGED shared

WriteBlind ==
    /\ Writes("blind")
    /\ blind' = msg.blink
    /\ UNCHANGED <<num, mode, flag, type, curMode>>

\* The last assignment of every parser.
WriteType ==
    /\ at = "type"
    /\ type' = msg.auto
    /\ at' = "idle"
    /\ msg' = Silent(msg.cmd)
    /\ owed' = FALSE
    /\ UNCHANGED <<config, num, mode, flag, blind, counter, lamp, thread,
                   history, tmp>>

Parse == WriteFlag \/ WriteMode \/ WriteNum \/ WriteCurMode \/ WriteBlind
            \/ WriteType

-----------------------------------------------------------------------------
(***************************************************************************)
(* The display thread.  The parser never sleeps in the middle of a message *)
(* and every sleep of the display thread lasts a time slice at least, so a *)
(* message that was being parsed when the display thread fell asleep is    *)
(* parsed to its end before the display thread wakes up.                   *)
(***************************************************************************)
Display ==
    /\ DisplayStep
    /\ Asleep => ~owed
    /\ owed' = (at # "idle" /\ Asleep')
    /\ UNCHANGED <<msg, at, tmp>>

Timer == timeout /\ UNCHANGED parser

LampChange ==
    /\ lamp' \in Lamps
    /\ UNCHANGED <<config, shared, counter, thread, history, parser>>

CommInit ==
    /\ CountdownInit
    /\ lamp \in Lamps
    /\ msg = Silent("none") /\ at = "idle" /\ tmp = 0 /\ owed = FALSE

Environment == LampChange \/ \E m \in Messages : Receive(m)

CommNext == Display \/ Timer \/ Parse \/ Environment

CommSpec == CommInit /\ [][CommNext]_commVars

\* The two threads run (round robin at one priority), and the timer fires.
CommFairness ==
    WF_commVars(Display) /\ WF_commVars(Timer) /\ WF_commVars(Parse)

FairCommSpec == CommSpec /\ CommFairness

-----------------------------------------------------------------------------
(***************************************************************************)
(* Properties.                                                             *)
(***************************************************************************)

\* Every variable keeps its type; the byte sync and the 16-bit numbers never
\* leave their range.
CommTypeOK ==
    /\ CountdownTypeOK
    /\ msg \in Message
    /\ at \in {"idle", "flag", "mode", "num", "curMode", "dark", "cmd",
              "blind", "type"}
    /\ tmp \in 0 .. MaxNum
    /\ owed \in BOOLEAN

\* GA/T 508-2014 writes mode_c before flag_c, the other parsers after it.
\* The display thread takes a number that was not posted for the colour it
\* draws only if it runs exactly between those two writes.
ForeignOnlyInWindow ==
    [][TestFlag /\ ~flag[seen] /\ owner # seen =>
          at = "flag" /\ msg.protocol = "GAT2014" /\ msg.colour = seen]_commVars

\* The lamp stays on one colour and the controller stays silent.
Steady(c) == LightChanged = c /\ at = "idle"

\* A total sent once is counted down to the end and the number goes out by
\* itself (ge_lin_wei.c:177).
CountRunsOut ==
    \A c \in {"R", "G"} :
        <>[](Steady(c) /\ type /\ config.rled) => <>[]~S!Lit(panel)

\* The same promise for every lamp and every setting of the dial.
TotalAlwaysEnds ==
    \A c \in Colour : <>[](Steady(c) /\ type) => <>[]~S!Lit(panel)

\* A complete post for the colour of the lamp is taken over, unless the
\* display thread has just erased its mode.
PostTaken ==
    \A c \in Colour :
        <>[]Steady(c) =>
            <>[](config.motor /\ config.rled => ~(flag[c] /\ mode[c]))

\* "A total is sent, and the sign counts it down by itself" (ge_lin_wei.c:177):
\* under a lamp that stays, and with its mode set, the number that is counted
\* is the last one that was sent.
LastTotalCounts ==
    \A c \in {"R", "G"} :
        <>[](Steady(c) /\ mode[c] /\ config.rled) => <>[](loaded = num[c])

\* "If the command word is screen-off, nothing is displayed"
\* (ge_lin_wei.c:143): once such a message is the last one parsed, no pass
\* of the display draws a number.
OffObeyed ==
    [][Show /\ at = "idle" /\ msg.cmd = "off" => ~S!Lit(panel')]_commVars

=============================================================================
