-------------------------- MODULE CommDisplay_proof --------------------------
(***************************************************************************)
(* Theorems about the communication sign, for every number range, width,   *)
(* set of messages and lamp:                                               *)
(*   - types, and the exactness of the count, for all three protocols;     *)
(*   - for GeLinWei and GA/T 508-2004, that the face shows the number      *)
(*     posted for its colour, and that the display implements Sign;        *)
(*   - for all three, when a foreign number can be taken at all.           *)
(***************************************************************************)
EXTENDS CommDisplay, Countdown_proof

\* The parser is at a field its protocol has, and at a field of a colour only
\* if the message has one.
ParseInv ==
    /\ at # "idle" => at \in DOMAIN Order(msg)
    /\ at \in {"flag", "mode", "num", "curMode"} => msg.colour \in Colour

TypeInv == CommTypeOK /\ ParseInv

\* A parser that sets the flag first is just about to set the mode of a number
\* already taken over: then the display thread is on its way to a sleep it
\* does not leave before the parser is done.
HalfPosted ==
    at = "mode" /\ msg.protocol # "GAT2014" /\ ~flag[msg.colour] =>
        owner = msg.colour /\ (pc = "Show" \/ (Asleep /\ owed))

\* Two protocols keep the handshake of the display thread.
Handshake == msg.protocol # "GAT2014" /\ HalfPosted /\ TakeOver

-----------------------------------------------------------------------------
(***************************************************************************)
(* Types.                                                                  *)
(***************************************************************************)

\* A parser never comes back to the branch of a dark lamp.
LEMMA NextField ==
    ASSUME TypeInv, at # "idle", at # "type"
    PROVE  /\ Order(msg)[at] \in {"idle", "flag", "mode", "num", "curMode",
                                  "cmd", "blind", "type"}
           /\ Order(msg)[at] \in DOMAIN Order(msg)
           /\ at \in {"dark", "curMode", "cmd", "blind"} =>
                 Order(msg)[at] \notin {"flag", "mode", "num", "curMode"}
           /\ at \in {"flag", "mode", "num"} => msg.colour \in Colour
           /\ at = "curMode" => msg.colour \in Colour
<1> USE DEF TypeInv, ParseInv, CommTypeOK, Message
<1>1. CASE msg.protocol = "GAT2004"
  <2>1. Order(msg) = gat_2004_parse
    BY <1>1 DEF Order
  <2> QED
    BY <2>1 DEF gat_2004_parse
<1>2. CASE msg.protocol = "GAT2014"
  <2>1. Order(msg) = gat_2014_parse
    BY <1>2 DEF Order
  <2> QED
    BY <2>1 DEF gat_2014_parse
<1>3. CASE msg.protocol = "GeLinWei"
  <2>1. Order(msg) = ge_lin_wei_parse
    BY <1>3 DEF Order
  <2> QED
    BY <2>1 DEF ge_lin_wei_parse
<1> QED
  BY <1>1, <1>2, <1>3

\* The first field a parser writes.
LEMMA FirstField ==
    ASSUME NEW m \in Message
    PROVE  /\ First(m) \in {"flag", "num", "dark"}
           /\ First(m) \in DOMAIN Order(m)
           /\ First(m) # "dark" => m.colour \in Colour
<1> USE DEF Message, First
<1>1. CASE m.protocol = "GAT2004"
  <2>1. Order(m) = gat_2004_parse
    BY <1>1 DEF Order
  <2> QED
    BY <2>1 DEF gat_2004_parse
<1>2. CASE m.protocol = "GAT2014"
  <2>1. Order(m) = gat_2014_parse
    BY <1>2 DEF Order
  <2> QED
    BY <2>1 DEF gat_2014_parse
<1>3. CASE m.protocol = "GeLinWei"
  <2>1. Order(m) = ge_lin_wei_parse
    BY <1>3 DEF Order
  <2> QED
    BY <2>1 DEF ge_lin_wei_parse
<1> QED
  BY <1>1, <1>2, <1>3

\* The display thread and the timer leave the parser alone, and the parser
\* and the lamp leave alone what the two own.
LEMMA DisplayTypeInv == TypeInv /\ Display => TypeInv'
<1> SUFFICES ASSUME TypeInv, Display PROVE TypeInv'
  OBVIOUS
<1>1. CountdownTypeOK'
  BY DisplayType DEF Display, TypeInv, CommTypeOK
<1>2. owed' \in BOOLEAN /\ UNCHANGED <<msg, at, tmp>>
  BY DEF Display
<1> QED
  BY <1>1, <1>2 DEF TypeInv, CommTypeOK, ParseInv

\* The interrupt.
LEMMA TimerTypeInv == TypeInv /\ Timer => TypeInv'
<1> SUFFICES ASSUME TypeInv, Timer PROVE TypeInv'
  OBVIOUS
<1>1. CountdownTypeOK'
  BY TimeoutType DEF Timer, TypeInv, CommTypeOK
<1>2. UNCHANGED <<msg, at, tmp, owed>>
  BY DEF Timer, parser
<1> QED
  BY <1>1, <1>2 DEF TypeInv, CommTypeOK, ParseInv

\* The lamps and the controller.
LEMMA EnvironmentTypeInv == TypeInv /\ Environment => TypeInv'
<1> SUFFICES ASSUME TypeInv, Environment PROVE TypeInv'
  OBVIOUS
<1>1. CASE LampChange
  <2>1. lamp' \in SUBSET Colour
    BY <1>1, CommAssumption DEF LampChange
  <2> QED
    BY <1>1, <2>1 DEF LampChange, TypeInv, CommTypeOK, ParseInv,
       CountdownTypeOK, shared, counter, thread, history, parser
<1>2. ASSUME NEW m \in Messages, Receive(m) PROVE TypeInv'
  <2>1. m \in Message
    BY CommAssumption
  <2>2. CountdownTypeOK'
    BY <1>2 DEF Receive, TypeInv, CommTypeOK, CountdownTypeOK, vars, shared,
       counter, thread, history
  <2>3. msg' = m /\ at' = First(m) /\ tmp' \in 0 .. MaxNum /\ owed' \in BOOLEAN
    BY <1>2, <2>1 DEF Receive, TypeInv, CommTypeOK, Message
  <2> QED
    BY <2>1, <2>2, <2>3, FirstField DEF TypeInv, CommTypeOK, ParseInv
<1> QED
  BY <1>1, <1>2 DEF Environment

\* The parser, field by field.
LEMMA ParseTypeInv == TypeInv /\ Parse => TypeInv'
<1> SUFFICES ASSUME TypeInv, Parse PROVE TypeInv'
  OBVIOUS
<1> USE DEF shared, counter, thread, history
<1>1. ASSUME NEW f \in {"flag", "mode", "num", "curMode", "dark", "cmd",
                        "blind"}, Writes(f)
      PROVE  /\ at' \in {"idle", "flag", "mode", "num", "curMode", "cmd",
                         "blind", "type"}
             /\ ParseInv'
             /\ f \in {"flag", "mode", "num", "curMode"} => msg.colour \in Colour
             /\ msg' \in Message /\ tmp' \in 0 .. MaxNum /\ owed' \in BOOLEAN
  <2>1. at = f /\ at' = Order(msg)[at] /\ UNCHANGED <<msg, tmp, owed>>
    BY <1>1 DEF Writes
  <2> QED
    BY <2>1, NextField DEF TypeInv, CommTypeOK, ParseInv
<1>2. CASE WriteFlag
  BY <1>1, <1>2 DEF WriteFlag, Writes, TypeInv, CommTypeOK, CountdownTypeOK
<1>3. CASE WriteMode
  BY <1>1, <1>3 DEF WriteMode, Writes, TypeInv, CommTypeOK, CountdownTypeOK
<1>4. CASE WriteNum
  BY <1>1, <1>4 DEF WriteNum, Writes, TypeInv, CommTypeOK, CountdownTypeOK
<1>5. CASE WriteCurMode
  BY <1>1, <1>5 DEF WriteCurMode, Writes, TypeInv, CommTypeOK, CountdownTypeOK
<1>6. CASE WriteBlind
  BY <1>1, <1>6 DEF WriteBlind, Writes, TypeInv, CommTypeOK, CountdownTypeOK,
     Message
<1>7. CASE WriteType
  <2>1. msg' \in Message
    BY <1>7, CountdownAssumption
       DEF WriteType, Silent, Message, TypeInv, CommTypeOK
  <2> QED
    BY <1>7, <2>1 DEF WriteType, TypeInv, CommTypeOK, CountdownTypeOK, ParseInv,
       Message
<1> QED
  BY <1>2, <1>3, <1>4, <1>5, <1>6, <1>7 DEF Parse

\* Power-up.
LEMMA InitTypeInv == CommInit => TypeInv
<1> SUFFICES ASSUME CommInit PROVE TypeInv
  OBVIOUS
<1>1. CountdownTypeOK
  BY InitType, CommAssumption DEF CommInit
<1>2. Silent("none") \in Message
  BY CountdownAssumption DEF Silent, Message, Command
<1>3. tmp \in 0 .. MaxNum
  BY CountdownAssumption DEF CommInit
<1> QED
  BY <1>1, <1>2, <1>3 DEF CommInit, TypeInv, CommTypeOK, ParseInv

\* A state that changes nothing keeps the types.
LEMMA StutterTypeInv == TypeInv /\ UNCHANGED commVars => TypeInv'
BY DEF TypeInv, CommTypeOK, CountdownTypeOK, ParseInv, commVars, vars, shared,
   counter, thread, history, parser

\* Every variable keeps its type, for every protocol and every order in which
\* the parser, the display thread, the interrupt and the lamp take turns.
THEOREM TypeCorrect == CommSpec => []CommTypeOK
<1>1. CommInit => TypeInv
  BY InitTypeInv
<1>2. TypeInv /\ [CommNext]_commVars => TypeInv'
  BY DisplayTypeInv, TimerTypeInv, ParseTypeInv, EnvironmentTypeInv,
     StutterTypeInv DEF CommNext
<1>3. TypeInv => CommTypeOK
  BY DEF TypeInv
<1> QED
  BY <1>1, <1>2, <1>3, PTL DEF CommSpec

-----------------------------------------------------------------------------
(***************************************************************************)
(* The count.                                                              *)
(***************************************************************************)

\* Neither the parser nor the environment writes what the count depends on.
LEMMA OthersLeaveCount ==
    Parse \/ Environment \/ UNCHANGED commVars => UNCHANGED countVars
BY DEF Parse, WriteFlag, WriteMode, WriteNum, WriteCurMode, WriteBlind,
   WriteType, Writes, Environment, LampChange, Receive, commVars, vars, counter,
   thread, history, countVars

\* Both halves of the exact count come from one invariant.
LEMMA CountIsInvariant == CommSpec => [](CountInv /\ TypeInv)
<1>1. CommInit => CountInv /\ TypeInv
  BY InitCount, InitTypeInv DEF CommInit
<1>2. CountInv /\ TypeInv /\ [CommNext]_commVars => CountInv'
  <2> SUFFICES ASSUME CountInv, TypeInv, [CommNext]_commVars PROVE CountInv'
    OBVIOUS
  <2>1. CountdownTypeOK
    BY DEF TypeInv, CommTypeOK
  <2>2. CASE Display
    BY <2>1, <2>2, DisplayCount DEF Display
  <2>3. CASE Timer
    BY <2>1, <2>3, TimeoutCount DEF Timer
  <2>4. CASE Parse \/ Environment \/ UNCHANGED commVars
    BY <2>4, OthersLeaveCount, OthersCount
  <2> QED
    BY <2>2, <2>3, <2>4 DEF CommNext
<1>3. TypeInv /\ [CommNext]_commVars => TypeInv'
  BY DisplayTypeInv, TimerTypeInv, ParseTypeInv, EnvironmentTypeInv,
     StutterTypeInv DEF CommNext
<1> QED
  BY <1>1, <1>2, <1>3, PTL DEF CommSpec

\* sync never gets past the value timeout() tests for while a count is on, so
\* the count can never stop for the rest of the byte.
THEOREM NeverOvershoots == CommSpec => []NoOvershoot
<1>1. CountInv /\ TypeInv => NoOvershoot
  BY CountInvImplies
<1> QED
  BY <1>1, CountIsInvariant, PTL

\* Every second of a loaded number takes PerSecond counted expiries and the
\* last one LastSecond + 1, whatever happens in between.
THEOREM CountsExactly == CommSpec => []CountExact
<1>1. CountInv /\ TypeInv => CountExact
  BY CountInvImplies
<1> QED
  BY <1>1, CountIsInvariant, PTL

\* Whatever is sent, the face is at most one second behind the count when a
\* pass over a lamp with a number is over, as long as a pass is shorter than
\* the last second.
THEOREM FaceStaysFresh ==
    ASSUME Burst < LastSecond
    PROVE  CommSpec => []FaceFresh
<1>1. CommInit => FreshInv
  BY InitFresh DEF CommInit
<1>2. CountInv /\ TypeInv /\ FreshInv /\ [CommNext]_commVars => FreshInv'
  <2> SUFFICES ASSUME CountInv, TypeInv, FreshInv, [CommNext]_commVars
               PROVE  FreshInv'
    OBVIOUS
  <2>1. CountdownTypeOK
    BY DEF TypeInv, CommTypeOK
  <2>2. CASE Display
    BY <2>1, <2>2, DisplayFresh DEF Display
  <2>3. CASE Timer
    BY <2>1, <2>3, TimeoutFresh DEF Timer
  <2>4. CASE Parse \/ Environment \/ UNCHANGED commVars
    <3>1. UNCHANGED <<config, panel, pc, seen, elapsed, curNum, sync>>
      BY <2>4 DEF Parse, WriteFlag, WriteMode, WriteNum, WriteCurMode,
         WriteBlind, WriteType, Writes, Environment, LampChange, Receive,
         commVars, vars, counter, thread, history
    <3> QED
      BY <3>1, OthersFresh
  <2> QED
    BY <2>2, <2>3, <2>4 DEF CommNext
<1>3. TypeInv /\ FreshInv => FaceFresh
  BY FreshInvImplies DEF TypeInv, CommTypeOK
<1> QED
  BY <1>1, <1>2, <1>3, CountIsInvariant, PTL DEF CommSpec

-----------------------------------------------------------------------------
(***************************************************************************)
(* The handshake of GeLinWei and GA/T 508-2004.                            *)
(***************************************************************************)

\* Neither protocol sets a mode without having set its flag just before.
LEMMA ModeAfterFlag ==
    ASSUME TypeInv, msg.protocol # "GAT2014", at # "idle", at # "type",
           Order(msg)[at] = "mode"
    PROVE  at = "flag"
<1> USE DEF TypeInv, ParseInv, CommTypeOK, Message
<1>1. CASE msg.protocol = "GAT2004"
  <2>1. Order(msg) = gat_2004_parse
    BY <1>1 DEF Order
  <2> QED
    BY <2>1 DEF gat_2004_parse
<1>2. CASE msg.protocol = "GeLinWei"
  <2>1. Order(msg) = ge_lin_wei_parse
    BY <1>2 DEF Order
  <2> QED
    BY <2>1 DEF ge_lin_wei_parse
<1> QED
  BY <1>1, <1>2

\* The display thread's side of the handshake: it only drops the flag of a
\* number it has taken over, and shows that number next.
LEMMA DisplayHalfPosted ==
    ASSUME TypeInv, HalfPosted, pc = "Drop" => owner = seen, Display
    PROVE  HalfPosted'
<1>1. /\ Asleep => ~owed
      /\ owed' = (at # "idle" /\ Asleep') /\ UNCHANGED <<msg, at>>
      /\ DisplayStep
  BY DEF Display
<1>2. seen \in Colour /\ flag \in [Colour -> BOOLEAN] /\ CountdownTypeOK
  BY DEF TypeInv, CommTypeOK, CountdownTypeOK
<1>3. ASSUME at = "mode", msg.protocol # "GAT2014", ~flag'[msg.colour]
      PROVE  owner' = msg.colour /\ (pc' = "Show" \/ (Asleep' /\ owed'))
  <2>1. CASE DropFlag
    <3>1. /\ pc = "Drop" /\ pc' = "Show" /\ UNCHANGED owner
          /\ flag' = [flag EXCEPT ![seen] = FALSE]
      BY <2>1 DEF DropFlag, Continue, history
    <3>2. owner = seen /\ ~Asleep
      BY <3>1 DEF Asleep, Sleep
    <3>3. flag[msg.colour]
      BY <1>3, <3>1, <3>2 DEF HalfPosted
    <3> QED
      BY <1>2, <1>3, <3>1, <3>2, <3>3
  <2>2. CASE ~DropFlag
    <3>1. UNCHANGED flag
      BY <1>1, <2>2 DEF DisplayStep, Pass, BranchNoPost, BranchPost, SetType,
         YellowNoPost, YellowPost, TestFlag, ZeroFirst, ZeroSecond, ClearSync,
         Load, Show, OnlyRed, Wake, shared
    <3>2. owner = msg.colour /\ pc = "Show"
      BY <1>1, <1>3, <3>1 DEF HalfPosted
    <3>3. Show
      BY <1>1, <3>2 DEF DisplayStep, Pass, BranchNoPost, BranchPost, SetType,
         YellowNoPost, YellowPost, TestFlag, ZeroFirst, ZeroSecond, ClearSync,
         Load, DropFlag, OnlyRed, Wake, Asleep, Sleep
    <3>4. Asleep' /\ UNCHANGED owner
      BY <3>3 DEF Show, FallAsleep, Clear_Display, Asleep, Sleep, history
    <3> QED
      BY <1>1, <1>3, <3>2, <3>4
  <2> QED
    BY <2>1, <2>2
<1> QED
  BY <1>1, <1>3 DEF HalfPosted

\* Both halves of it.
LEMMA DisplayHandshake == TypeInv /\ Handshake /\ Display => Handshake'
<1> SUFFICES ASSUME TypeInv, Handshake, Display PROVE Handshake'
  OBVIOUS
<1>1. DisplayStep /\ UNCHANGED msg
  BY DEF Display
<1>2. TakeOver'
  BY <1>1, DisplayTakeOver DEF Handshake, TypeInv, CommTypeOK
<1>3. HalfPosted'
  BY DisplayHalfPosted DEF Handshake, TakeOver
<1> QED
  BY <1>1, <1>2, <1>3 DEF Handshake

\* The parser's side of it: the mode comes right behind the flag, and the
\* field written is the one of the message.
LEMMA ParseHalfPosted == TypeInv /\ HalfPosted /\ Parse => HalfPosted'
<1> SUFFICES ASSUME TypeInv, HalfPosted, Parse PROVE HalfPosted'
  OBVIOUS
<1>1. /\ flag \in [Colour -> BOOLEAN]
      /\ at = "flag" => msg.colour \in Colour
  BY DEF TypeInv, CommTypeOK, CountdownTypeOK, ParseInv
<1>2. ASSUME NEW f \in {"flag", "mode", "num", "curMode", "dark", "cmd",
                        "blind"}, Writes(f)
      PROVE  /\ at = f /\ UNCHANGED msg
             /\ at' = "mode" /\ msg.protocol # "GAT2014" => f = "flag"
  BY <1>2, ModeAfterFlag DEF Writes
<1>3. CASE WriteFlag
  <2>1. at = "flag" /\ UNCHANGED msg
        /\ flag' = [flag EXCEPT ![msg.colour] = TRUE]
    BY <1>2, <1>3 DEF WriteFlag
  <2> QED
    BY <1>1, <2>1 DEF HalfPosted
<1>4. CASE WriteMode \/ WriteNum \/ WriteCurMode \/ WriteBlind
  <2>1. UNCHANGED msg /\ (at' = "mode" => msg.protocol = "GAT2014")
    BY <1>2, <1>4 DEF WriteMode, WriteNum, WriteCurMode, WriteBlind
  <2> QED
    BY <2>1 DEF HalfPosted
<1>5. CASE WriteType
  BY <1>5 DEF WriteType, HalfPosted
<1> QED
  BY <1>3, <1>4, <1>5 DEF Parse

\* What a parser changes of the handshake, field by field.
LEMMA ParseWrites ==
    ASSUME TypeInv, Parse
    PROVE  /\ UNCHANGED <<pc, seen, owner>>
           /\ \/ /\ at = "flag" /\ at' # "flag" /\ UNCHANGED <<msg, mode>>
                 /\ flag' = [flag EXCEPT ![msg.colour] = TRUE]
              \/ /\ at = "mode" /\ UNCHANGED <<msg, flag>>
                 /\ mode' = [mode EXCEPT ![msg.colour] = TRUE]
                 /\ at' = Order(msg)["mode"]
              \/ /\ at \notin {"flag", "mode", "type"}
                 /\ UNCHANGED <<msg, mode, flag>>
              \/ /\ at = "type" /\ at' = "idle" /\ msg' = Silent(msg.cmd)
                 /\ UNCHANGED <<mode, flag>>
<1> USE DEF thread, history
<1>1. UNCHANGED <<pc, seen, owner>>
  BY DEF Parse, WriteFlag, WriteMode, WriteNum, WriteCurMode, WriteBlind,
     WriteType, Writes
<1>2. CASE WriteFlag
  <2>1. Order(msg)["flag"] # "flag"
    BY DEF Order, gat_2004_parse, gat_2014_parse, ge_lin_wei_parse
  <2> QED
    BY <1>1, <1>2, <2>1 DEF WriteFlag, Writes
<1>3. CASE WriteMode
  BY <1>1, <1>3 DEF WriteMode, Writes
<1>4. CASE WriteNum \/ WriteCurMode \/ WriteBlind
  BY <1>1, <1>4 DEF WriteNum, WriteCurMode, WriteBlind, Writes, shared
<1>5. CASE WriteType
  BY <1>1, <1>5 DEF WriteType
<1> QED
  BY <1>2, <1>3, <1>4, <1>5 DEF Parse

\* Both halves of it.
LEMMA ParseHandshake == TypeInv /\ Handshake /\ Parse => Handshake'
<1> SUFFICES ASSUME TypeInv, Handshake, Parse PROVE Handshake'
  OBVIOUS
<1>1. /\ seen \in Colour /\ mode \in [Colour -> BOOLEAN]
      /\ flag \in [Colour -> BOOLEAN]
      /\ at \in {"flag", "mode"} => msg.colour \in Colour
      /\ FirstOther(seen) \in Colour /\ SecondOther(seen) \in Colour
  BY TheOthers DEF TypeInv, CommTypeOK, CountdownTypeOK, ParseInv
<1>2. HalfPosted' /\ UNCHANGED <<pc, seen, owner>>
  BY ParseHalfPosted, ParseWrites DEF Handshake
<1>3. CASE /\ at = "flag" /\ UNCHANGED <<msg, mode>>
           /\ flag' = [flag EXCEPT ![msg.colour] = TRUE]
  BY <1>1, <1>2, <1>3 DEF Handshake, TakeOver
<1>4. CASE /\ at = "mode" /\ UNCHANGED <<msg, flag>>
           /\ mode' = [mode EXCEPT ![msg.colour] = TRUE]
  <2>1. ~flag[msg.colour] => pc \notin {"ZeroSecond", "Sync", "Load"}
                                /\ owner = msg.colour
    BY <1>4 DEF Handshake, HalfPosted, Asleep, Sleep
  <2> QED
    BY <1>1, <1>2, <1>4, <2>1 DEF Handshake, TakeOver
<1>5. CASE UNCHANGED <<mode, flag>> /\ msg' \in {msg, Silent(msg.cmd)}
  BY <1>2, <1>5 DEF Handshake, TakeOver, Silent
<1> QED
  BY <1>3, <1>4, <1>5, ParseWrites

\* The interrupt, the lamp and a new message take no part in it.
LEMMA OthersHalfPosted ==
    ASSUME TypeInv, HalfPosted, Timer \/ Environment \/ UNCHANGED commVars
    PROVE  /\ HalfPosted' /\ UNCHANGED <<flag, mode, pc, seen, owner>>
           /\ \/ UNCHANGED <<msg, at>>
              \/ msg' \in Messages /\ at = "idle" /\ at' # "mode"
<1>1. CASE Timer \/ LampChange \/ UNCHANGED commVars
  <2>1. UNCHANGED <<msg, at, owed, flag, mode, pc, seen, owner>>
    BY <1>1 DEF Timer, timeout, LampChange, commVars, vars, shared, counter,
       thread, history, parser
  <2> QED
    BY <2>1 DEF HalfPosted, Asleep
<1>2. ASSUME NEW m \in Messages, Receive(m)
      PROVE  /\ HalfPosted' /\ UNCHANGED <<flag, mode, pc, seen, owner>>
             /\ msg' \in Messages /\ at = "idle" /\ at' # "mode"
  <2>1. /\ msg' = m /\ at = "idle" /\ at' = First(m)
        /\ UNCHANGED <<flag, mode, pc, seen, owner, owed>>
    BY <1>2 DEF Receive, vars, shared, thread, history
  <2>2. First(m) # "mode"
    BY FirstField, CommAssumption
  <2> QED
    BY <2>1, <2>2 DEF HalfPosted
<1> QED
  BY <1>1, <1>2 DEF Environment

\* If the messages are of the two protocols, neither does the other half.
LEMMA OthersHandshake ==
    ASSUME \A m \in Messages : m.protocol # "GAT2014", TypeInv, Handshake,
           Timer \/ Environment \/ UNCHANGED commVars
    PROVE  Handshake'
BY OthersHalfPosted DEF Handshake, TakeOver

-----------------------------------------------------------------------------
(***************************************************************************)
(* The face.                                                               *)
(***************************************************************************)

\* Only the interrupt and the display thread touch what the face depends on.
LEMMA OthersFace ==
    ASSUME TypeInv, FaceInv,
           Timer \/ Parse \/ Environment \/ UNCHANGED commVars
    PROVE  FaceInv' /\ UNCHANGED panel
<1>1. CASE Timer
  BY <1>1, TimeoutFace DEF Timer, TypeInv, CommTypeOK
<1>2. CASE Parse \/ Environment \/ UNCHANGED commVars
  <2>1. UNCHANGED <<panel, pc, owner, loaded, curNum>>
    BY <1>2 DEF Parse, WriteFlag, WriteMode, WriteNum, WriteCurMode, WriteBlind,
       WriteType, Writes, Environment, LampChange, Receive, commVars, vars,
       counter, thread, history
  <2> QED
    BY <2>1 DEF FaceInv, S!Lit
<1> QED
  BY <1>1, <1>2

\* Before the first post the face is dark and nothing is posted.
LEMMA InitFace == CommInit => Handshake /\ FaceInv
BY InitTakeOver DEF CommInit, Silent, Handshake, HalfPosted

\* The inductive invariant of the two protocols.
CommInv == TypeInv /\ CountInv /\ Handshake /\ FaceInv

\* Every step keeps the handshake and the face, and is a step of the sign.
LEMMA CommStep ==
    ASSUME \A m \in Messages : m.protocol # "GAT2014"
    PROVE  CommInv /\ [CommNext]_commVars =>
              Handshake' /\ FaceInv' /\ [S!SignNext]_panel
<1> SUFFICES ASSUME CommInv, [CommNext]_commVars
             PROVE  Handshake' /\ FaceInv' /\ [S!SignNext]_panel
  OBVIOUS
<1> USE DEF CommInv
<1>1. CASE Display
  <2>1. DisplayStep
    BY <1>1 DEF Display
  <2> QED
    BY <1>1, <2>1, DisplayHandshake, DisplayFace
       DEF TypeInv, CommTypeOK, Handshake
<1>2. CASE Parse
  BY <1>2, ParseHandshake, OthersFace
<1>3. CASE Timer \/ Environment \/ UNCHANGED commVars
  BY <1>3, OthersHandshake, OthersFace
<1> QED
  BY <1>1, <1>2, <1>3 DEF CommNext

\* Hence the invariant holds.
LEMMA CommInvariant ==
    ASSUME \A m \in Messages : m.protocol # "GAT2014"
    PROVE  CommSpec => []CommInv
<1>1. CommInit => Handshake /\ FaceInv
  BY InitFace
<1>2. CommInv /\ [CommNext]_commVars => Handshake' /\ FaceInv'
  BY CommStep
<1>3. CommInv <=> (CountInv /\ TypeInv) /\ Handshake /\ FaceInv
  BY DEF CommInv
<1> QED
  BY <1>1, <1>2, <1>3, CountIsInvariant, PTL DEF CommSpec

\* GeLinWei and GA/T 508-2004 set a flag before its mode, and so the number on
\* the face is always one that was posted for the colour it is drawn in,
\* although nothing locks the structure.
THEOREM ShowsOwnNumber ==
    ASSUME \A m \in Messages : m.protocol # "GAT2014"
    PROVE  CommSpec => []OwnNumber
<1>1. CommInv => OwnNumber
  BY DEF CommInv, FaceInv, OwnNumber
<1> QED
  BY <1>1, CommInvariant, PTL

\* With the same two protocols, the sign implements the abstract one: from a
\* colour to another, and from a number to a larger one, through the dark.
THEOREM ImplementsSign ==
    ASSUME \A m \in Messages : m.protocol # "GAT2014"
    PROVE  CommSpec => ShowsAsSign
<1>1. CommInit => S!SignInit
  BY DEF CommInit, CountdownInit, S!SignInit
<1>2. CommInv /\ [CommNext]_commVars => [S!SignNext]_panel
  BY CommStep
<1> QED
  BY <1>1, <1>2, CommInvariant, PTL DEF CommSpec, ShowsAsSign, S!SignSpec

-----------------------------------------------------------------------------
(***************************************************************************)
(* All three protocols together.  GA/T 508-2014 writes the mode of a       *)
(* colour before its flag; what the handshake promises holds for every     *)
(* colour but the one that stands between those two writes.                *)
(***************************************************************************)
InWindow(c) == at = "flag" /\ msg.protocol = "GAT2014" /\ msg.colour = c

\* A mode has a flag, or its number has been taken over, or the window is
\* open for it.
Accounted(c) == mode[c] => flag[c] \/ InWindow(c)

WindowInv ==
    /\ \A c \in Colour : owner = c \/ Accounted(c)
    /\ pc \in {"ZeroSecond", "Sync", "Load"} => Accounted(FirstOther(seen))
    /\ pc \in {"Sync", "Load"} => Accounted(SecondOther(seen))
    /\ pc = "Mode" /\ seen # "Y" => mode[seen]
    /\ pc = "Flag" => mode[seen]
    /\ pc = "Drop" => owner = seen

LEMMA InitWindow == CommInit => HalfPosted /\ WindowInv
BY DEF CommInit, CountdownInit, HalfPosted, WindowInv, Accounted, Colour

\* The display thread keeps it: it erases the modes of the two others before
\* it owns a colour, and drops no flag but that of its own.
LEMMA DisplayWindow == TypeInv /\ WindowInv /\ Display => WindowInv'
<1> SUFFICES ASSUME TypeInv, WindowInv, Display PROVE WindowInv'
  OBVIOUS
<1> USE DEF WindowInv, Accounted, InWindow
<1>1. DisplayStep /\ UNCHANGED <<msg, at>>
  BY DEF Display
<1>2. /\ seen \in Colour /\ mode \in [Colour -> BOOLEAN]
      /\ flag \in [Colour -> BOOLEAN]
      /\ FirstOther(seen) \in Colour /\ SecondOther(seen) \in Colour
      /\ FirstOther(seen) # SecondOther(seen)
  BY TheOthers DEF TypeInv, CommTypeOK, CountdownTypeOK
<1>3. CASE ZeroFirst
  <2>1. /\ pc' = "ZeroSecond" /\ UNCHANGED <<flag, seen, owner>>
        /\ mode' = [mode EXCEPT ![FirstOther(seen)] = FALSE]
    BY <1>3 DEF ZeroFirst, Continue, history
  <2> QED
    BY <1>1, <1>2, <2>1
<1>4. CASE ZeroSecond
  <2>1. /\ pc = "ZeroSecond" /\ pc' = "Sync" /\ UNCHANGED <<flag, seen, owner>>
        /\ mode' = [mode EXCEPT ![SecondOther(seen)] = FALSE]
    BY <1>4 DEF ZeroSecond, Continue, history
  <2> QED
    BY <1>1, <1>2, <2>1
<1>5. CASE ClearSync
  <2>1. pc = "Sync" /\ pc' = "Load" /\ UNCHANGED <<mode, flag, seen, owner>>
    BY <1>5 DEF ClearSync, Continue, shared, history
  <2> QED
    BY <1>1, <2>1
<1>6. CASE Load
  <2>1. /\ pc = "Load" /\ pc' = "Drop" /\ owner' = seen
        /\ UNCHANGED <<mode, flag, seen>>
    BY <1>6 DEF Load, Continue, shared
  <2>2. \A c \in Colour : c = seen \/ Accounted(c)
    BY <1>2, <2>1, TheOthers
  <2> QED
    BY <1>1, <2>1, <2>2
<1>7. CASE DropFlag
  <2>1. /\ pc = "Drop" /\ pc' = "Show" /\ UNCHANGED <<mode, seen, owner>>
        /\ flag' = [flag EXCEPT ![seen] = FALSE]
    BY <1>7 DEF DropFlag, Continue, history
  <2> QED
    BY <1>1, <1>2, <2>1
<1>8. CASE Pass
  <2>1. pc' \in {"Branch", "Black", "H", "Rest"} /\ UNCHANGED <<mode, flag, owner>>
    BY <1>8 DEF Pass, Continue, shared, history
  <2> QED
    BY <1>1, <2>1
<1>9. CASE \/ BranchNoPost \/ BranchPost \/ SetType \/ YellowNoPost
           \/ YellowPost \/ TestFlag \/ Show \/ OnlyRed \/ Wake
  <2>1. /\ UNCHANGED <<mode, flag, seen, owner>>
        /\ pc' \in Sleep \cup {"Mode", "Flag", "Pass", "Show", "ZeroFirst"}
        /\ pc' = "Mode" /\ seen # "Y" => mode[seen]
        /\ pc' = "Flag" => mode[seen]
    BY <1>9 DEF BranchNoPost, BranchPost, SetType, YellowNoPost, YellowPost,
       TestFlag, Show, OnlyRed, Wake, FallAsleep, Continue, Clear_Display,
       Sleep, shared, history
  <2> QED
    BY <1>1, <2>1 DEF Sleep
<1> QED
  BY <1>1, <1>3, <1>4, <1>5, <1>6, <1>7, <1>8, <1>9 DEF DisplayStep

\* So does a parser: GA/T 508-2014 opens the window with the mode and closes it
\* with the flag, the others set a mode whose flag or number is there.
LEMMA ParseWindow ==
    TypeInv /\ HalfPosted /\ WindowInv /\ Parse => WindowInv'
<1> SUFFICES ASSUME TypeInv, HalfPosted, WindowInv, Parse PROVE WindowInv'
  OBVIOUS
<1> USE DEF WindowInv, Accounted, InWindow
<1>1. /\ seen \in Colour /\ mode \in [Colour -> BOOLEAN]
      /\ flag \in [Colour -> BOOLEAN]
      /\ at \in {"flag", "mode"} => msg.colour \in Colour
      /\ FirstOther(seen) \in Colour /\ SecondOther(seen) \in Colour
  BY TheOthers DEF TypeInv, CommTypeOK, CountdownTypeOK, ParseInv
<1>2. UNCHANGED <<pc, seen, owner>>
  BY ParseWrites
<1>3. CASE /\ at = "flag" /\ at' # "flag" /\ UNCHANGED <<msg, mode>>
           /\ flag' = [flag EXCEPT ![msg.colour] = TRUE]
  BY <1>1, <1>2, <1>3
<1>4. CASE /\ at = "mode" /\ UNCHANGED <<msg, flag>>
           /\ mode' = [mode EXCEPT ![msg.colour] = TRUE]
           /\ at' = Order(msg)["mode"]
  <2>1. CASE msg.protocol = "GAT2014"
    <3>1. at' = "flag"
      BY <1>4, <2>1 DEF Order, gat_2014_parse
    <3> QED
      BY <1>1, <1>2, <1>4, <2>1, <3>1
  <2>2. CASE msg.protocol # "GAT2014"
    <3>1. ~flag[msg.colour] => pc \notin {"ZeroSecond", "Sync", "Load"}
                                  /\ owner = msg.colour
      BY <1>4, <2>2 DEF HalfPosted, Asleep, Sleep
    <3> QED
      BY <1>1, <1>2, <1>4, <2>2, <3>1
  <2> QED
    BY <2>1, <2>2
<1>5. CASE at # "flag" /\ UNCHANGED <<mode, flag>>
  BY <1>2, <1>5
<1> QED
  BY <1>3, <1>4, <1>5, ParseWrites

\* Whatever the messages are, the sign takes a number that was not posted for
\* the colour of its lamp only between the two writes that GA/T 508-2014 has
\* the other way round (GAT_508_2014.c:30).
THEOREM ForeignNeedsWindow == CommSpec => ForeignOnlyInWindow
<1> DEFINE Inv == HalfPosted /\ WindowInv
<1>1. CommInit => Inv
  BY InitWindow
<1>2. TypeInv /\ Inv /\ [CommNext]_commVars => Inv'
  <2> SUFFICES ASSUME TypeInv, Inv, [CommNext]_commVars PROVE Inv'
    OBVIOUS
  <2>1. CASE Display
    BY <2>1, DisplayHalfPosted, DisplayWindow DEF WindowInv
  <2>2. CASE Parse
    BY <2>2, ParseHalfPosted, ParseWindow
  <2>3. CASE Timer \/ Environment \/ UNCHANGED commVars
    BY <2>3, OthersHalfPosted DEF WindowInv, Accounted, InWindow
  <2> QED
    BY <2>1, <2>2, <2>3 DEF CommNext
<1>3. TypeInv /\ Inv /\ [CommNext]_commVars =>
          [TestFlag /\ ~flag[seen] /\ owner # seen =>
              at = "flag" /\ msg.protocol = "GAT2014"
                  /\ msg.colour = seen]_commVars
  <2> SUFFICES ASSUME TypeInv, Inv, TestFlag, ~flag[seen], owner # seen
               PROVE  InWindow(seen)
    BY DEF InWindow
  <2>1. seen \in Colour /\ pc = "Flag"
    BY DEF TestFlag, TypeInv, CommTypeOK, CountdownTypeOK
  <2> QED
    BY <2>1 DEF WindowInv, Accounted
<1> QED
  BY <1>1, <1>2, <1>3, CountIsInvariant, PTL DEF CommSpec, ForeignOnlyInWindow
=============================================================================
