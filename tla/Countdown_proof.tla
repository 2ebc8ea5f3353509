--------------------------- MODULE Countdown_proof ---------------------------
(***************************************************************************)
(* What every step of the display thread and of its timer preserves,       *)
(* whoever posts the numbers: types, the exactness of the count, and, as   *)
(* long as its poster keeps to the handshake of flags and modes, that the  *)
(* face shows the number of its own colour.                                *)
(***************************************************************************)
EXTENDS Countdown, Integers, TLAPS

\* The variables the count depends on; a poster writes none of them.
countVars == <<curNum, sync, loaded, ran, pc, elapsed>>

\* The inductive form of NoOvershoot and CountExact.  It bounds what the
\* interrupt can add to sync between the thread's two writes (sync = 0, then
\* cur_num), which is why the length of an awake stretch is in it.
CountInv ==
    /\ elapsed <= AtMost(pc)
    /\ curNum <= loaded
    /\ pc = "Load" => sync <= elapsed
    /\ curNum >= 2 => sync <= PerSecond
    /\ curNum = 1 => sync <= LastSecond
    /\ CountExact

\* A sleep, or an awake stretch, has a natural number of expiries.
LEMMA AtMostNat == ASSUME NEW p PROVE AtMost(p) \in Nat
BY CountdownAssumption DEF AtMost

\* Arithmetic of the byte sync.
LEMMA ModRange == ASSUME NEW n \in Nat, NEW M \in Nat \ {0}
                  PROVE  n % M \in 0 .. M - 1
OBVIOUS

\* The byte does not wrap below its width.
LEMMA ModSmall == ASSUME NEW n \in Nat, NEW M \in Nat, n < M
                  PROVE  n % M = n
OBVIOUS

\* Ten more expiries for one second less to go.
LEMMA OneSecond == ASSUME NEW P \in Nat, NEW l \in Int, NEW c \in Int
                   PROVE  P * (l - (c - 1)) = P * (l - c) + P
OBVIOUS

-----------------------------------------------------------------------------
\* The structure of a sign that has just been switched on.
LEMMA InitType == CountdownInit /\ lamp \in SUBSET Colour => CountdownTypeOK
<1> SUFFICES ASSUME CountdownInit, lamp \in SUBSET Colour PROVE CountdownTypeOK
  OBVIOUS
<1> USE CountdownAssumption DEF CountdownInit
<1>1. /\ num \in [Colour -> 0 .. MaxNum] /\ mode \in [Colour -> BOOLEAN]
      /\ flag \in [Colour -> BOOLEAN]
  OBVIOUS
<1>2. 0 \in 0 .. MaxNum /\ 0 \in 0 .. SyncMod - 1
  OBVIOUS
<1>3. /\ panel \in S!Face /\ pc \in Sleep \cup Awake /\ seen \in Colour
      /\ owner \in Colour \cup {"none"} /\ curMode \in Colour \cup {"BLACK", "H"}
  BY DEF S!Face, S!Blank, Sleep, Awake, Colour
<1> QED
  BY <1>1, <1>2, <1>3 DEF CountdownTypeOK

\* The display thread keeps the types of the structure.
LEMMA DisplayType == CountdownTypeOK /\ DisplayStep => CountdownTypeOK'
<1> SUFFICES ASSUME CountdownTypeOK, DisplayStep PROVE CountdownTypeOK'
  OBVIOUS
<1> USE CountdownAssumption DEF CountdownTypeOK, shared, counter, thread, history,
        Sleep, Awake, Continue, FallAsleep, Clear_Display, Colour,
        S!Face, S!Blank, S!HFace
<1>1. CASE Pass
  BY <1>1 DEF Pass, LightChanged
<1>2. CASE BranchNoPost
  BY <1>2 DEF BranchNoPost
<1>3. CASE BranchPost
  BY <1>3 DEF BranchPost
<1>4. CASE SetType
  BY <1>4 DEF SetType
<1>5. CASE YellowNoPost
  BY <1>5 DEF YellowNoPost
<1>6. CASE YellowPost
  BY <1>6 DEF YellowPost
<1>7. CASE TestFlag
  BY <1>7 DEF TestFlag
<1>8. CASE ZeroFirst
  <2>1. mode' \in [Colour -> BOOLEAN] /\ pc' \in Sleep \cup Awake
    BY <1>8 DEF ZeroFirst
  <2> QED
    BY <1>8, <2>1 DEF ZeroFirst
<1>9. CASE ZeroSecond
  <2>1. mode' \in [Colour -> BOOLEAN] /\ pc' \in Sleep \cup Awake
    BY <1>9 DEF ZeroSecond
  <2> QED
    BY <1>9, <2>1 DEF ZeroSecond
<1>10. CASE ClearSync
  BY <1>10 DEF ClearSync
<1>11. CASE Load
  BY <1>11 DEF Load
<1>12. CASE DropFlag
  BY <1>12 DEF DropFlag
<1>13. CASE Show
  BY <1>13 DEF Show
<1>14. CASE OnlyRed
  BY <1>14 DEF OnlyRed
<1>15. CASE Wake
  BY <1>15 DEF Wake, Asleep
<1> QED
  BY <1>1, <1>2, <1>3, <1>4, <1>5, <1>6, <1>7, <1>8, <1>9, <1>10, <1>11, <1>12,
     <1>13, <1>14, <1>15
     DEF DisplayStep

\* So does the interrupt; sync wraps at the width of a byte.
LEMMA TimeoutType == CountdownTypeOK /\ timeout => CountdownTypeOK'
<1> SUFFICES ASSUME CountdownTypeOK, timeout PROVE CountdownTypeOK'
  OBVIOUS
<1> USE CountdownAssumption DEF CountdownTypeOK, shared, counter, timeout
<1>1. CASE countdownType
  <2>1. SyncMod \in Nat \ {0} /\ sync + 1 \in Nat
    OBVIOUS
  <2>2. sync' \in 0 .. SyncMod - 1
    BY <1>1, <2>1, ModRange DEF Count
  <2>3. curNum' \in 0 .. MaxNum /\ ran' \in Nat
    BY <1>1 DEF Count, SecondOver, LastOver
  <2>4. curMode' \in Colour \cup {"BLACK", "H"} /\ countdownType' \in BOOLEAN
    BY <1>1 DEF Count
  <2> QED
    BY <2>2, <2>3, <2>4
<1>2. CASE ~countdownType
  BY <1>2
<1> QED
  BY <1>1, <1>2

-----------------------------------------------------------------------------
\* The display thread preserves the exactness of the count.
LEMMA DisplayCount ==
    CountdownTypeOK /\ CountInv /\ DisplayStep => CountInv'
<1> SUFFICES ASSUME CountdownTypeOK, CountInv, DisplayStep PROVE CountInv'
  OBVIOUS
<1> USE CountdownAssumption DEF CountdownTypeOK, CountInv, CountExact
<1>1. CASE ClearSync
  <2>1. /\ pc' = "Load" /\ sync' = 0
        /\ UNCHANGED <<elapsed, curNum, loaded, ran>>
    BY <1>1 DEF ClearSync, Continue, history
  <2>2. AtMost(pc') = AtMost(pc)
    BY <1>1, <2>1 DEF ClearSync, AtMost, Long, Short, Sleep
  <2> QED
    BY <2>1, <2>2
<1>2. CASE Load
  <2>1. /\ pc = "Load" /\ pc' = "Drop" /\ curNum' = num[seen]
        /\ loaded' = num[seen] /\ ran' = sync /\ UNCHANGED <<elapsed, sync>>
    BY <1>2 DEF Load, Continue
  <2>2. num[seen] \in Nat
    OBVIOUS
  <2>3. AtMost(pc') = Burst /\ AtMost(pc) = Burst
    BY <2>1 DEF AtMost, Long, Short, Sleep
  <2>4. sync <= LastSecond
    BY <2>1, <2>3
  <2>5. PerSecond * (loaded' - curNum') = 0
    BY <2>1, <2>2
  <2> QED
    BY <2>1, <2>2, <2>3, <2>4, <2>5
<1>3. CASE ~ClearSync /\ ~Load
  <2>1. UNCHANGED <<curNum, sync, loaded, ran>> /\ pc # "Load" /\ pc' # "Load"
    BY <1>3 DEF DisplayStep, Pass, BranchNoPost, BranchPost, SetType,
       YellowNoPost, YellowPost, TestFlag, ZeroFirst, ZeroSecond, DropFlag,
       Show, OnlyRed, Wake, counter, history, Continue, FallAsleep,
       Clear_Display, Asleep, Sleep
  <2>2. elapsed' = 0 \/ (elapsed' = elapsed /\ AtMost(pc') = AtMost(pc))
    BY <1>3 DEF DisplayStep, Pass, BranchNoPost, BranchPost, SetType,
       YellowNoPost, YellowPost, TestFlag, ZeroFirst, ZeroSecond, DropFlag,
       Show, OnlyRed, Wake, Continue, FallAsleep,
       Clear_Display, AtMost, Long, Short, Sleep
  <2> QED
    BY <2>1, <2>2, AtMostNat
<1> QED
  BY <1>1, <1>2, <1>3

\* So does the interrupt, wherever it falls.
LEMMA TimeoutCount ==
    CountdownTypeOK /\ CountInv /\ timeout => CountInv'
<1> SUFFICES ASSUME CountdownTypeOK, CountInv, timeout PROVE CountInv'
  OBVIOUS
<1> USE CountdownAssumption DEF CountdownTypeOK, CountInv, CountExact
<1>1. /\ elapsed < AtMost(pc) /\ elapsed' = elapsed + 1
      /\ UNCHANGED <<pc, loaded>>
  BY DEF timeout
<1>2. elapsed' <= AtMost(pc')
  BY <1>1, AtMostNat
<1>3. pc = "Load" => elapsed < LastSecond
  BY <1>1 DEF AtMost, Long, Short, Sleep
<1>4. CASE ~countdownType
  BY <1>1, <1>2, <1>4 DEF timeout, counter
<1>5. CASE countdownType
  <2>1. Count
    BY <1>5 DEF timeout
  <2>2. CASE curNum = 0
    <3>1. curNum' = 0 /\ ran' = ran
      BY <2>1, <2>2 DEF Count, SecondOver, LastOver
    <3>2. pc = "Load" => sync' = sync + 1
      BY <2>1, <2>2, <1>3, ModSmall DEF Count, SecondOver
    <3> QED
      BY <1>1, <1>2, <2>2, <3>1, <3>2
  <2>3. CASE curNum = 1
    <3>1. sync' = sync + 1 /\ ran' = ran + 1
      BY <2>1, <2>3, ModSmall DEF Count, SecondOver
    <3>2. CASE sync >= LastSecond
      <4>1. curNum' = 0 /\ pc # "Load" /\ sync = LastSecond
        BY <2>1, <2>3, <3>2, <1>3 DEF Count, SecondOver, LastOver
      <4> QED
        BY <1>1, <1>2, <2>3, <3>1, <4>1
    <3>3. CASE sync < LastSecond
      <4>1. curNum' = 1
        BY <2>1, <2>3, <3>3 DEF Count, SecondOver, LastOver
      <4> QED
        BY <1>1, <1>2, <2>3, <3>1, <3>3, <4>1
    <3> QED
      BY <3>2, <3>3
  <2>4. CASE curNum >= 2 /\ sync = PerSecond
    <3>1. curNum' = curNum - 1 /\ ran' = ran + 1
      BY <2>1, <2>4 DEF Count, SecondOver, LastOver
    <3>2. sync' = 1
      BY <2>1, <2>4, ModSmall DEF Count, SecondOver
    <3>3. pc = "Load" => sync' <= elapsed'
      BY <1>1, <1>3, <2>4, <3>2
    <3>4. PerSecond * (loaded - curNum') = PerSecond * (loaded - curNum) + PerSecond
      BY <3>1, OneSecond
    <3> QED
      BY <1>1, <1>2, <2>4, <3>1, <3>2, <3>3, <3>4
  <2>5. CASE curNum >= 2 /\ sync # PerSecond
    <3>1. curNum' = curNum /\ ran' = ran + 1
      BY <2>1, <2>5 DEF Count, SecondOver, LastOver
    <3>2. sync' = (sync + 1) % SyncMod
      BY <2>1, <2>5 DEF Count, SecondOver
    <3>3. sync + 1 \in Nat /\ SyncMod \in Nat /\ sync + 1 < SyncMod
      BY <2>5
    <3>4. sync' = sync + 1
      BY <3>2, <3>3, ModSmall
    <3>5. sync' <= PerSecond
      BY <2>5, <3>4
    <3>6. pc = "Load" => sync' <= elapsed'
      BY <1>1, <3>4
    <3>7. CountExact'
      <4>1. PerSecond * (loaded' - curNum') = PerSecond * (loaded - curNum)
        BY <1>1, <3>1
      <4>2. PerSecond * (loaded - curNum) \in Int
        OBVIOUS
      <4>3. pc # "Load" => ran' = PerSecond * (loaded - curNum) + sync + 1
        BY <2>5, <3>1, <4>2
      <4> QED
        BY <1>1, <2>5, <3>1, <3>4, <4>1, <4>2, <4>3
    <3> QED
      BY <1>1, <1>2, <2>5, <3>1, <3>5, <3>6, <3>7
  <2> QED
    BY <2>2, <2>3, <2>4, <2>5
<1> QED
  BY <1>4, <1>5

\* Nothing else can disturb it.
LEMMA OthersCount == CountInv /\ UNCHANGED countVars => CountInv'
BY DEF CountInv, countVars, CountExact, AtMost

\* Before the first post nothing is counted.
LEMMA InitCount == CountdownInit => CountInv
BY CountdownAssumption DEF CountdownInit, CountInv, CountExact, AtMost, Long,
   Short, Sleep

\* What the invariant is for.
LEMMA CountInvImplies == CountInv => NoOvershoot /\ CountExact
BY DEF CountInv, NoOvershoot

-----------------------------------------------------------------------------
(***************************************************************************)
(* The number on the face.                                                 *)
(***************************************************************************)

\* A mode without a flag means that the number has been taken over.  While it
\* takes a number over, the display thread has seen to it that the two other
\* colours will not be drawn without a new flag.
TakeOver ==
    /\ \A c \in Colour : mode[c] /\ ~flag[c] => owner = c
    /\ pc \in {"ZeroSecond", "Sync", "Load"} /\ mode[FirstOther(seen)] =>
          flag[FirstOther(seen)]
    /\ pc \in {"Sync", "Load"} /\ mode[SecondOther(seen)] =>
          flag[SecondOther(seen)]
    /\ pc = "Mode" /\ seen # "Y" => mode[seen]
    /\ pc = "Flag" => mode[seen]
    /\ pc \in {"Drop", "Show"} => owner = seen

\* From the clearing of the face to the new number the face is dark.
FaceInv ==
    /\ S!Lit(panel) => /\ panel.colour = owner
                       /\ curNum <= panel.value
                       /\ panel.value <= loaded
                       /\ panel.value \in 1 .. MaxShown
    /\ pc \in {"ClearLoad", "ZeroFirst", "ZeroSecond", "Sync", "Load", "Drop"} =>
          ~S!Lit(panel)

\* The two other colours are the other colours.
LEMMA TheOthers ==
    ASSUME NEW c \in Colour
    PROVE  /\ FirstOther(c) \in Colour /\ SecondOther(c) \in Colour
           /\ FirstOther(c) # c /\ SecondOther(c) # c
           /\ FirstOther(c) # SecondOther(c)
           /\ Colour = {c, FirstOther(c), SecondOther(c)}
BY DEF Colour, FirstOther, SecondOther

\* The display thread keeps it.
LEMMA DisplayTakeOver ==
    CountdownTypeOK /\ TakeOver /\ DisplayStep => TakeOver'
<1> SUFFICES ASSUME CountdownTypeOK, TakeOver, DisplayStep PROVE TakeOver'
  OBVIOUS
<1>2. /\ seen \in Colour /\ mode \in [Colour -> BOOLEAN]
      /\ flag \in [Colour -> BOOLEAN]
  BY DEF CountdownTypeOK
<1>3. CASE ZeroFirst
  <2>1. /\ pc = "ZeroFirst" /\ pc' = "ZeroSecond"
        /\ mode' = [mode EXCEPT ![FirstOther(seen)] = FALSE]
        /\ UNCHANGED <<flag, seen, owner>>
    BY <1>3 DEF ZeroFirst, Continue, history
  <2>2. pc # "Show" /\ ~Asleep
    BY <2>1 DEF Asleep, Sleep
  <2> QED
    BY <1>2, <2>1, <2>2, TheOthers DEF TakeOver
<1>4. CASE ZeroSecond
  <2>1. /\ pc = "ZeroSecond" /\ pc' = "Sync"
        /\ mode' = [mode EXCEPT ![SecondOther(seen)] = FALSE]
        /\ UNCHANGED <<flag, seen, owner>>
    BY <1>4 DEF ZeroSecond, Continue, history
  <2>2. pc # "Show" /\ ~Asleep
    BY <2>1 DEF Asleep, Sleep
  <2> QED
    BY <1>2, <2>1, <2>2, TheOthers DEF TakeOver
<1>5. CASE ClearSync
  <2>1. /\ pc = "Sync" /\ pc' = "Load" /\ UNCHANGED <<mode, flag, seen, owner>>
    BY <1>5 DEF ClearSync, Continue, history, shared
  <2>2. pc # "Show" /\ ~Asleep
    BY <2>1 DEF Asleep, Sleep
  <2> QED
    BY <2>1, <2>2 DEF TakeOver
<1>6. CASE Load
  <2>1. /\ pc = "Load" /\ pc' = "Drop" /\ owner' = seen
        /\ UNCHANGED <<mode, flag, seen>>
    BY <1>6 DEF Load, Continue, shared
  <2>2. pc # "Show" /\ ~Asleep
    BY <2>1 DEF Asleep, Sleep
  <2>3. \A c \in Colour : mode[c] /\ ~flag[c] => c = seen
    BY <1>2, <2>1, TheOthers DEF TakeOver
  <2> QED
    BY <2>1, <2>2, <2>3 DEF TakeOver
<1>7. CASE DropFlag
  <2>1. /\ pc = "Drop" /\ pc' = "Show" /\ flag' = [flag EXCEPT ![seen] = FALSE]
        /\ UNCHANGED <<mode, seen, owner>>
    BY <1>7 DEF DropFlag, Continue, history
  <2>2. ~Asleep /\ owner = seen
    BY <2>1 DEF Asleep, Sleep, TakeOver
  <2> QED
    BY <1>2, <2>1, <2>2 DEF TakeOver
<1>8. CASE Show
  <2>1. /\ pc = "Show" /\ UNCHANGED <<mode, flag, seen, owner>>
        /\ pc' \in {"BlinkOn", "Shown", "ClearLoop"}
    BY <1>8 DEF Show, FallAsleep, Clear_Display, shared, history
  <2>2. Asleep' /\ pc' \notin {"ZeroSecond", "Sync", "Load", "Mode", "Flag",
                              "Drop", "Show"}
    BY <2>1 DEF Asleep, Sleep
  <2> QED
    BY <2>1, <2>2 DEF TakeOver
<1>9. CASE TestFlag
  <2>1. /\ pc = "Flag" /\ UNCHANGED <<mode, flag, seen, owner>>
        /\ pc' = IF flag[seen] THEN "ClearLoad" ELSE "Show"
    BY <1>9 DEF TestFlag, FallAsleep, Continue, Clear_Display, shared, history
  <2>2. ~Asleep /\ (pc' = "Show" => owner = seen)
    BY <1>2, <2>1 DEF Asleep, Sleep, TakeOver
  <2> QED
    BY <2>1, <2>2 DEF TakeOver
<1>10. CASE Pass
  <2>1. /\ pc = "Pass" /\ pc' \in {"Branch", "Black", "H", "Rest"}
        /\ UNCHANGED <<mode, flag, owner>>
    BY <1>10 DEF Pass, Continue, shared, history
  <2>2. ~Asleep
    BY <2>1 DEF Asleep, Sleep
  <2> QED
    BY <2>1, <2>2 DEF TakeOver
<1>11. CASE BranchNoPost \/ BranchPost \/ SetType \/ YellowNoPost \/ YellowPost
            \/ OnlyRed
  <2>1. /\ pc \in {"Branch", "Mode", "Black", "H", "Rest"}
        /\ UNCHANGED <<mode, flag, seen, owner>>
        /\ pc' \in {"ClearLoop", "Mode", "Flag", "Pass", "HShown", "Idle"}
        /\ pc' = "Mode" /\ seen # "Y" => mode[seen]
        /\ pc' = "Flag" => mode[seen]
    BY <1>11 DEF BranchNoPost, BranchPost, SetType, YellowNoPost, YellowPost,
       OnlyRed, FallAsleep, Continue, Clear_Display, shared, history, TakeOver
  <2>2. ~Asleep
    BY <2>1 DEF Asleep, Sleep
  <2> QED
    BY <2>1, <2>2 DEF TakeOver
<1>12. CASE Wake
  <2>1. /\ Asleep /\ UNCHANGED <<mode, flag, seen, owner>>
        /\ pc' \in {"ZeroFirst", "BlinkOff", "Pass"}
    BY <1>12 DEF Wake, shared, history
  <2>2. pc # "Show"
    BY <2>1 DEF Asleep, Sleep
  <2> QED
    BY <2>1, <2>2 DEF TakeOver
<1> QED
  BY <1>3, <1>4, <1>5, <1>6, <1>7, <1>8, <1>9, <1>10, <1>11, <1>12
     DEF DisplayStep

\* The thread draws nothing but the count of the colour it owns, and each of
\* its steps is one of the abstract sign, or none.
LEMMA DisplayFace ==
    ASSUME CountdownTypeOK, CountInv, TakeOver, FaceInv, DisplayStep
    PROVE  FaceInv' /\ (S!SignNext \/ UNCHANGED panel)
<1> USE CountdownAssumption
<1>1. /\ seen \in Colour /\ curNum \in Nat /\ curNum <= loaded
      /\ loaded \in Nat /\ panel \in S!Face
  BY DEF CountdownTypeOK, CountInv
<1>2. ~S!Lit(S!Blank) /\ ~S!Lit(S!HFace)
  BY DEF S!Lit, S!Blank, S!HFace, Colour
<1>3. CASE Show
  <2>1. /\ pc = "Show" /\ UNCHANGED <<curNum, owner, loaded>>
        /\ pc' \in {"BlinkOn", "Shown", "ClearLoop"} /\ owner = seen
    BY <1>3 DEF Show, FallAsleep, Clear_Display, counter, history, TakeOver
  <2>2. CASE curNum \in 1 .. MaxShown
    <3>1. panel' = [colour |-> seen, value |-> curNum]
      BY <1>3, <2>2 DEF Show
    <3>2. S!LightUp \/ S!CountDown
      BY <1>1, <2>1, <2>2, <3>1 DEF S!LightUp, S!CountDown, S!Lit, FaceInv
    <3>3. FaceInv'
      BY <1>1, <2>1, <2>2, <3>1 DEF FaceInv, S!Lit
    <3> QED
      BY <3>2, <3>3 DEF S!SignNext
  <2>3. CASE curNum \notin 1 .. MaxShown
    <3>1. panel' = S!Blank
      BY <1>3, <2>3 DEF Show, Clear_Display
    <3> QED
      BY <1>2, <3>1 DEF FaceInv, S!SignNext, S!GoDark, S!Lit
  <2> QED
    BY <2>2, <2>3
<1>4. CASE BranchNoPost \/ TestFlag \/ OnlyRed \/ Wake
  <2>1. /\ UNCHANGED <<curNum, owner, loaded>>
        /\ panel' \in {panel, S!Blank, S!HFace}
        /\ pc' \in {"ClearLoad", "ZeroFirst"} =>
               panel' = S!Blank \/ (panel' = panel /\ pc = "ClearLoad")
        /\ pc' \notin {"ZeroSecond", "Sync", "Load", "Drop"}
    BY <1>4 DEF BranchNoPost, TestFlag, OnlyRed, Wake, FallAsleep, Continue,
       Clear_Display, counter, history
  <2>2. panel' = panel \/ S!GoDark \/ S!ShowH
    BY <2>1 DEF S!GoDark, S!ShowH
  <2>3. FaceInv'
    BY <1>2, <2>1 DEF FaceInv, S!Lit
  <2> QED
    BY <2>2, <2>3 DEF S!SignNext
<1>5. CASE Load
  <2>1. pc = "Load" /\ UNCHANGED panel
    BY <1>5 DEF Load
  <2> QED
    BY <2>1 DEF FaceInv, S!Lit
<1>6. CASE ZeroFirst \/ ZeroSecond \/ ClearSync \/ DropFlag
  <2>1. UNCHANGED <<panel, curNum, owner, loaded>>
    BY <1>6 DEF ZeroFirst, ZeroSecond, ClearSync, DropFlag, counter, history
  <2>2. pc \in {"ZeroFirst", "ZeroSecond", "Sync", "Drop"}
    BY <1>6 DEF ZeroFirst, ZeroSecond, ClearSync, DropFlag
  <2> QED
    BY <2>1, <2>2 DEF FaceInv, S!Lit
<1>7. CASE Pass \/ BranchPost \/ SetType \/ YellowNoPost \/ YellowPost
  <2>1. UNCHANGED <<panel, curNum, owner, loaded>>
    BY <1>7 DEF Pass, BranchPost, SetType, YellowNoPost, YellowPost, counter,
       history
  <2>2. pc' \notin {"ClearLoad", "ZeroFirst", "ZeroSecond", "Sync", "Load", "Drop"}
    BY <1>7 DEF Pass, BranchPost, SetType, YellowNoPost, YellowPost, Continue
  <2> QED
    BY <2>1, <2>2 DEF FaceInv, S!Lit
<1> QED
  BY <1>3, <1>4, <1>5, <1>6, <1>7 DEF DisplayStep

\* The interrupt only counts down.
LEMMA TimeoutFace ==
    ASSUME CountdownTypeOK, FaceInv, timeout
    PROVE  FaceInv' /\ UNCHANGED panel
<1>1. UNCHANGED <<panel, pc, owner, loaded>>
  BY DEF timeout
<1>2. curNum \in Nat /\ panel \in S!Face
  BY CountdownAssumption DEF CountdownTypeOK
<1>3. curNum' = curNum \/ curNum' = curNum - 1
  BY DEF timeout, Count, counter
<1>4. S!Lit(panel) => panel.value \in Nat /\ curNum' <= panel.value
  BY <1>2, <1>3 DEF FaceInv, S!Face
<1> QED
  BY <1>1, <1>4 DEF FaceInv, S!Lit

\* Before the first post the face is dark and nothing is posted.
LEMMA InitTakeOver == CountdownInit => TakeOver /\ FaceInv
<1> SUFFICES ASSUME CountdownInit PROVE TakeOver /\ FaceInv
  OBVIOUS
<1>1. (\A c \in Colour : ~mode[c]) /\ pc = "Pass" /\ panel = S!Blank
  BY DEF CountdownInit
<1> QED
  BY <1>1 DEF TakeOver, FaceInv, S!Lit, S!Blank, Colour

-----------------------------------------------------------------------------
(***************************************************************************)
(* The age of the number on the face.                                      *)
(***************************************************************************)

\* The lamp of this pass is one whose number is drawn or cleared in it.
Drawn == seen = "R" \/ (seen = "G" /\ config.rled)

\* The face is at most one second behind the count, and if it is, that second
\* began at most n expiries ago.
Behind(n) ==
    /\ panel.colour = seen
    /\ \/ panel.value = curNum
       \/ panel.value = curNum + 1 /\ (curNum = 0 \/ sync <= n)

\* The inductive form of FaceFresh.
FreshInv ==
    /\ pc = "Shown" /\ S!Lit(panel) => Behind(elapsed)
    /\ pc = "Pass" /\ Drawn /\ S!Lit(panel) => Behind(elapsed + 1)
    /\ pc \in {"ClearLoop", "BlinkOff"} => ~S!Lit(panel)
    /\ pc \in {"Black", "H", "Rest", "HShown", "Idle"} => ~Drawn

\* The display thread redraws or clears the face in each such pass.
LEMMA DisplayFresh ==
    ASSUME CountdownTypeOK, CountInv, FreshInv, DisplayStep
    PROVE  FreshInv'
<1> USE CountdownAssumption
<1>1. /\ curNum \in Nat /\ sync \in Nat /\ elapsed \in Nat
      /\ elapsed <= AtMost(pc) /\ config \in [motor : BOOLEAN, rled : BOOLEAN]
      /\ seen \in Colour
  BY DEF CountdownTypeOK, CountInv
<1>2. ~S!Lit(S!Blank)
  BY DEF S!Lit, S!Blank, Colour
<1>3. CASE Pass
  <2>1. /\ UNCHANGED config
        /\ seen' \in {"R", "G", "Y"}
        /\ pc' = IF seen' = "R" \/ config.rled THEN "Branch"
                 ELSE IF curMode = "BLACK" THEN "Black"
                 ELSE IF curMode = "H" THEN "H" ELSE "Rest"
    BY <1>3 DEF Pass, Continue, LightChanged
  <2> QED
    BY <2>1 DEF FreshInv, Drawn
<1>4. CASE Show
  <2>1. UNCHANGED <<seen, curNum, config>>
    BY <1>4 DEF Show, counter
  <2>2. CASE curNum \in 1 .. MaxShown
    <3>1. /\ panel' = [colour |-> seen, value |-> curNum]
          /\ pc' \in {"Shown", "BlinkOn"}
      BY <1>4, <2>2 DEF Show, FallAsleep
    <3> QED
      BY <2>1, <3>1 DEF FreshInv, Behind
  <2>3. CASE curNum \notin 1 .. MaxShown
    BY <1>2, <1>4, <2>3 DEF Show, Clear_Display, FallAsleep, FreshInv
  <2> QED
    BY <2>2, <2>3
<1>5. CASE Wake
  <2>1. /\ UNCHANGED <<seen, curNum, sync, config>> /\ elapsed' = 0 /\ Asleep
        /\ pc' = IF pc = "ClearLoad" THEN "ZeroFirst"
                 ELSE IF pc = "BlinkOn" THEN "BlinkOff" ELSE "Pass"
        /\ panel' = IF pc = "BlinkOn" THEN S!Blank ELSE panel
    BY <1>5 DEF Wake, counter
  <2>2. CASE pc = "Shown"
    <3>1. elapsed <= 1 /\ pc' = "Pass" /\ UNCHANGED panel
      BY <1>1, <2>1, <2>2 DEF AtMost, Long, Short
    <3>2. S!Lit(panel) => Behind(elapsed)
      BY <2>2 DEF FreshInv
    <3>3. S!Lit(panel') => Behind(elapsed + 1)'
      BY <1>1, <2>1, <3>1, <3>2 DEF Behind
    <3> QED
      BY <2>1, <3>1, <3>3 DEF FreshInv
  <2>3. CASE pc # "Shown"
    BY <1>2, <2>1, <2>3 DEF FreshInv, Asleep, Sleep, Drawn
  <2> QED
    BY <2>2, <2>3
<1>6. CASE BranchNoPost \/ OnlyRed
  <2>1. /\ UNCHANGED <<seen, config>>
        /\ \/ pc' = "ClearLoop" /\ panel' = S!Blank
           \/ pc' = "HShown" /\ pc = "H"
           \/ pc' = "Idle" /\ pc = "Rest"
    BY <1>6 DEF BranchNoPost, OnlyRed, Clear_Display, FallAsleep
  <2> QED
    BY <1>2, <2>1 DEF FreshInv, Drawn
<1>7. CASE YellowNoPost
  <2>1. pc' = "Pass" /\ seen' = "Y"
    BY <1>7 DEF YellowNoPost
  <2> QED
    BY <2>1 DEF FreshInv, Drawn
<1>8. CASE BranchPost \/ SetType \/ YellowPost \/ TestFlag \/ ZeroFirst
           \/ ZeroSecond \/ ClearSync \/ Load \/ DropFlag
  <2>1. pc' \notin {"Shown", "Pass", "ClearLoop", "BlinkOff", "Black", "H",
                    "Rest", "HShown", "Idle"}
    BY <1>8 DEF BranchPost, SetType, YellowPost, TestFlag, ZeroFirst, ZeroSecond,
       ClearSync, Load, DropFlag, Continue, Clear_Display, FallAsleep
  <2> QED
    BY <2>1 DEF FreshInv
<1> QED
  BY <1>3, <1>4, <1>5, <1>6, <1>7, <1>8 DEF DisplayStep

\* Before a second second is over, the thread has come round.
LEMMA TimeoutFresh ==
    ASSUME CountdownTypeOK, CountInv, FreshInv, timeout, Burst < LastSecond
    PROVE  FreshInv'
<1> USE CountdownAssumption
<1>1. /\ UNCHANGED <<config, panel, pc, seen>>
      /\ elapsed' = elapsed + 1 /\ elapsed < AtMost(pc)
  BY DEF timeout
<1>2. /\ curNum \in Nat /\ sync \in Nat /\ elapsed \in Nat
      /\ SyncMod \in Nat \ {0}
  BY DEF CountdownTypeOK
<1>3. ASSUME NEW n \in Nat, n < LastSecond, Behind(n)
      PROVE  /\ panel.colour = seen
             /\ \/ panel.value = curNum'
                \/ /\ panel.value = curNum' + 1
                   /\ curNum' = 0 \/ sync' <= n + 1
  <2>1. CASE ~countdownType
    BY <1>1, <1>2, <1>3, <2>1 DEF timeout, counter, Behind
  <2>2. CASE countdownType
    <3>1. /\ curNum' = IF SecondOver \/ LastOver THEN curNum - 1 ELSE curNum
          /\ sync' = ((IF SecondOver THEN 0 ELSE sync) + 1) % SyncMod
      BY <2>2 DEF timeout, Count
    <3>2. CASE SecondOver
      <4>1. curNum' = curNum - 1 /\ sync' = 1 /\ sync = PerSecond /\ curNum >= 2
        BY <3>1, <3>2, ModSmall DEF SecondOver
      <4>2. panel.value = curNum
        BY <1>2, <1>3, <4>1 DEF Behind
      <4> QED
        BY <1>1, <1>2, <1>3, <4>1, <4>2 DEF Behind
    <3>3. CASE LastOver
      <4>1. curNum' = 0 /\ sync >= LastSecond /\ curNum = 1
        BY <3>1, <3>3 DEF LastOver
      <4>2. panel.value = curNum
        BY <1>2, <1>3, <4>1 DEF Behind
      <4> QED
        BY <1>1, <1>2, <1>3, <4>1, <4>2 DEF Behind
    <3>4. CASE ~SecondOver /\ ~LastOver
      <4>1. curNum' = curNum /\ sync' = (sync + 1) % SyncMod
        BY <3>1, <3>4
      <4>2. sync' <= sync + 1
        BY <1>2, <4>1
      <4>3. sync' \in Nat
        BY <1>2, <4>1
      <4> QED
        BY <1>1, <1>2, <1>3, <4>1, <4>2, <4>3 DEF Behind
    <3> QED
      BY <3>2, <3>3, <3>4
  <2> QED
    BY <2>1, <2>2
<1>4. pc = "Shown" /\ S!Lit(panel) => Behind(elapsed)'
  <2> SUFFICES ASSUME pc = "Shown", S!Lit(panel) PROVE Behind(elapsed)'
    OBVIOUS
  <2>1. elapsed < LastSecond /\ Behind(elapsed)
    BY <1>1, <1>2 DEF FreshInv, AtMost, Long, Short
  <2> QED
    BY <1>1, <1>2, <1>3, <2>1 DEF Behind
<1>5. pc = "Pass" /\ Drawn /\ S!Lit(panel) => Behind(elapsed + 1)'
  <2> SUFFICES ASSUME pc = "Pass", Drawn, S!Lit(panel) PROVE Behind(elapsed + 1)'
    OBVIOUS
  <2>1. elapsed < Burst /\ Behind(elapsed + 1)
    BY <1>1 DEF FreshInv, AtMost, Long, Short, Sleep
  <2>2. elapsed + 1 \in Nat /\ elapsed + 1 < LastSecond
    BY <1>2, <2>1
  <2>3. /\ panel.colour = seen
        /\ \/ panel.value = curNum'
           \/ /\ panel.value = curNum' + 1
              /\ curNum' = 0 \/ sync' <= (elapsed + 1) + 1
    BY <1>3, <2>1, <2>2
  <2> QED
    BY <1>1, <2>3 DEF Behind
<1> QED
  BY <1>1, <1>4, <1>5 DEF FreshInv, Drawn

\* No one else touches the face, the count or the thread.
LEMMA OthersFresh ==
    ASSUME FreshInv, UNCHANGED <<config, panel, pc, seen, elapsed, curNum, sync>>
    PROVE  FreshInv'
BY DEF FreshInv, Drawn, Behind, S!Lit

\* Nothing is on the face of a sign that has just been switched on.
LEMMA InitFresh == CountdownInit => FreshInv
BY DEF CountdownInit, FreshInv, S!Lit, S!Blank, Colour

\* What the invariant is for.
LEMMA FreshInvImplies == CountdownTypeOK /\ FreshInv => FaceFresh
<1> SUFFICES ASSUME CountdownTypeOK, FreshInv, pc = "Pass", Drawn, S!Lit(panel)
             PROVE  panel.colour = seen /\ panel.value - curNum <= 1
  BY DEF FaceFresh, Drawn
<1>1. curNum \in Nat
  BY CountdownAssumption DEF CountdownTypeOK
<1> QED
  BY <1>1 DEF FreshInv, Behind

=============================================================================
