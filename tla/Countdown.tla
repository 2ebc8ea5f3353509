------------------------------ MODULE Countdown ------------------------------
(***************************************************************************)
(* The display side of the countdown sign (applications/countdown.c): the  *)
(* "countdown" thread, which redraws the LED matrix for ever, and the      *)
(* timer "timer1", whose interrupt handler timeout() counts cur_num down.  *)
(*                                                                         *)
(* The two, and the thread that posts numbers (CommDisplay, StudyDisplay), *)
(* share the global structure "countdown" without any lock.  The thread is *)
(* therefore split at every access to a shared field: between two of its   *)
(* actions the interrupt and the poster may run.                           *)
(*                                                                         *)
(* Time is counted in expiries of timer1 (every 10 OS ticks, 100 ms).      *)
(* "elapsed" counts the expiries since the thread last fell asleep, woke,  *)
(* or (when it does not sleep) began another pass.  A sleep lasts as many  *)
(* expiries as its delay allows; awake, the thread sees at most Burst      *)
(* expiries before it sleeps again.                                        *)
(***************************************************************************)
EXTENDS Naturals

CONSTANTS
    MaxNum,      \* the largest number a poster writes
    MaxShown,    \* the largest number drawn: 199 in the code
    SyncMod,     \* width of the byte countdown.sync: 256 in the code
    PerSecond,   \* the value of sync that makes a second: 10 in the code
    LastSecond,  \* the value of sync that ends the last second: 8 in the code
    Burst,       \* expiries one awake stretch of the thread can span
    Configs      \* the settings of the dial switches

ASSUME CountdownAssumption ==
    /\ Configs \subseteq [motor : BOOLEAN, rled : BOOLEAN]
    /\ MaxNum \in Nat
    /\ MaxShown \in Nat \ {0}
    /\ SyncMod \in Nat
    /\ PerSecond \in Nat
    /\ LastSecond \in Nat \ {0}
    /\ Burst \in Nat
    /\ Burst <= LastSecond
    /\ LastSecond <= PerSecond
    /\ PerSecond + 1 < SyncMod

Colour == {"R", "G", "Y"}

VARIABLES
    config,         \* the dial switches the display reads: [motor, rled]
    num,            \* countdown.cur_num_r, cur_num_g, cur_num_y
    mode,           \* countdown.mode_r, mode_g, mode_y
    flag,           \* countdown.flag_r, flag_g, flag_y
    curNum,         \* countdown.cur_num
    sync,           \* countdown.sync
    type,           \* countdown.type: TRUE when the sign counts by itself
    curMode,        \* countdown.cur_mode
    blind,          \* countdown.blind: the number blinks
    countdownType,  \* the file-static countdown_type that timeout() reads
    lamp,           \* the colours lit at the lamp terminals
    panel,          \* what is latched on the LED matrix
    pc,             \* where the countdown thread is
    seen,           \* light_flg: the colour of this pass
    elapsed,        \* expiries since the last sleep, wake-up or pass
    owner,          \* (history) the colour whose number was last loaded
    loaded,         \* (history) the number that was last loaded
    ran             \* (history) counted expiries since sync was last cleared
                    \* for a load; frozen once the count is over

S == INSTANCE Sign

shared  == <<num, mode, flag, type, blind>>
counter == <<curNum, sync, curMode, countdownType>>
thread  == <<panel, pc, seen, elapsed>>
history == <<owner, loaded, ran>>
vars    == <<config, shared, counter, lamp, thread, history>>

-----------------------------------------------------------------------------
(***************************************************************************)
(* Sleeps of the thread: the fewest and the most expiries rt_thread_delay  *)
(* can span.  Clear_Display and H_Display sleep 20 ticks, Set_LED_Display  *)
(* 5 ticks, or twice 50 when the number blinks; the last branch of         *)
(* rt_hw_countdown sleeps 5.                                               *)
(***************************************************************************)
Sleep == {"ClearLoop", "ClearLoad", "Shown", "BlinkOn", "BlinkOff",
          "HShown", "Idle"}
Awake == {"Pass", "Branch", "Mode", "Flag", "ZeroFirst", "ZeroSecond",
          "Sync", "Load", "Drop", "Show", "Black", "H", "Rest"}

Asleep == pc \in Sleep

Long  == {"BlinkOn", "BlinkOff"}
Short == {"Shown", "Idle"}

AtLeast(p) == IF p \in Long THEN 5 ELSE IF p \in Short THEN 0 ELSE 2
\* Mutant: the cleared face stays for a second.
AtMost_LongClear(p) ==
    IF p \in Long THEN 5 ELSE IF p \in Short THEN 1 ELSE
    IF p \in Sleep THEN 10 ELSE Burst

AtMost(p)  == IF p \in Long THEN 5 ELSE IF p \in Short THEN 1 ELSE
              IF p \in Sleep THEN 2 ELSE Burst

FallAsleep(p) == pc' = p /\ elapsed' = 0
Continue(p)   == pc' = p /\ UNCHANGED elapsed

\* Mutant: the zeros are shifted in but never latched.
Clear_Display_NoLatch(p) == FallAsleep(p) /\ UNCHANGED panel

\* Clear_Display: the matrix is shifted full of zeros and latched, then the
\* thread sleeps and goes on at the place p stands for.
Clear_Display(p) == panel' = S!Blank /\ FallAsleep(p)

-----------------------------------------------------------------------------
(***************************************************************************)
(* One pass of rt_hw_countdown.                                            *)
(***************************************************************************)

\* light_changed: the motor sign looks at all heads, red before yellow; a
\* pedestrian sign at the red terminal only.  Everything else is green.
LightChanged ==
    IF "R" \in lamp THEN "R"
    ELSE IF config.motor /\ "Y" \in lamp THEN "Y" ELSE "G"

\* The call copies the structure, of which only cur_mode is read from the
\* copy, then samples the lamp.  One step: no one else relates the two, so a
\* write between them could as well have come after both.
Pass ==
    /\ pc = "Pass"
    /\ seen' = LightChanged
    /\ Continue(IF seen' = "R" \/ config.rled THEN "Branch"
                ELSE IF curMode = "BLACK" THEN "Black"
                ELSE IF curMode = "H" THEN "H" ELSE "Rest")
    /\ UNCHANGED <<config, shared, counter, lamp, panel, history>>

\* Red and green test the mode first; with no post for the colour, or on a
\* pedestrian sign, the face is cleared.
BranchNoPost ==
    /\ pc = "Branch" /\ seen # "Y"
    /\ ~(mode[seen] /\ config.motor)
    /\ Clear_Display("ClearLoop")
    /\ UNCHANGED <<config, shared, counter, lamp, seen, history>>

BranchPost ==
    /\ pc = "Branch" /\ seen # "Y"
    /\ mode[seen] /\ config.motor
    /\ Continue("Mode")
    /\ UNCHANGED <<config, shared, counter, lamp, panel, seen, history>>

\* Mutant: red and green rely on the type of the count before.
SetType_YellowOnly ==
    /\ \/ /\ pc = "Mode" /\ seen # "Y" /\ Continue("Flag")
          /\ UNCHANGED countdownType
       \/ /\ pc = "Branch" /\ seen = "Y" /\ Continue("Mode")
          /\ countdownType' = type
    /\ UNCHANGED <<config, shared, curNum, sync, curMode, lamp, panel, seen,
                   history>>

\* countdown_type = countdown.type, after the mode test on red and green,
\* before it on yellow.
SetType ==
    /\ \/ pc = "Mode" /\ seen # "Y" /\ Continue("Flag")
       \/ pc = "Branch" /\ seen = "Y" /\ Continue("Mode")
    /\ countdownType' = type
    /\ UNCHANGED <<config, shared, curNum, sync, curMode, lamp, panel, seen,
                   history>>

\* Yellow with no post: nothing is drawn, cleared or waited for.
YellowNoPost ==
    /\ pc = "Mode" /\ seen = "Y" /\ ~mode["Y"]
    /\ pc' = "Pass" /\ elapsed' = 0
    /\ UNCHANGED <<config, shared, counter, lamp, panel, seen, history>>

YellowPost ==
    /\ pc = "Mode" /\ seen = "Y" /\ mode["Y"]
    /\ Continue("Flag")
    /\ UNCHANGED <<config, shared, counter, lamp, panel, seen, history>>

\* Mutant: the number is taken over without clearing the face.
TestFlag_NoClear ==
    /\ pc = "Flag"
    /\ Continue(IF flag[seen] THEN "ZeroFirst" ELSE "Show")
    /\ UNCHANGED <<config, shared, counter, lamp, panel, seen, history>>

\* A new post for the colour: clear the face, then take the number over.
TestFlag ==
    /\ pc = "Flag"
    /\ IF flag[seen] THEN Clear_Display("ClearLoad")
                     ELSE Continue("Show") /\ UNCHANGED panel
    /\ UNCHANGED <<config, shared, counter, lamp, seen, history>>

\* Mutant: red erases the mode of yellow twice and that of green never.
FirstOther_Twice(c) == IF c = "R" THEN "Y" ELSE "R"

\* The two other modes, in the order the code clears them.
FirstOther(c)  == IF c = "R" THEN "G" ELSE "R"
SecondOther(c) == IF c = "Y" THEN "G" ELSE "Y"

\* Mutant: the first other mode is not erased.
ZeroFirst_Forgotten ==
    /\ pc = "ZeroFirst"
    /\ Continue("ZeroSecond")
    /\ UNCHANGED <<config, shared, counter, lamp, panel, seen, history>>

ZeroFirst ==
    /\ pc = "ZeroFirst"
    /\ mode' = [mode EXCEPT ![FirstOther(seen)] = FALSE]
    /\ Continue("ZeroSecond")
    /\ UNCHANGED <<config, num, flag, type, blind, counter, lamp, panel, seen,
                   history>>

ZeroSecond ==
    /\ pc = "ZeroSecond"
    /\ mode' = [mode EXCEPT ![SecondOther(seen)] = FALSE]
    /\ Continue("Sync")
    /\ UNCHANGED <<config, num, flag, type, blind, counter, lamp, panel, seen,
                   history>>

\* Mutant: sync runs on from the count before.
ClearSync_Forgotten ==
    /\ pc = "Sync"
    /\ Continue("Load")
    /\ UNCHANGED <<config, shared, counter, lamp, panel, seen, history>>

ClearSync ==
    /\ pc = "Sync"
    /\ sync' = 0
    /\ Continue("Load")
    /\ UNCHANGED <<config, shared, curNum, curMode, countdownType, lamp, panel,
                   seen, history>>

Load ==
    /\ pc = "Load"
    /\ curNum' = num[seen]
    /\ owner' = seen
    /\ loaded' = num[seen]
    /\ ran' = sync
    /\ Continue("Drop")
    /\ UNCHANGED <<config, shared, sync, curMode, countdownType, lamp, panel,
                   seen>>

\* Mutant: the flag stays up.
DropFlag_Forgotten ==
    /\ pc = "Drop"
    /\ Continue("Show")
    /\ UNCHANGED <<config, shared, counter, lamp, panel, seen, history>>

DropFlag ==
    /\ pc = "Drop"
    /\ flag' = [flag EXCEPT ![seen] = FALSE]
    /\ Continue("Show")
    /\ UNCHANGED <<config, num, mode, type, blind, counter, lamp, panel, seen,
                   history>>

\* Set_LED_Display, guarded by cur_num <= 199.  The two reads of cur_num are
\* one here: between them it can only have been counted down.
Show ==
    /\ pc = "Show"
    /\ IF curNum \in 1 .. MaxShown
         THEN /\ panel' = [colour |-> seen, value |-> curNum]
              /\ FallAsleep(IF blind THEN "BlinkOn" ELSE "Shown")
         ELSE Clear_Display("ClearLoop")
    /\ UNCHANGED <<config, shared, counter, lamp, seen, history>>

\* A sign set to show red only, when the lamp is not red.
OnlyRed ==
    /\ \/ pc = "Black" /\ Clear_Display("ClearLoop")
       \/ pc = "H" /\ panel' = S!HFace /\ FallAsleep("HShown")
       \/ pc = "Rest" /\ FallAsleep("Idle") /\ UNCHANGED panel
    /\ UNCHANGED <<config, shared, counter, lamp, seen, history>>

\* The end of a sleep.  A blinking number is switched off (the output enable
\* line OE) for the second half of its second.
Wake ==
    /\ Asleep
    /\ elapsed >= AtLeast(pc)
    /\ elapsed' = 0
    /\ pc' = IF pc = "ClearLoad" THEN "ZeroFirst"
             ELSE IF pc = "BlinkOn" THEN "BlinkOff" ELSE "Pass"
    /\ panel' = IF pc = "BlinkOn" THEN S!Blank ELSE panel
    /\ UNCHANGED <<config, shared, counter, lamp, seen, history>>

DisplayStep ==
    \/ Pass \/ BranchNoPost \/ BranchPost \/ SetType
    \/ YellowNoPost \/ YellowPost \/ TestFlag \/ ZeroFirst \/ ZeroSecond
    \/ ClearSync \/ Load \/ DropFlag \/ Show \/ OnlyRed \/ Wake

-----------------------------------------------------------------------------
(***************************************************************************)
(* timeout(): the handler of timer1, run in the SysTick interrupt.  Its    *)
(* test of sync and cur_num, the decrement and the final sync++ are one    *)
(* step, because no thread runs inside it.                                 *)
(***************************************************************************)
SecondOver == sync = PerSecond /\ curNum >= 2
\* Mutant: the last second of a number that is over is counted again.
LastOver_Again == curNum <= 1 /\ sync >= LastSecond

LastOver   == curNum = 1 /\ sync >= LastSecond

\* Mutant: the expiry that ends a second is not counted for the next one.
Count_DropsExpiry ==
    /\ curNum' = IF SecondOver \/ LastOver THEN curNum - 1 ELSE curNum
    /\ sync' = IF SecondOver THEN 0 ELSE (sync + 1) % SyncMod
    /\ curMode' = IF LastOver THEN "BLACK" ELSE curMode
    /\ countdownType' = (curNum # 1)
    /\ ran' = IF curNum >= 1 THEN ran + 1 ELSE ran

Count ==
    /\ curNum' = IF SecondOver \/ LastOver THEN curNum - 1 ELSE curNum
    /\ sync' = ((IF SecondOver THEN 0 ELSE sync) + 1) % SyncMod
    /\ curMode' = IF LastOver THEN "BLACK" ELSE curMode
    /\ countdownType' = (curNum # 1)
    /\ ran' = IF curNum >= 1 THEN ran + 1 ELSE ran

timeout ==
    /\ elapsed < AtMost(pc)
    /\ elapsed' = elapsed + 1
    /\ IF countdownType THEN Count ELSE UNCHANGED <<counter, ran>>
    /\ UNCHANGED <<config, shared, lamp, panel, pc, seen, owner, loaded>>

-----------------------------------------------------------------------------
\* The structure is in .bss; the thread's entry sets cur_mode to 4 and
\* nothing that was not zero before.
CountdownInit ==
    /\ config \in Configs
    /\ num = [c \in Colour |-> 0]
    /\ mode = [c \in Colour |-> FALSE]
    /\ flag = [c \in Colour |-> FALSE]
    /\ curNum = 0 /\ sync = 0 /\ countdownType = FALSE
    /\ type = FALSE /\ blind = FALSE /\ curMode = "BLACK"
    /\ panel = S!Blank
    /\ pc = "Pass" /\ seen = "G" /\ elapsed = 0
    /\ owner = "none" /\ loaded = 0 /\ ran = 0

CountdownTypeOK ==
    /\ config \in Configs
    /\ num \in [Colour -> 0 .. MaxNum]
    /\ mode \in [Colour -> BOOLEAN]
    /\ flag \in [Colour -> BOOLEAN]
    /\ curNum \in 0 .. MaxNum
    /\ sync \in 0 .. SyncMod - 1
    /\ type \in BOOLEAN /\ blind \in BOOLEAN /\ countdownType \in BOOLEAN
    /\ curMode \in Colour \cup {"BLACK", "H"}
    /\ lamp \in SUBSET Colour
    /\ panel \in S!Face
    /\ pc \in Sleep \cup Awake
    /\ seen \in Colour
    /\ elapsed \in Nat
    /\ owner \in Colour \cup {"none"}
    /\ loaded \in 0 .. MaxNum
    /\ ran \in Nat

-----------------------------------------------------------------------------
(***************************************************************************)
(* What the display owes whoever posts the numbers (CommDisplay and        *)
(* StudyDisplay check these of their own specifications).                  *)
(***************************************************************************)

\* The number on the matrix is the one posted for the colour it is drawn in,
\* counted down or not, and the count is never ahead of it: the handshake of
\* flag_c and mode_c works although nothing locks the structure.
OwnNumber ==
    S!Lit(panel) => /\ panel.colour = owner
                    /\ curNum <= panel.value
                    /\ panel.value <= loaded

\* timeout() tests sync == 10, so a sync that got past 10 would stop the
\* count for the rest of the 256 values of the byte.  It never does while
\* there is something to count, although the interrupt falls between the
\* thread's writes of sync and cur_num.
NoOvershoot == curNum >= 2 => sync <= PerSecond

\* "sync" keeps its promise (config.h:14): every second of a loaded number
\* takes ten counted expiries and the last one nine, with no drift, whatever
\* posts and lamp changes come between.
CountExact ==
    pc # "Load" =>
        /\ curNum >= 1 => ran = PerSecond * (loaded - curNum) + sync
        /\ curNum = 0 /\ loaded >= 1 =>
               ran = PerSecond * (loaded - 1) + LastSecond + 1

\* When a pass over a red or green lamp is over, the face is dark or shows
\* the count in the colour of the lamp, at most one second behind it.
FaceFresh ==
    pc = "Pass" /\ (seen = "R" \/ (seen = "G" /\ config.rled))
        /\ S!Lit(panel) =>
        panel.colour = seen /\ panel.value - curNum <= 1

\* The display implements the abstract sign: a number gives way to another
\* colour or to a larger number only through a dark (or H) face.
ShowsAsSign == S!SignSpec

=============================================================================
