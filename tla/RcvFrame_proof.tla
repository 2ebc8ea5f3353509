--------------------------- MODULE RcvFrame_proof ---------------------------
(***************************************************************************)
(* Theorems about the receiver, for every length of frames, buffer, fifo,   *)
(* timeouts, and whatever the line and the scheduler do within the bounds   *)
(* that the constants set.                                                 *)
(***************************************************************************)
EXTENDS RcvFrame, TLAPS

\* While it sleeps the thread has a tick to wait for, and it leaves its loop
\* with the second timeout in a row.
WaitInv ==
    /\ Blocked => left # 0
    /\ timeout_cnt = 2 => pc = "Return"

TypeInv == RcvTypeOK /\ WaitInv

-----------------------------------------------------------------------------
LEMMA TypeInit == RcvInit => TypeInv
BY RcvAssumption DEF RcvInit, TypeInv, RcvTypeOK, WaitInv, Blocked, NoByte, Byte

LEMMA PushType ==
    ASSUME fifo \in Seq(Byte), Len(fifo) <= FifoLen, NEW b \in Byte
    PROVE  Push(b) \in Seq(Byte) /\ Len(Push(b)) <= FifoLen
<1>1. CASE Len(fifo) < FifoLen
  BY <1>1, RcvAssumption DEF Push
<1>2. CASE ~(Len(fifo) < FifoLen)
  <2>1. fifo # <<>>
    BY <1>2, RcvAssumption
  <2>2. Tail(fifo) \in Seq(Byte) /\ Len(Tail(fifo)) = Len(fifo) - 1
    BY <2>1
  <2> QED
    BY <1>2, <2>2, RcvAssumption DEF Push
<1> QED
  BY <1>1, <1>2

\* One step per action.
LEMMA TypeStep == TypeInv /\ [RcvNext]_vars => TypeInv'
<1> SUFFICES ASSUME TypeInv, [RcvNext]_vars
             PROVE  TypeInv'
  OBVIOUS
<1> USE RcvAssumption
<1> USE DEF TypeInv, RcvTypeOK, WaitInv, Blocked
<1>1. ASSUME NEW n \in Lengths, Receive(n)
      PROVE  TypeInv'
  <2> DEFINE at == IF MidFrame THEN frame.sent + 1 ELSE 1
             b  == [len |-> n, at |-> at]
  <2>1. at \in 1 .. n
    BY <1>1 DEF Receive, MidFrame
  <2>2. b \in Byte
    BY <2>1 DEF Byte
  <2>3. fifo' \in Seq(Byte) /\ Len(fifo') <= FifoLen
    BY <1>1, <2>2, PushType DEF Receive
  <2>4. frame' \in [len : Lengths \cup {0}, sent : Nat] /\ frame'.sent <= frame'.len
    BY <1>1, <2>1 DEF Receive
  <2>5. /\ event' \in BOOLEAN
        /\ pc' \in {"Recv", "Suspended", "Read", "TimedOut", "Return"}
        /\ pc' = "Suspended" => left' # 0
        /\ timeout_cnt' = 2 => pc' = "Return"
    BY <1>1 DEF Receive, SendEvent, locals
  <2>6. burst' \in 0 .. Rate /\ silence' \in 0 .. Quiet /\ unparsed' \in BOOLEAN
    BY <1>1 DEF Receive
  <2> QED
    BY <1>1, <2>3, <2>4, <2>5, <2>6 DEF Receive, locals, config
<1>2. ASSUME Tick
      PROVE  TypeInv'
  <2>1. /\ burst' \in 0 .. Rate /\ silence' \in 0 .. Quiet
        /\ awake' \in 0 .. Latency
    BY <1>2 DEF Tick
  <2>2. /\ left' \in Nat
        /\ pc' \in {"Recv", "Suspended", "Read", "TimedOut", "Return"}
        /\ pc' = "Suspended" => left' # 0
        /\ timeout_cnt' = 2 => pc' = "Return"
    BY <1>2 DEF Tick, locals
  <2> QED
    BY <1>2, <2>1, <2>2 DEF Tick, driver, locals, config
<1>3. ASSUME Recv
      PROVE  TypeInv'
  BY <1>3 DEF Recv, locals, config, line
<1>4. ASSUME ReadByte
      PROVE  TypeInv'
  <2>1. Head(fifo) \in Byte /\ Tail(fifo) \in Seq(Byte)
        /\ Len(Tail(fifo)) <= FifoLen
    BY <1>4 DEF ReadByte
  <2>2. CASE Full
    <3>1. counter' = 0 /\ rev_valid_flg' = FALSE /\ UNCHANGED config
      BY <1>4, <2>2 DEF ReadByte
    <3>2. rx_buffer' = rx_buffer /\ rx_counter' = rx_counter
      BY <3>1 DEF config
    <3>3. timeout_cnt' = 0 /\ fifo' = Tail(fifo) /\ pc' = pc
      BY <1>4 DEF ReadByte
    <3>4. UNCHANGED <<event, left, next_timeout, line, awake, unparsed>>
      BY <1>4 DEF ReadByte
    <3>5. rev_valid_flg' \in BOOLEAN
      BY <3>1
    <3>6. counter' = 0
      BY <3>1
    <3> QED
      BY <2>1, <3>2, <3>3, <3>4, <3>5, <3>6 DEF line
  <2>3. CASE ~Full
    <3>1. counter \in 0 .. BufLen - 1
      BY <2>3 DEF Full
    <3>2. rx_buffer' \in [0 .. BufLen - 1 -> Byte \cup {NoByte}]
      BY <1>4, <2>1, <2>3, <3>1 DEF ReadByte
    <3> QED
      BY <1>4, <2>1, <2>3, <3>1, <3>2 DEF ReadByte, line
  <2> QED
    BY <2>2, <2>3
<1>5. ASSUME ReadEmpty
      PROVE  TypeInv'
  BY <1>5 DEF ReadEmpty, driver, locals, config, line
<1>6. ASSUME TimedOut
      PROVE  TypeInv'
  BY <1>6 DEF TimedOut, driver, config, line
<1>7. ASSUME Return
      PROVE  TypeInv'
  <2>1. unparsed' \in BOOLEAN
    BY <1>7, Zenon DEF Return
  <2>2. rev_valid_flg' \in BOOLEAN
    BY <1>7 DEF Return
  <2>3. /\ pc' = "Recv" /\ next_timeout' = FirstWait
        /\ timeout_cnt' = 0 /\ counter' = 0
        /\ UNCHANGED <<driver, left, config, line, awake>>
    BY <1>7 DEF Return
  <2> QED
    BY <2>1, <2>2, <2>3 DEF driver, config, line
<1>8. ASSUME UNCHANGED vars
      PROVE  TypeInv'
  BY <1>8 DEF vars, driver, locals, config, line
<1> QED
  BY <1>1, <1>2, <1>3, <1>4, <1>5, <1>6, <1>7, <1>8 DEF RcvNext, Thread

\* Type correctness of the receiver; in particular the counter never leaves
\* the buffer, whatever the frames are (uart_get_cnt_data's comparison).
THEOREM RcvTypeCorrect == RcvSpec => []RcvTypeOK
<1>1. RcvInit => TypeInv
  BY TypeInit
<1>2. TypeInv /\ [RcvNext]_vars => TypeInv'
  BY TypeStep
<1>3. TypeInv => RcvTypeOK
  BY DEF TypeInv
<1> QED
  BY <1>1, <1>2, <1>3, PTL DEF RcvSpec

-----------------------------------------------------------------------------
LEMMA ForgottenStep == NoByteForgotten /\ [RcvNext]_vars => NoByteForgotten'
<1> SUFFICES ASSUME NoByteForgotten, [RcvNext]_vars
             PROVE  NoByteForgotten'
  OBVIOUS
<1> USE DEF NoByteForgotten
<1>1. ASSUME NEW n \in Lengths, Receive(n)
      PROVE  NoByteForgotten'
  BY <1>1 DEF Receive, SendEvent
<1>2. ASSUME Tick
      PROVE  NoByteForgotten'
  BY <1>2 DEF Tick, driver, Blocked
<1>3. ASSUME Recv
      PROVE  NoByteForgotten'
  BY <1>3 DEF Recv
<1>4. ASSUME ReadByte \/ ReadEmpty
      PROVE  NoByteForgotten'
  BY <1>4 DEF ReadByte, ReadEmpty, driver
<1>5. ASSUME TimedOut \/ Return
      PROVE  NoByteForgotten'
  BY <1>5 DEF TimedOut, Return, driver
<1>6. ASSUME UNCHANGED vars
      PROVE  NoByteForgotten'
  BY <1>6 DEF vars, driver
<1> QED
  BY <1>1, <1>2, <1>3, <1>4, <1>5, <1>6 DEF RcvNext, Thread

\* No wakeup is lost: a byte in the fifo is always announced by the event or
\* being read (uart_intput against rt_event_recv with RT_EVENT_FLAG_CLEAR).
THEOREM NoWakeupLost == RcvSpec => []NoByteForgotten
<1>1. RcvInit => NoByteForgotten
  BY DEF RcvInit, NoByteForgotten
<1> QED
  BY <1>1, ForgottenStep, PTL DEF RcvSpec

-----------------------------------------------------------------------------
(***************************************************************************)
(* Framing.  Under TimingAssumption the thread ends a frame after the      *)
(* controller has and before it sends another, so that buffer and fifo     *)
(* always hold bytes of one frame, in order.                               *)
(***************************************************************************)

\* Bytes of the frame that the thread has read.
Taken == frame.sent - Len(fifo)

\* The second timeout in a row has expired.
Ended == pc = "Return" \/ (pc = "TimedOut" /\ timeout_cnt = 1)

\* The thread has read everything and waits for the first or the second
\* timeout, or has just been woken by it.
Waiting(n) == Blocked /\ timeout_cnt = n
Woken(n)   == \/ pc = "TimedOut" /\ timeout_cnt = n
              \/ n = 0 /\ pc = "Recv" /\ timeout_cnt = 1
              \/ n = 1 /\ pc = "Return"

\* A byte that nobody has read and the event that says so belong together.
WakeInv ==
    /\ pc = "Return" => timeout_cnt = 2
    /\ timeout_cnt # 0 => next_timeout = NextWait
    /\ Blocked => fifo = <<>> /\ ~event
    /\ fifo = <<>> /\ (event \/ pc = "Read") =>
          timeout_cnt = 0 /\ pc \in {"Recv", "Read"}

\* The fifo holds no more than what fits on the line since the thread was
\* woken.
FifoInv == Len(fifo) <= Rate * awake + burst

\* The fifo holds the bytes of the frame that came last, and the buffer
\* those before them, from its first byte on or from where it was started
\* again.
ContentInv ==
    /\ Len(fifo) <= frame.sent
    /\ \A i \in 1 .. Len(fifo) :
          fifo[i] = [len |-> frame.len, at |-> Taken + i]
    /\ Collecting => /\ counter <= Taken
                     /\ Taken <= BufLen => counter = Taken
    /\ \A i \in 0 .. counter - 1 :
          rx_buffer[i] = [len |-> frame.len, at |-> Taken - counter + 1 + i]
    /\ counter # 0 => rx_counter = counter
    /\ rev_valid_flg <=> counter # 0
    /\ unparsed => Collecting /\ ~MidFrame /\ frame.len <= BufLen

\* The thread ends a frame only when it was silent for longer than a pause.
SilentInv ==
    /\ MidFrame => silence <= Pause
    /\ fifo = <<>> =>
          /\ Waiting(0) => silence + left >= NextWait
          /\ Woken(0)   => silence >= NextWait
          /\ Waiting(1) => silence + left >= 2 * NextWait
          /\ Woken(1)   => silence >= 2 * NextWait
    \* What comes while it ends is the start of a new frame.
    /\ Ended /\ fifo # <<>> => Taken = 0

\* It ends a frame before the controller may send the next.
SoonInv ==
    Collecting =>
        /\ fifo # <<>> \/ event \/ pc = "Read" \/ (pc = "Recv" /\ timeout_cnt = 0)
              => silence <= awake
        /\ Waiting(0) => silence + left <= Latency + FirstWait
        /\ Woken(0)   => silence <= Latency + FirstWait + awake
        /\ Waiting(1) => silence + left <= 2 * Latency + FirstWait + NextWait
        /\ Woken(1)   => silence <= 2 * Latency + FirstWait + NextWait + awake

FrameInv == WakeInv /\ FifoInv /\ ContentInv /\ SilentInv /\ SoonInv

RcvInv == TypeInv /\ NoByteForgotten /\ FrameInv

-----------------------------------------------------------------------------
LEMMA Multiples ==
    ASSUME NEW r \in Nat, NEW a \in Nat, NEW b \in Nat, a <= b
    PROVE  r * a <= r * b /\ r * a \in Nat /\ r * (a + 1) = r * a + r
<1>1. PICK d \in Nat : b = a + d
  <2>1. b - a \in Nat /\ b = a + (b - a)
    OBVIOUS
  <2> QED
    BY <2>1
<1>2. r * (a + d) = r * a + r * d /\ r * d \in Nat /\ r * a \in Nat
  OBVIOUS
<1> QED
  BY <1>1, <1>2

\* There is room in the fifo for a byte that fits on the line.
LEMMA NoOverrun ==
    ASSUME TypeInv, FifoInv, burst < Rate
    PROVE  Len(fifo) < FifoLen
<1>1. /\ Rate \in Nat /\ awake \in Nat /\ Latency \in Nat /\ awake <= Latency
      /\ burst \in Nat /\ Len(fifo) \in Nat /\ FifoLen \in Nat
  BY RcvAssumption DEF TypeInv, RcvTypeOK
<1>2. /\ Rate * awake <= Rate * Latency
      /\ Rate * (Latency + 1) = Rate * Latency + Rate
      /\ Rate * awake \in Nat /\ Rate * Latency \in Nat
  BY <1>1, Multiples
<1> QED
  BY <1>1, <1>2, TimingAssumption DEF FifoInv

\* When the controller may send a frame, the one before it is dealt with.
LEMMA QuietIdle ==
    ASSUME TypeInv, WakeInv, SoonInv, silence = Quiet
    PROVE  ~Collecting
<1>1. /\ awake \in Nat /\ awake <= Latency /\ Latency \in Nat /\ left \in Nat
      /\ FirstWait \in Nat /\ NextWait \in Nat /\ Quiet \in Nat
      /\ timeout_cnt \in 0 .. 2
      /\ pc \in {"Recv", "Suspended", "Read", "TimedOut", "Return"}
  BY RcvAssumption DEF TypeInv, RcvTypeOK
<1> QED
  BY <1>1, TimingAssumption
     DEF TypeInv, WaitInv, WakeInv, SoonInv, Waiting, Woken, Blocked

\* A pause inside a frame is not mistaken for its end.
LEMMA NotCut ==
    ASSUME TypeInv, SilentInv, Ended, fifo = <<>>
    PROVE  ~MidFrame
BY RcvAssumption, TimingAssumption
   DEF TypeInv, RcvTypeOK, WaitInv, SilentInv, Ended, Woken

\* What the interrupt does to the fifo and the frame, with room in the fifo.
LEMMA Received ==
    ASSUME TypeInv, FrameInv, NEW n \in Lengths, Receive(n)
    PROVE  /\ fifo' = Append(fifo, [len |-> n, at |-> frame'.sent])
           /\ Len(fifo') = Len(fifo) + 1 /\ fifo' # <<>>
           /\ frame'.len = n /\ frame'.sent \in 1 .. n
           /\ \/ MidFrame /\ n = frame.len /\ frame'.sent = frame.sent + 1
                 /\ frame' = [frame EXCEPT !.sent = frame.sent + 1]
              \/ ~Collecting /\ frame'.sent = 1
<1>1. Len(fifo) < FifoLen
  BY NoOverrun DEF Receive, FrameInv
<1>2. frame' = [len |-> n, sent |-> IF MidFrame THEN frame.sent + 1 ELSE 1]
  BY DEF Receive
<1>3. ~MidFrame => ~Collecting
  BY QuietIdle DEF Receive, FrameInv
<1>4. fifo' = Append(fifo, [len |-> n, at |-> frame'.sent])
  BY <1>1, <1>2 DEF Receive, Push
<1>5. frame \in [len : Lengths \cup {0}, sent : Nat] /\ fifo \in Seq(Byte)
  BY DEF TypeInv, RcvTypeOK
<1>6. n \in Nat \ {0}
  BY RcvAssumption
<1>7. Len(fifo') = Len(fifo) + 1 /\ fifo' # <<>>
  BY <1>4, <1>5
<1>8. CASE MidFrame
  BY <1>2, <1>4, <1>5, <1>6, <1>7, <1>8 DEF Receive, MidFrame
<1>9. CASE ~MidFrame
  BY <1>2, <1>3, <1>4, <1>5, <1>6, <1>7, <1>9
<1> QED
  BY <1>8, <1>9

-----------------------------------------------------------------------------
LEMMA FrameInit == RcvInit => FrameInv
<1> SUFFICES ASSUME RcvInit PROVE FrameInv
  OBVIOUS
<1> USE RcvAssumption DEF RcvInit, MidFrame
<1>1. Len(fifo) = 0 /\ ~MidFrame /\ ~Collecting /\ Taken = 0
  BY DEF Collecting, Taken
<1>2. WakeInv
  BY DEF WakeInv, Blocked
<1>3. FifoInv
  <2>1. Rate * 0 = 0
    OBVIOUS
  <2> QED
    BY <1>1, <2>1 DEF FifoInv
<1>4. ContentInv
  BY <1>1 DEF ContentInv
<1>5. SilentInv
  BY <1>1 DEF SilentInv, Waiting, Woken, Ended, Blocked
<1>6. SoonInv
  BY <1>1 DEF SoonInv
<1> QED
  BY <1>2, <1>3, <1>4, <1>5, <1>6 DEF FrameInv

\* The event: one step per action.
LEMMA WakeStep ==
    TypeInv /\ NoByteForgotten /\ FrameInv /\ [RcvNext]_vars => WakeInv'
<1> SUFFICES ASSUME TypeInv, NoByteForgotten, FrameInv, [RcvNext]_vars
             PROVE  WakeInv'
  OBVIOUS
<1> USE DEF WakeInv, Blocked
<1>0. /\ WakeInv /\ WaitInv /\ fifo \in Seq(Byte) /\ timeout_cnt \in 0 .. 2
      /\ pc \in {"Recv", "Suspended", "Read", "TimedOut", "Return"}
      /\ event \in BOOLEAN
  BY DEF FrameInv, TypeInv, RcvTypeOK
<1>1. ASSUME NEW n \in Lengths, Receive(n)
      PROVE  WakeInv'
  <2>1. fifo' # <<>>
    BY <1>0, <1>1, Received
  <2> QED
    BY <1>0, <1>1, <2>1 DEF Receive, SendEvent, locals
<1>2. ASSUME Tick
      PROVE  WakeInv'
  BY <1>0, <1>2 DEF Tick, driver, locals, WaitInv
<1>3. ASSUME Recv
      PROVE  WakeInv'
  BY <1>0, <1>3 DEF Recv, locals, NoByteForgotten
<1>4. ASSUME ReadByte
      PROVE  WakeInv'
  BY <1>0, <1>4 DEF ReadByte
<1>5. ASSUME ReadEmpty
      PROVE  WakeInv'
  BY <1>0, <1>5 DEF ReadEmpty, driver, locals
<1>6. ASSUME TimedOut
      PROVE  WakeInv'
  BY <1>0, <1>6 DEF TimedOut, driver, WaitInv
<1>7. ASSUME Return
      PROVE  WakeInv'
  BY <1>0, <1>7 DEF Return, driver
<1>8. ASSUME UNCHANGED vars
      PROVE  WakeInv'
  BY <1>0, <1>8 DEF vars, driver, locals
<1> QED
  BY <1>1, <1>2, <1>3, <1>4, <1>5, <1>6, <1>7, <1>8 DEF RcvNext, Thread

\* The room in the fifo.
LEMMA FifoStep ==
    TypeInv /\ NoByteForgotten /\ FrameInv /\ [RcvNext]_vars => FifoInv'
<1> SUFFICES ASSUME TypeInv, NoByteForgotten, FrameInv, [RcvNext]_vars
             PROVE  FifoInv'
  OBVIOUS
<1>0. /\ FifoInv /\ WakeInv /\ fifo \in Seq(Byte) /\ Len(fifo) \in Nat
      /\ burst \in 0 .. Rate /\ awake \in Nat /\ Rate \in Nat
      /\ Rate * awake \in Nat /\ Rate * (awake + 1) = Rate * awake + Rate
      /\ Rate * 0 = 0
  <2>1. awake \in Nat /\ Rate \in Nat
    BY RcvAssumption DEF TypeInv, RcvTypeOK
  <2> QED
    BY <2>1, Multiples DEF FrameInv, TypeInv, RcvTypeOK
<1>1. ASSUME NEW n \in Lengths, Receive(n)
      PROVE  FifoInv'
  <2>1. Len(fifo') = Len(fifo) + 1
    BY <1>1, Received
  <2> QED
    BY <1>0, <1>1, <2>1 DEF Receive, FifoInv
<1>2. ASSUME Tick
      PROVE  FifoInv'
  <2>1. CASE Blocked
    BY <1>0, <1>2, <2>1 DEF Tick, driver, FifoInv, WakeInv
  <2>2. CASE ~Blocked
    BY <1>0, <1>2, <2>2 DEF Tick, driver, FifoInv
  <2> QED
    BY <2>1, <2>2
<1>3. ASSUME Recv
      PROVE  FifoInv'
  <2>1. CASE event
    BY <1>0, <1>3, <2>1 DEF Recv, line, FifoInv
  <2>2. CASE ~event
    <3>1. fifo' = <<>> /\ awake' = 0 /\ burst' = burst
      BY <1>3, <2>2 DEF Recv, line, NoByteForgotten
    <3> QED
      BY <1>0, <3>1 DEF FifoInv
  <2> QED
    BY <2>1, <2>2
<1>4. ASSUME ReadByte
      PROVE  FifoInv'
  <2>1. Len(fifo') = Len(fifo) - 1 /\ UNCHANGED <<awake, burst>>
    BY <1>0, <1>4 DEF ReadByte, line
  <2> QED
    BY <1>0, <2>1 DEF FifoInv
<1>5. ASSUME ReadEmpty \/ TimedOut \/ Return \/ UNCHANGED vars
      PROVE  FifoInv'
  <2>1. UNCHANGED <<fifo, awake, burst>>
    BY <1>5 DEF ReadEmpty, TimedOut, Return, vars, driver, line
  <2> QED
    BY <1>0, <2>1 DEF FifoInv
<1> QED
  BY <1>1, <1>2, <1>3, <1>4, <1>5 DEF RcvNext, Thread

\* What the constants and the types say of the waiting.
LEMMA Timing ==
    /\ Quiet \in Nat /\ Pause \in Nat /\ Latency \in Nat
    /\ NextWait \in Nat /\ FirstWait \in Nat
    /\ Pause < 2 * NextWait /\ 2 * NextWait < Quiet /\ NextWait <= FirstWait
BY RcvAssumption, TimingAssumption

LEMMA WaitTypes ==
    ASSUME TypeInv
    PROVE  /\ timeout_cnt \in 0 .. 2
           /\ Len(fifo) \in Nat /\ frame.sent \in Nat /\ frame.len \in Nat
           /\ silence \in 0 .. Quiet /\ left \in Nat
           /\ pc \in {"Recv", "Suspended", "Read", "TimedOut", "Return"}
           /\ next_timeout \in {FirstWait, NextWait}
<1>1. /\ fifo \in Seq(Byte) /\ timeout_cnt \in 0 .. 2
      /\ silence \in 0 .. Quiet /\ left \in Nat
      /\ pc \in {"Recv", "Suspended", "Read", "TimedOut", "Return"}
      /\ next_timeout \in {FirstWait, NextWait}
      /\ frame \in [len : Lengths \cup {0}, sent : Nat]
  BY DEF TypeInv, RcvTypeOK
<1>2. frame.sent \in Nat /\ frame.len \in Nat
  <2>1. frame.sent \in Nat /\ frame.len \in Lengths \cup {0}
    BY <1>1
  <2>2. \A n \in Lengths \cup {0} : n \in Nat
    BY RcvAssumption
  <2> QED
    BY <2>1, <2>2
<1>3. Len(fifo) \in Nat
  BY <1>1
<1> QED
  BY <1>1, <1>2, <1>3

\* The start of silence: a thread that has just timed out has waited through it.
LEMMA SilentStep ==
    TypeInv /\ NoByteForgotten /\ FrameInv /\ [RcvNext]_vars => SilentInv'
<1> SUFFICES ASSUME TypeInv, NoByteForgotten, FrameInv, [RcvNext]_vars
             PROVE  SilentInv'
  OBVIOUS
<1>0. /\ WakeInv /\ WaitInv /\ SilentInv /\ timeout_cnt \in 0 .. 2
      /\ Len(fifo) \in Nat /\ frame.sent \in Nat /\ frame.len \in Nat
      /\ silence \in 0 .. Quiet /\ left \in Nat
      /\ pc \in {"Recv", "Suspended", "Read", "TimedOut", "Return"}
      /\ next_timeout \in {FirstWait, NextWait}
      /\ Quiet \in Nat /\ Pause \in Nat /\ Latency \in Nat
      /\ NextWait \in Nat /\ FirstWait \in Nat
      /\ Pause < 2 * NextWait /\ 2 * NextWait < Quiet /\ NextWait <= FirstWait
  BY Timing, WaitTypes DEF FrameInv, TypeInv
<1> USE DEF Blocked, Waiting, Woken, Ended, Taken, MidFrame
<1>1. ASSUME NEW n \in Lengths, Receive(n)
      PROVE  SilentInv'
  <2>1. /\ fifo' # <<>> /\ Len(fifo') = Len(fifo) + 1
        /\ silence' = 0 /\ timeout_cnt' = timeout_cnt
        /\ pc' = IF Blocked THEN "Read" ELSE pc
    BY <1>1, Received DEF Receive, SendEvent, locals
  <2>2. ASSUME Ended'
        PROVE  Taken' = 0
    <3>1. Ended
      BY <2>1, <2>2
    <3>2. CASE MidFrame
      <4>1. fifo # <<>>
        BY <3>1, <3>2, NotCut DEF FrameInv
      <4>2. Len(fifo) = frame.sent
        BY <1>0, <3>1, <4>1 DEF SilentInv
      <4>3. frame'.sent = frame.sent + 1
        BY <1>1, <3>2 DEF Receive
      <4> QED
        BY <1>0, <2>1, <4>2, <4>3
    <3>3. CASE ~MidFrame
      <4>1. ~Collecting /\ frame'.sent = 1
        BY <1>1, <3>3, QuietIdle DEF Receive, FrameInv
      <4>2. Len(fifo) = 0
        BY <4>1 DEF Collecting
      <4> QED
        BY <2>1, <4>1, <4>2
    <3> QED
      BY <3>2, <3>3
  <2> QED
    BY <1>0, <2>1, <2>2 DEF SilentInv
<1>2. ASSUME Tick
      PROVE  SilentInv'
  <2>1. /\ UNCHANGED <<fifo, frame, timeout_cnt>>
        /\ silence' = IF silence < Quiet THEN silence + 1 ELSE Quiet
        /\ MidFrame => silence < Pause
    BY <1>2 DEF Tick, driver, locals
  <2>2. CASE Blocked
    <3>1. left' = left - 1 /\ pc' = IF left = 1 THEN "TimedOut" ELSE pc
      BY <1>2, <2>2 DEF Tick
    <3> QED
      BY <1>0, <2>1, <2>2, <3>1 DEF SilentInv, WaitInv, WakeInv
  <2>3. CASE ~Blocked
    <3>1. UNCHANGED <<left, pc>>
      BY <1>2, <2>3 DEF Tick
    <3> QED
      BY <1>0, <2>1, <2>3, <3>1 DEF SilentInv
  <2> QED
    BY <2>2, <2>3
<1>3. ASSUME Recv
      PROVE  SilentInv'
  <2>1. UNCHANGED <<fifo, frame, silence, timeout_cnt>> /\ pc = "Recv"
    BY <1>3 DEF Recv, locals, line
  <2>2. CASE event
    BY <1>0, <1>3, <2>1, <2>2 DEF Recv, SilentInv
  <2>3. CASE ~event
    BY <1>0, <1>3, <2>1, <2>3 DEF Recv, SilentInv, WaitInv
  <2> QED
    BY <2>2, <2>3
<1>4. ASSUME ReadByte \/ ReadEmpty
      PROVE  SilentInv'
  <2>1. pc = "Read" /\ pc' \in {"Read", "Recv"} /\ UNCHANGED <<frame, silence>>
    BY <1>4 DEF ReadByte, ReadEmpty, line
  <2>2. pc' = "Recv" => timeout_cnt' = 0
    BY <1>0, <1>4 DEF ReadByte, ReadEmpty, locals, WakeInv
  <2> QED
    BY <1>0, <2>1, <2>2 DEF SilentInv
<1>5. ASSUME TimedOut
      PROVE  SilentInv'
  <2>1. UNCHANGED <<fifo, frame, silence>> /\ pc = "TimedOut"
        /\ timeout_cnt' = timeout_cnt + 1
        /\ pc' = IF timeout_cnt + 1 >= 2 THEN "Return" ELSE "Recv"
    BY <1>5 DEF TimedOut, driver, line
  <2> QED
    BY <1>0, <2>1 DEF SilentInv, WaitInv
<1>6. ASSUME Return
      PROVE  SilentInv'
  <2>1. UNCHANGED <<fifo, frame, silence>> /\ pc' = "Recv" /\ timeout_cnt' = 0
    BY <1>6 DEF Return, driver, line
  <2> QED
    BY <1>0, <2>1 DEF SilentInv
<1>7. ASSUME UNCHANGED vars
      PROVE  SilentInv'
  BY <1>0, <1>7 DEF SilentInv, vars, driver, locals, line
<1> QED
  BY <1>1, <1>2, <1>3, <1>4, <1>5, <1>6, <1>7 DEF RcvNext, Thread

\* The end of silence: the thread is not late.
LEMMA SoonStep ==
    TypeInv /\ NoByteForgotten /\ FrameInv /\ [RcvNext]_vars => SoonInv'
<1> SUFFICES ASSUME TypeInv, NoByteForgotten, FrameInv, [RcvNext]_vars
             PROVE  SoonInv'
  OBVIOUS
<1> USE DEF Blocked, Waiting, Woken
<1>0. /\ WakeInv /\ WaitInv /\ SoonInv /\ timeout_cnt \in 0 .. 2
      /\ silence \in 0 .. Quiet /\ left \in Nat /\ event \in BOOLEAN
      /\ pc \in {"Recv", "Suspended", "Read", "TimedOut", "Return"}
      /\ next_timeout \in {FirstWait, NextWait}
      /\ awake \in 0 .. Latency
      /\ Quiet \in Nat /\ Latency \in Nat
      /\ NextWait \in Nat /\ FirstWait \in Nat /\ NextWait <= FirstWait
  BY RcvAssumption, TimingAssumption DEF FrameInv, TypeInv, RcvTypeOK
<1>1. ASSUME NEW n \in Lengths, Receive(n)
      PROVE  SoonInv'
  BY <1>0, <1>1 DEF Receive, SendEvent, locals, SoonInv
<1>2. ASSUME Tick
      PROVE  SoonInv'
  <2>1. /\ UNCHANGED <<fifo, event, timeout_cnt>> /\ (Collecting' <=> Collecting)
        /\ silence' = silence \/ silence' = silence + 1
    BY <1>0, <1>2 DEF Tick, driver, locals, Collecting, MidFrame
  <2>2. CASE Blocked
    <3>1. /\ left' = left - 1 /\ pc' = IF left = 1 THEN "TimedOut" ELSE pc
          /\ awake' = 0
      BY <1>2, <2>2 DEF Tick
    <3>2. fifo' = <<>> /\ ~event' /\ pc' \in {"Suspended", "TimedOut"}
      BY <1>0, <2>1, <2>2, <3>1 DEF WakeInv
    <3>3. SUFFICES ASSUME Collecting'
                   PROVE  /\ Waiting(0)' => silence' + left' <= Latency + FirstWait
                          /\ Woken(0)'   => silence' <= Latency + FirstWait + awake'
                          /\ Waiting(1)' =>
                                silence' + left' <= 2 * Latency + FirstWait + NextWait
                          /\ Woken(1)'   =>
                                silence' <= 2 * Latency + FirstWait + NextWait + awake'
      BY <3>2 DEF SoonInv
    <3>4. /\ timeout_cnt = 0 => silence + left <= Latency + FirstWait
          /\ timeout_cnt = 1 => silence + left <= 2 * Latency + FirstWait + NextWait
      BY <1>0, <2>1, <2>2, <3>3 DEF SoonInv
    <3>5. left \in Nat /\ left # 0 /\ timeout_cnt' = timeout_cnt /\ pc = "Suspended"
      BY <1>0, <2>1, <2>2 DEF WaitInv
    <3> QED
      BY <1>0, <2>1, <3>1, <3>4, <3>5
  <2>3. CASE ~Blocked
    <3>1. left' = left /\ pc' = pc /\ awake' = awake + 1 /\ pc # "Suspended"
      BY <1>2, <2>3 DEF Tick
    <3>2. /\ silence' = silence \/ silence' = silence + 1
          /\ silence \in Nat /\ awake \in Nat
      BY <1>0, <2>1
    <3>3. SUFFICES ASSUME Collecting'
                   PROVE  SoonInv'
      BY DEF SoonInv
    <3>4. /\ fifo # <<>> \/ event \/ pc = "Read" \/ (pc = "Recv" /\ timeout_cnt = 0)
                => silence <= awake
          /\ Woken(0) => silence <= Latency + FirstWait + awake
          /\ Woken(1) => silence <= 2 * Latency + FirstWait + NextWait + awake
      BY <1>0, <2>1, <3>3 DEF SoonInv
    <3>5. fifo' # <<>> \/ event' \/ pc' = "Read" \/ (pc' = "Recv" /\ timeout_cnt' = 0)
            => silence' <= awake'
      <4>1. fifo' = fifo /\ event' = event /\ timeout_cnt' = timeout_cnt
        BY <2>1
      <4>2. fifo # <<>> \/ event \/ pc = "Read" \/ (pc = "Recv" /\ timeout_cnt = 0)
              => silence <= awake
        BY <3>4
      <4> QED
        BY <3>1, <3>2, <4>1, <4>2
    <3>6. /\ ~Waiting(0)' /\ ~Waiting(1)'
          /\ Woken(0)' = Woken(0) /\ Woken(1)' = Woken(1)
      BY <2>1, <3>1
    <3>7. /\ Woken(0)' => silence' <= Latency + FirstWait + awake'
          /\ Woken(1)' => silence' <= 2 * Latency + FirstWait + NextWait + awake'
      BY <1>0, <3>1, <3>2, <3>4, <3>6
    <3> QED
      BY <3>5, <3>6, <3>7 DEF SoonInv
  <2> QED
    BY <2>2, <2>3
<1>3. ASSUME Recv
      PROVE  SoonInv'
  <2>1. /\ UNCHANGED <<fifo, silence, timeout_cnt>> /\ pc = "Recv" /\ ~event'
        /\ (Collecting' <=> Collecting)
    BY <1>3 DEF Recv, locals, line, Collecting, MidFrame
  <2>2. CASE event
    <3>1. pc' = "Read" /\ awake' = awake
      BY <1>3, <2>2 DEF Recv
    <3> QED
      BY <1>0, <2>1, <2>2, <3>1 DEF SoonInv
  <2>3. CASE ~event
    <3>1. pc' = "Suspended" /\ left' = next_timeout /\ awake' = 0 /\ fifo = <<>>
      BY <1>3, <2>1, <2>3 DEF Recv, NoByteForgotten
    <3> QED
      BY <1>0, <2>1, <2>3, <3>1 DEF SoonInv, WaitInv, WakeInv
  <2> QED
    BY <2>2, <2>3
<1>4. ASSUME ReadByte \/ ReadEmpty
      PROVE  SoonInv'
  <2>1. /\ pc = "Read" /\ pc' \in {"Read", "Recv"} /\ UNCHANGED <<silence, awake>>
        /\ Collecting' => Collecting
    BY <1>4 DEF ReadByte, ReadEmpty, driver, locals, line, Collecting, MidFrame
  <2>2. pc' = "Recv" => timeout_cnt' = 0
    BY <1>0, <1>4 DEF ReadByte, ReadEmpty, locals, WakeInv
  <2> QED
    BY <1>0, <2>1, <2>2 DEF SoonInv
<1>5. ASSUME TimedOut
      PROVE  SoonInv'
  <2>1. /\ UNCHANGED <<fifo, event, silence, awake>> /\ pc = "TimedOut"
        /\ timeout_cnt' = timeout_cnt + 1 /\ (Collecting' <=> Collecting)
        /\ pc' = IF timeout_cnt + 1 >= 2 THEN "Return" ELSE "Recv"
    BY <1>5 DEF TimedOut, driver, line, Collecting, MidFrame
  <2> QED
    BY <1>0, <2>1 DEF SoonInv, WaitInv
<1>6. ASSUME Return
      PROVE  SoonInv'
  <2>1. /\ UNCHANGED <<fifo, event, silence, awake>> /\ pc = "Return"
        /\ pc' = "Recv" /\ timeout_cnt' = 0 /\ (Collecting' => Collecting)
        /\ Collecting' => MidFrame \/ fifo # <<>>
    BY <1>6 DEF Return, driver, line, Collecting, MidFrame
  <2>2. Collecting' => fifo # <<>>
    <3>1. fifo = <<>> => ~MidFrame
      BY <2>1, NotCut DEF FrameInv, Ended
    <3> QED
      BY <2>1, <3>1
  <2>3. Collecting' => silence' <= awake'
    BY <1>0, <2>1, <2>2 DEF SoonInv
  <2>4. pc' = "Recv" /\ timeout_cnt' = 0
    BY <2>1
  <2> QED
    BY <2>3, <2>4 DEF SoonInv
<1>7. ASSUME UNCHANGED vars
      PROVE  SoonInv'
  BY <1>0, <1>7 DEF SoonInv, vars, driver, locals, line, Collecting, MidFrame
<1> QED
  BY <1>1, <1>2, <1>3, <1>4, <1>5, <1>6, <1>7 DEF RcvNext, Thread

\* What a step that leaves fifo, frame and buffer alone keeps.
LEMMA ContentSame ==
    ASSUME ContentInv,
           UNCHANGED <<fifo, frame, counter, rx_buffer, rx_counter,
                       rev_valid_flg, unparsed>>
    PROVE  ContentInv'
BY DEF ContentInv, Collecting, Taken, MidFrame

\* The contents of fifo and buffer: one step per action that changes them.
LEMMA ContentStep ==
    TypeInv /\ NoByteForgotten /\ FrameInv /\ [RcvNext]_vars => ContentInv'
<1> SUFFICES ASSUME TypeInv, NoByteForgotten, FrameInv, [RcvNext]_vars
             PROVE  ContentInv'
  OBVIOUS
<1>0. /\ ContentInv /\ fifo \in Seq(Byte) /\ Len(fifo) \in Nat
      /\ frame \in [len : Lengths \cup {0}, sent : Nat]
      /\ frame.len \in Nat /\ frame.sent \in Nat /\ frame.sent <= frame.len
      /\ counter \in 0 .. BufLen /\ BufLen \in Nat \ {0}
      /\ rx_buffer \in [0 .. BufLen - 1 -> Byte \cup {NoByte}]
  <2>1. frame \in [len : Lengths \cup {0}, sent : Nat] /\ frame.sent <= frame.len
    BY DEF TypeInv, RcvTypeOK
  <2>2. frame.len \in Nat /\ frame.sent \in Nat
    <3>1. frame.len \in Lengths \cup {0} /\ frame.sent \in Nat
      BY <2>1
    <3>2. Lengths \cup {0} \subseteq Nat
      BY RcvAssumption
    <3> QED
      BY <3>1, <3>2
  <2>3. /\ ContentInv /\ fifo \in Seq(Byte) /\ counter \in 0 .. BufLen
        /\ rx_buffer \in [0 .. BufLen - 1 -> Byte \cup {NoByte}]
    BY DEF FrameInv, TypeInv, RcvTypeOK
  <2>4. BufLen \in Nat \ {0} /\ Len(fifo) \in Nat
    BY <2>3, RcvAssumption
  <2> QED
    BY <2>1, <2>2, <2>3, <2>4
<1>1. Taken \in Nat /\ Taken + Len(fifo) = frame.sent
  BY <1>0 DEF ContentInv, Taken
<1>2. ASSUME NEW n \in Lengths, Receive(n)
      PROVE  ContentInv'
  <2>1. /\ UNCHANGED <<counter, rx_buffer, rx_counter, rev_valid_flg>>
    BY <1>2 DEF Receive, locals, config
  <2>2. /\ fifo' = Append(fifo, [len |-> n, at |-> frame'.sent])
        /\ Len(fifo') = Len(fifo) + 1 /\ fifo' # <<>> /\ frame'.len = n
    BY <1>2, Received
  <2>3. Collecting'
    BY <2>2 DEF Collecting
  <2>0. ASSUME ~unparsed, unparsed'
         PROVE  ~MidFrame' /\ frame'.len <= BufLen
    <3>1. frame'.sent = n /\ n <= BufLen /\ n \in Nat
      BY <1>2, <2>0, RcvAssumption DEF Receive
    <3> QED
      BY <2>2, <3>1 DEF MidFrame
  <2>4. CASE MidFrame
    <3>1. frame'.len = frame.len /\ frame'.sent = frame.sent + 1
      BY <1>0, <1>2, <2>2, <2>4, Received DEF Collecting
    <3>2. Taken' = Taken
      BY <1>0, <2>2, <3>1 DEF Taken
    <3>3. Len(fifo') <= frame'.sent
      BY <1>0, <1>1, <2>2, <3>1
    <3>4. ASSUME NEW i \in 1 .. Len(fifo')
          PROVE  fifo'[i] = [len |-> frame'.len, at |-> Taken' + i]
      <4>1. CASE i = Len(fifo) + 1
        BY <1>0, <1>1, <2>2, <3>1, <3>2, <4>1
      <4>2. CASE i # Len(fifo) + 1
        <5>1. i \in 1 .. Len(fifo)
          BY <1>0, <2>2, <4>2
        <5> QED
          BY <1>0, <2>2, <3>1, <3>2, <5>1 DEF ContentInv
      <4> QED
        BY <4>1, <4>2
    <3>5. unparsed' => ~MidFrame' /\ frame'.len <= BufLen
      BY <1>0, <2>4, <2>0 DEF ContentInv
    <3>6. Collecting
      BY <2>4 DEF Collecting
    <3> QED
      BY <1>0, <2>1, <2>3, <3>1, <3>2, <3>3, <3>4, <3>5, <3>6 DEF ContentInv
  <2>5. CASE ~MidFrame
    <3>1. ~Collecting /\ frame'.sent = 1
      BY <1>2, <2>5, Received
    <3>2. Len(fifo) = 0 /\ counter = 0 /\ ~unparsed
      BY <1>0, <3>1 DEF Collecting, ContentInv
    <3>3. Taken' = 0 /\ Len(fifo') = 1
      BY <2>2, <3>1, <3>2 DEF Taken
    <3>4. fifo'[1] = [len |-> frame'.len, at |-> 1]
      BY <1>0, <2>2, <3>1, <3>2
    <3>5. unparsed' => ~MidFrame' /\ frame'.len <= BufLen
      BY <2>0, <3>2
    <3>6. \A i \in 1 .. Len(fifo') :
             fifo'[i] = [len |-> frame'.len, at |-> Taken' + i]
      BY <3>3, <3>4
    <3>7. Len(fifo') <= frame'.sent
      BY <3>1, <3>3
    <3>8. counter' = 0 /\ ~rev_valid_flg'
      BY <1>0, <2>1, <3>2 DEF ContentInv
    <3> QED
      BY <1>0, <2>1, <2>3, <3>3, <3>5, <3>6, <3>7, <3>8 DEF ContentInv
  <2> QED
    BY <2>4, <2>5
<1>3. ASSUME ReadByte
      PROVE  ContentInv'
  <2>1. fifo # <<>> /\ Collecting /\ Len(fifo) # 0
    BY <1>0, <1>3 DEF ReadByte, Collecting
  <2>2. /\ fifo' = Tail(fifo) /\ Len(fifo') = Len(fifo) - 1
        /\ UNCHANGED <<frame, unparsed>>
    BY <1>0, <1>3, <2>1 DEF ReadByte, line
  <2>3. Taken' = Taken + 1 /\ (MidFrame' <=> MidFrame)
    <3>1. frame.sent - (Len(fifo) - 1) = frame.sent - Len(fifo) + 1
      BY <1>0
    <3> QED
      BY <2>2, <3>1 DEF Taken, MidFrame
  <2>4. Len(fifo') <= frame'.sent
    BY <1>0, <2>1, <2>2 DEF ContentInv
  <2>5. \A i \in 1 .. Len(fifo') :
           fifo'[i] = [len |-> frame'.len, at |-> Taken' + i]
    <3> SUFFICES ASSUME NEW i \in 1 .. Len(fifo')
                 PROVE  fifo'[i] = [len |-> frame'.len, at |-> Taken' + i]
      OBVIOUS
    <3>1. i + 1 \in 1 .. Len(fifo) /\ fifo'[i] = fifo[i + 1]
      BY <1>0, <2>1, <2>2
    <3>2. fifo[i + 1] = [len |-> frame.len, at |-> Taken + (i + 1)]
      BY <1>0, <3>1 DEF ContentInv
    <3>3. Taken + (i + 1) = Taken' + i
      BY <1>0, <1>1, <2>2, <2>3
    <3> QED
      BY <2>2, <3>1, <3>2, <3>3
  <2>6. counter <= Taken /\ (Taken <= BufLen => counter = Taken)
    BY <1>0, <2>1 DEF ContentInv
  <2>7. CASE Full
    <3>1. counter' = 0 /\ ~rev_valid_flg' /\ Taken + 1 > BufLen
      BY <1>0, <1>1, <1>3, <2>6, <2>7 DEF ReadByte, Full
    <3>2. ~unparsed
      <4>1. frame.sent > BufLen
        BY <1>0, <1>1, <2>1, <3>1
      <4> QED
        BY <1>0, <4>1 DEF ContentInv
    <3> QED
      BY <1>0, <1>1, <2>2, <2>3, <2>4, <2>5, <3>1, <3>2 DEF ContentInv
  <2>8. CASE ~Full
    <3>1. /\ counter' = counter + 1 /\ rev_valid_flg' /\ rx_counter' = counter + 1
          /\ rx_buffer' = [rx_buffer EXCEPT ![counter] = Head(fifo)]
          /\ counter \in 0 .. BufLen - 1
      BY <1>0, <1>3, <2>8 DEF ReadByte, Full
    <3>2. counter' # 0 /\ Collecting'
      BY <1>0, <3>1 DEF Collecting
    <3>3. counter' <= Taken' /\ (Taken' <= BufLen => counter' = Taken')
      BY <1>0, <1>1, <2>3, <2>6, <3>1
    <3>4. ASSUME NEW i \in 0 .. counter' - 1
          PROVE  rx_buffer'[i] = [len |-> frame'.len,
                                  at  |-> Taken' - counter' + 1 + i]
      <4>1. Taken' - counter' + 1 + i = Taken - counter + 1 + i /\ i \in 0 .. counter
        BY <1>0, <1>1, <2>3, <3>1
      <4>2. CASE i = counter
        <5>1. rx_buffer'[i] = fifo[1]
          BY <1>0, <2>1, <3>1, <4>2
        <5>2. fifo[1] = [len |-> frame.len, at |-> Taken + 1]
          BY <1>0, <2>1 DEF ContentInv
        <5>3. Taken - counter + 1 + i = Taken + 1
          BY <1>0, <1>1, <4>2
        <5> QED
          BY <2>2, <4>1, <5>1, <5>2, <5>3
      <4>3. CASE i # counter
        <5>1. i \in 0 .. counter - 1 /\ rx_buffer'[i] = rx_buffer[i]
          BY <1>0, <3>1, <4>1, <4>3
        <5> QED
          BY <1>0, <2>2, <4>1, <5>1 DEF ContentInv
      <4> QED
        BY <4>2, <4>3
    <3>5. unparsed' => ~MidFrame' /\ frame'.len <= BufLen
      BY <1>0, <2>2, <2>3 DEF ContentInv
    <3>6. rx_counter' = counter'
      BY <3>1
    <3> QED
      BY <2>4, <2>5, <3>1, <3>2, <3>3, <3>4, <3>5, <3>6 DEF ContentInv
  <2> QED
    BY <2>7, <2>8
<1>4. ASSUME Return
      PROVE  ContentInv'
  <2>1. /\ pc = "Return" /\ counter' = 0 /\ ~rev_valid_flg'
        /\ unparsed' = (unparsed /\ ~rev_valid_flg)
        /\ UNCHANGED <<fifo, frame, rx_buffer>>
    BY <1>4 DEF Return, driver, config, line
  <2>2. Taken' = Taken /\ (MidFrame' <=> MidFrame)
    BY <2>1 DEF Taken, MidFrame
  <2>3. CASE fifo = <<>>
    <3>1. ~MidFrame /\ Len(fifo) = 0
      BY <2>1, <2>3, NotCut DEF FrameInv, Ended
    <3>2. ~Collecting'
      BY <2>1, <2>2, <2>3, <3>1 DEF Collecting
    <3>3. ~unparsed'
      BY <1>0, <2>1, <2>3, <3>1 DEF ContentInv, Collecting
    <3> QED
      BY <1>0, <2>1, <2>2, <3>1, <3>2, <3>3 DEF ContentInv
  <2>4. CASE fifo # <<>>
    <3>1. Taken = 0 /\ Collecting
      BY <2>1, <2>4 DEF FrameInv, SilentInv, Ended, Collecting
    <3>2. counter = 0
      BY <1>0, <3>1 DEF ContentInv
    <3>3. unparsed' = unparsed
      <4>1. ~rev_valid_flg
        BY <1>0, <3>2 DEF ContentInv
      <4>2. unparsed \in BOOLEAN
        BY DEF TypeInv, RcvTypeOK
      <4> QED
        BY <2>1, <4>1, <4>2
    <3>4. Collecting'
      BY <2>1, <2>4 DEF Collecting
    <3> QED
      BY <1>0, <2>1, <2>2, <3>1, <3>2, <3>3, <3>4 DEF ContentInv
  <2> QED
    BY <2>3, <2>4
<1>5. ASSUME Tick \/ Recv \/ ReadEmpty \/ TimedOut \/ UNCHANGED vars
      PROVE  ContentInv'
  <2>1. UNCHANGED <<fifo, frame, counter, rx_buffer, rx_counter,
                    rev_valid_flg, unparsed>>
    BY <1>5 DEF Tick, Recv, ReadEmpty, TimedOut, vars, driver, locals, config, line
  <2> QED
    BY <1>0, <2>1, ContentSame
<1> QED
  BY <1>2, <1>3, <1>4, <1>5 DEF RcvNext, Thread

\* What is proved of the receiver is inductive.
LEMMA RcvInvInit == RcvInit => RcvInv
<1>1. RcvInit => NoByteForgotten
  BY DEF RcvInit, NoByteForgotten
<1> QED
  BY <1>1, TypeInit, FrameInit DEF RcvInv

LEMMA RcvInvStep == RcvInv /\ [RcvNext]_vars => RcvInv'
<1> SUFFICES ASSUME RcvInv, [RcvNext]_vars
             PROVE  RcvInv'
  OBVIOUS
<1>1. TypeInv /\ NoByteForgotten /\ FrameInv
  BY DEF RcvInv
<1>2. TypeInv'
  BY <1>1, TypeStep
<1>3. NoByteForgotten'
  BY <1>1, ForgottenStep
<1>4. FrameInv'
  BY <1>1, WakeStep, FifoStep, ContentStep, SilentStep, SoonStep DEF FrameInv
<1> QED
  BY <1>2, <1>3, <1>4 DEF RcvInv

\* Between the line and the buffer no byte of a frame is lost, doubled or
\* moved, and the thread is never asleep beyond the silence that follows it
\* (rcv_process.c:66-141).
THEOREM RcvInductive == RcvSpec => []RcvInv
BY RcvInvInit, RcvInvStep, PTL DEF RcvSpec

\* When the second timeout has expired on bytes in the buffer, the frame has
\* ended and is read; the buffer runs up to its last byte, and from its first
\* one if it fits.
LEMMA Collected ==
    ASSUME RcvInv, Ended, counter # 0
    PROVE  /\ fifo = <<>> /\ ~MidFrame
           /\ frame.len \in Nat /\ counter \in Nat /\ BufLen \in Nat
           /\ rx_counter = counter /\ counter \in 1 .. frame.len
           /\ counter <= BufLen
           /\ \A i \in 0 .. counter - 1 :
                 rx_buffer[i] = [len |-> frame.len,
                                 at  |-> frame.len + 1 + i - counter]
           /\ frame.len <= BufLen => counter = frame.len
<1>1. TypeInv /\ ContentInv /\ SilentInv
  BY DEF RcvInv, FrameInv
<1>2. /\ counter \in 0 .. BufLen /\ BufLen \in Nat /\ frame.sent <= frame.len
      /\ frame \in [len : Lengths \cup {0}, sent : Nat] /\ fifo \in Seq(Byte)
  BY <1>1, RcvAssumption DEF TypeInv, RcvTypeOK
<1>3. frame.len \in Nat /\ frame.sent \in Nat
  <2>1. frame.len \in Lengths \cup {0} /\ frame.sent \in Nat
    BY <1>2
  <2>2. Lengths \cup {0} \subseteq Nat
    BY RcvAssumption
  <2> QED
    BY <2>1, <2>2
<1>4. Collecting /\ rx_counter = counter
  BY <1>1 DEF ContentInv, Collecting
<1>5. counter <= Taken /\ (Taken <= BufLen => counter = Taken)
  BY <1>1, <1>4 DEF ContentInv
<1>6. fifo = <<>>
  <2>1. fifo # <<>> => Taken = 0
    BY <1>1 DEF SilentInv
  <2> QED
    BY <1>2, <1>4, <1>5, <2>1
<1>7. ~MidFrame
  BY <1>1, <1>6, NotCut
<1>8. Taken = frame.len
  BY <1>2, <1>3, <1>6, <1>7 DEF Taken, MidFrame
<1>9. ASSUME NEW i \in 0 .. counter - 1
      PROVE  rx_buffer[i] = [len |-> frame.len,
                             at  |-> frame.len + 1 + i - counter]
  <2>1. rx_buffer[i] = [len |-> frame.len, at |-> Taken - counter + 1 + i]
    BY <1>1 DEF ContentInv
  <2>2. Taken - counter + 1 + i = frame.len + 1 + i - counter
    BY <1>2, <1>3, <1>8
  <2> QED
    BY <2>1, <2>2
<1> QED
  BY <1>2, <1>3, <1>4, <1>5, <1>6, <1>7, <1>8, <1>9

\* That is what subpackage gets, when the thread calls it.
LEMMA Delivered ==
    ASSUME RcvInv, Parsing
    PROVE  /\ rx_counter = counter /\ counter \in 1 .. frame.len
           /\ \A i \in 0 .. counter - 1 :
                 rx_buffer[i] = [len |-> frame.len,
                                 at  |-> frame.len + 1 + i - counter]
           /\ frame.len <= BufLen => counter = frame.len
<1>1. Ended /\ counter # 0
  BY DEF RcvInv, FrameInv, ContentInv, Parsing, Ended
<1> QED
  BY <1>1, Collected

\* What a parser gets is the end of one frame, in order and without a byte of
\* an earlier one, although uart_get_cnt_data never clears rx_buffer: for every
\* set of lengths, every buffer and every schedule within the timing.
THEOREM FrameEndParsed == RcvSpec => []ParsesFrameEnd
<1>1. RcvInv => ParsesFrameEnd
  <2> SUFFICES ASSUME RcvInv, Parsing
               PROVE  /\ rx_counter = counter
                      /\ LET last == rx_buffer[rx_counter - 1] IN
                         /\ last.at = last.len
                         /\ \A i \in 0 .. rx_counter - 1 :
                               rx_buffer[i] = [len |-> last.len,
                                               at  |-> last.len + 1 + i - rx_counter]
    BY DEF ParsesFrameEnd
  <2>1. rx_counter = counter /\ counter \in 1 .. frame.len
    BY Delivered
  <2>2. frame.len \in Nat /\ counter \in Nat
    <3>1. frame \in [len : Lengths \cup {0}, sent : Nat]
      BY DEF RcvInv, TypeInv, RcvTypeOK
    <3>2. frame.len \in Lengths \cup {0}
      BY <3>1
    <3>3. Lengths \cup {0} \subseteq Nat
      BY RcvAssumption
    <3>4. frame.len \in Nat
      BY <3>2, <3>3
    <3> QED
      BY <2>1, <3>4
  <2>3. rx_buffer[rx_counter - 1] =
           [len |-> frame.len, at |-> frame.len + 1 + (counter - 1) - counter]
    BY <2>1, <2>2, Delivered
  <2>4. frame.len + 1 + (counter - 1) - counter = frame.len
    BY <2>2
  <2>5. rx_buffer[rx_counter - 1] = [len |-> frame.len, at |-> frame.len]
    BY <2>3, <2>4
  <2>6. /\ rx_buffer[rx_counter - 1].len = frame.len
        /\ rx_buffer[rx_counter - 1].at = frame.len
    BY <2>5
  <2> QED
    BY <2>1, <2>6, Delivered
<1> QED
  BY <1>1, RcvInductive, PTL

\* A frame that fits into rx_buffer is handed over from its first byte on:
\* neither a pause inside it nor a thread that is scheduled late cuts it.
THEOREM WholeFrameParsed == RcvSpec => []ParsesWholeFrame
<1>1. RcvInv => ParsesWholeFrame
  <2> SUFFICES ASSUME RcvInv, Parsing, rx_buffer[rx_counter - 1].len <= BufLen
               PROVE  rx_buffer[0].at = 1
    BY DEF ParsesWholeFrame
  <2>1. /\ rx_counter = counter /\ counter \in 1 .. frame.len
        /\ frame.len <= BufLen => counter = frame.len
    BY Delivered
  <2>2. counter \in Nat /\ counter # 0
    <3>1. counter \in 0 .. BufLen /\ BufLen \in Nat
      BY RcvAssumption DEF RcvInv, TypeInv, RcvTypeOK
    <3>2. counter # 0
      BY DEF RcvInv, FrameInv, ContentInv, Parsing
    <3> QED
      BY <3>1, <3>2
  <2>3. counter - 1 \in 0 .. counter - 1 /\ 0 \in 0 .. counter - 1
    BY <2>2
  <2>4. rx_buffer[counter - 1].len = frame.len
    <3>1. rx_buffer[counter - 1] =
             [len |-> frame.len, at |-> frame.len + 1 + (counter - 1) - counter]
      BY <2>3, Delivered
    <3> QED
      BY <3>1
  <2>5. counter = frame.len
    BY <2>1, <2>4
  <2>6. rx_buffer[0] = [len |-> frame.len, at |-> frame.len + 1 + 0 - counter]
    BY <2>3, Delivered
  <2>7. frame.len + 1 + 0 - counter = 1
    BY <2>2, <2>5
  <2> QED
    BY <2>6, <2>7
<1> QED
  BY <1>1, RcvInductive, PTL

\* No frame that fits is lost or waits: when the controller may send the next
\* one, uart_get_cnt_data has timed out twice and returned the last.
THEOREM FrameParsedInTime == RcvSpec => []ParsedInTime
<1>1. RcvInv => ParsedInTime
  <2> SUFFICES ASSUME RcvInv, silence = Quiet, unparsed
               PROVE  FALSE
    BY DEF ParsedInTime
  <2>1. ~Collecting
    BY QuietIdle DEF RcvInv, FrameInv
  <2>2. Collecting
    BY DEF RcvInv, FrameInv, ContentInv
  <2> QED
    BY <2>1, <2>2
<1> QED
  BY <1>1, RcvInductive, PTL

-----------------------------------------------------------------------------
(***************************************************************************)
(* The receiver implements Delivery, step by step.                         *)
(***************************************************************************)

\* What is in the buffer when the thread leaves its loop is an end of the
\* frame, as Delivery has it.
LEMMA ArgumentIsEnd ==
    ASSUME RcvInv, Ended, counter # 0
    PROVE  [i \in 1 .. rx_counter |-> rx_buffer[i - 1]] =
               Parsers!End(frame.len, counter)
<1>1. /\ frame.len \in Nat /\ counter \in Nat /\ rx_counter = counter
      /\ \A i \in 0 .. counter - 1 :
            rx_buffer[i] = [len |-> frame.len, at |-> frame.len + 1 + i - counter]
  BY Collected
<1>2. ASSUME NEW i \in 1 .. counter
      PROVE  rx_buffer[i - 1] = [len |-> frame.len, at |-> frame.len - counter + i]
  <2>1. i - 1 \in 0 .. counter - 1
    BY <1>1
  <2>2. frame.len + 1 + (i - 1) - counter = frame.len - counter + i
    BY <1>1
  <2> QED
    BY <1>1, <2>1, <2>2
<1> QED
  BY <1>1, <1>2 DEF Parsers!End

\* A call has an argument.
LEMMA EndIsSomething ==
    ASSUME NEW n, NEW m \in Nat, m # 0
    PROVE  Parsers!End(n, m) # <<>>
<1>1. DOMAIN Parsers!End(n, m) = 1 .. m
  BY DEF Parsers!End
<1>2. 1 \in 1 .. m
  OBVIOUS
<1>3. DOMAIN <<>> = 1 .. 0 /\ 1 \notin 1 .. 0
  OBVIOUS
<1> QED
  BY <1>1, <1>2, <1>3

LEMMA ParsingIs ==
    ASSUME RcvInv, Parsing
    PROVE  /\ Ended /\ counter # 0 /\ fifo = <<>> /\ ~MidFrame
           /\ Argument # <<>> /\ Argument = Parsers!End(frame.len, counter)
<1>1. Ended /\ counter # 0
  BY DEF RcvInv, FrameInv, ContentInv, Parsing, Ended
<1>2. counter \in Nat /\ fifo = <<>> /\ ~MidFrame
  BY <1>1, Collected
<1>3. Argument = Parsers!End(frame.len, counter)
  BY <1>1, ArgumentIsEnd DEF Argument
<1> QED
  BY <1>1, <1>2, <1>3, EndIsSomething

\* While a parser has the processor, no byte can arrive.
LEMMA NotWhileParsing ==
    ASSUME RcvInv, NEW n \in Lengths, Receive(n)
    PROVE  ~Parsing /\ ~Parsing'
<1>1. ~Parsing
  <2>1. ~MidFrame => ~Collecting
    BY QuietIdle DEF Receive, RcvInv, FrameInv
  <2>2. Parsing => ~MidFrame /\ Collecting
    BY ParsingIs DEF Collecting
  <2> QED
    BY <2>1, <2>2
<1>2. (pc' = "Return" => pc = "Return") /\ rev_valid_flg' = rev_valid_flg
  BY DEF Receive, SendEvent, locals
<1> QED
  BY <1>1, <1>2 DEF Parsing

\* The last byte of a frame is Arrive, the others are nothing yet.
LEMMA ReceiveDelivers ==
    ASSUME RcvInv, NEW n \in Lengths, Receive(n)
    PROVE  Parsers!Arrive(n) \/ UNCHANGED Parsers!deliveryVars
<1>1. Argument = <<>> /\ Argument' = <<>>
  BY NotWhileParsing DEF Argument
<1>2. Pending = 0
  <2>1. MidFrame \/ ~Collecting
    BY Received DEF RcvInv
  <2> QED
    BY <2>1 DEF Pending
<1>3. fifo' # <<>> /\ frame'.len = n
  BY Received DEF RcvInv
<1>4. Pending' \in {0, n}
  BY <1>3 DEF Pending
<1> QED
  BY <1>1, <1>2, <1>4 DEF Parsers!Arrive, Parsers!deliveryVars

\* The byte that starts the buffer again may be the last one of a frame, which
\* is then longer than the buffer.
LEMMA ReadByteDelivers ==
    ASSUME RcvInv, ReadByte
    PROVE  Parsers!Drop \/ UNCHANGED Parsers!deliveryVars
<1>1. Argument = <<>> /\ Argument' = <<>>
  BY DEF ReadByte, Argument, Parsing
<1>2. /\ fifo # <<>> /\ fifo' = Tail(fifo) /\ frame' = frame
      /\ Full => counter' = 0
      /\ ~Full => counter' = counter + 1
  BY DEF ReadByte, line
<1>3. Collecting /\ (MidFrame' <=> MidFrame)
  BY <1>2 DEF Collecting, MidFrame
<1>4. /\ counter \in Nat /\ frame.len \in Nat /\ frame.sent \in Nat
      /\ BufLen \in Nat /\ fifo \in Seq(Byte)
  BY RcvAssumption DEF RcvInv, TypeInv, RcvTypeOK
<1>5. CASE Collecting'
  <2>1. Pending' = Pending
    BY <1>2, <1>3, <1>5 DEF Pending
  <2> QED
    BY <1>1, <2>1 DEF Parsers!deliveryVars
<1>6. CASE ~Collecting'
  <2>1. ~MidFrame /\ fifo' = <<>> /\ counter' = 0
    BY <1>3, <1>6 DEF Collecting
  <2>2. Full
    BY <1>2, <1>4, <2>1
  <2>3. Len(fifo) = 1
    <3>1. Len(Tail(fifo)) = Len(fifo) - 1 /\ Len(fifo) \in Nat
      BY <1>2, <1>4
    <3>2. Len(<<>>) = 0
      OBVIOUS
    <3>3. Len(Tail(fifo)) = 0
      BY <1>2, <2>1, <3>2, Zenon
    <3> QED
      BY <3>1, <3>3
  <2>4. counter <= frame.sent - 1
    BY <1>3, <2>3 DEF RcvInv, FrameInv, ContentInv, Taken
  <2>5. frame.sent <= frame.len
    BY DEF RcvInv, TypeInv, RcvTypeOK
  <2>6. frame.len > BufLen
    BY <1>4, <2>2, <2>4, <2>5 DEF Full
  <2>7. Pending = frame.len /\ Pending' = 0
    BY <1>3, <1>6, <2>1 DEF Pending
  <2> QED
    BY <1>1, <2>6, <2>7 DEF Parsers!Drop
<1> QED
  BY <1>5, <1>6

\* The second timeout in a row hands over what the buffer holds.
LEMMA TimedOutDelivers ==
    ASSUME RcvInv, TimedOut
    PROVE  Parsers!HandOver \/ UNCHANGED Parsers!deliveryVars
<1>1. Argument = <<>>
  BY DEF TimedOut, Argument, Parsing
<1>2. UNCHANGED <<fifo, counter, rev_valid_flg, rx_buffer, rx_counter, frame>>
  BY DEF TimedOut, driver, config, line
<1>3. Pending' = Pending
  BY <1>2 DEF Pending, Collecting, MidFrame
<1>4. CASE ~Parsing'
  <2>1. Argument' = <<>>
    BY <1>4 DEF Argument
  <2> QED
    BY <1>1, <1>3, <2>1 DEF Parsers!deliveryVars
<1>5. CASE Parsing'
  <2>1. pc' = "Return" /\ rev_valid_flg
    BY <1>2, <1>5 DEF Parsing
  <2>2. timeout_cnt \in 0 .. 2 /\ timeout_cnt # 2
    BY DEF RcvInv, TypeInv, RcvTypeOK, WaitInv, TimedOut
  <2>3. Ended
    BY <2>1, <2>2 DEF TimedOut, Ended
  <2>4. counter # 0
    BY <2>1 DEF RcvInv, FrameInv, ContentInv
  <2>5. /\ ~MidFrame /\ frame.len \in Nat /\ counter \in 1 .. frame.len
        /\ counter <= BufLen /\ (frame.len <= BufLen => counter = frame.len)
    BY <2>3, <2>4, Collected
  <2>6. Pending = frame.len /\ Pending # 0
    BY <2>4, <2>5 DEF Pending, Collecting
  <2>7. Argument' = Parsers!End(frame.len, counter)
    BY <1>2, <1>5, <2>3, <2>4, ArgumentIsEnd DEF Argument
  <2> QED
    BY <1>1, <1>3, <2>5, <2>6, <2>7 DEF Parsers!HandOver
<1> QED
  BY <1>4, <1>5

\* The call of a parser returns, or there was none.
LEMMA ReturnDelivers ==
    ASSUME RcvInv, Return
    PROVE  Parsers!Parsed \/ UNCHANGED Parsers!deliveryVars
<1>1. Argument' = <<>>
  BY DEF Return, Argument, Parsing
<1>2. fifo' = fifo /\ frame' = frame /\ counter' = 0
  BY DEF Return, driver, line
<1>3. CASE rev_valid_flg
  <2>1. Parsing
    BY <1>3 DEF Return, Parsing
  <2>2. fifo = <<>> /\ ~MidFrame /\ Argument # <<>>
    BY <2>1, ParsingIs
  <2>3. Pending' = 0
    BY <1>2, <2>2 DEF Pending, Collecting, MidFrame
  <2> QED
    BY <1>1, <2>2, <2>3 DEF Parsers!Parsed
<1>4. CASE ~rev_valid_flg
  <2>1. Argument = <<>>
    BY <1>4 DEF Argument, Parsing
  <2>2. counter = 0
    BY <1>4 DEF RcvInv, FrameInv, ContentInv
  <2>3. Pending' = Pending
    BY <1>2, <2>2 DEF Pending, Collecting, MidFrame
  <2> QED
    BY <1>1, <2>1, <2>3 DEF Parsers!deliveryVars
<1> QED
  BY <1>3, <1>4

\* The others change nothing that Delivery knows of.
LEMMA OthersDeliver ==
    ASSUME RcvInv, Tick \/ Recv \/ ReadEmpty \/ UNCHANGED vars
    PROVE  UNCHANGED Parsers!deliveryVars
<1>1. UNCHANGED <<fifo, counter, rev_valid_flg, rx_buffer, rx_counter, frame>>
  BY DEF Tick, Recv, ReadEmpty, vars, driver, locals, config, line
<1>2. pc' = "Return" <=> pc = "Return"
  BY DEF Tick, Recv, ReadEmpty, vars, Blocked
<1>3. Pending' = Pending
  BY <1>1 DEF Pending, Collecting, MidFrame
<1>4. Argument' = Argument
  BY <1>1, <1>2 DEF Argument, Parsing
<1> QED
  BY <1>3, <1>4 DEF Parsers!deliveryVars

\* Interrupt, event, timeouts and buffer together deliver every frame that
\* fits once, whole, and before the next one: uart_get_cnt_data and subpackage
\* implement Delivery, for all lengths, buffers and schedules within the timing.
THEOREM FramesDelivered == RcvSpec => DeliversFrames
<1>1. RcvInit => Parsers!DeliveryInit
  BY DEF RcvInit, Parsers!DeliveryInit, Pending, Argument, Parsing, Collecting,
         MidFrame
<1>2. RcvInv /\ [RcvNext]_vars => [Parsers!DeliveryNext]_Parsers!deliveryVars
  <2> SUFFICES ASSUME RcvInv, [RcvNext]_vars
               PROVE  [Parsers!DeliveryNext]_Parsers!deliveryVars
    OBVIOUS
  <2>1. ASSUME NEW n \in Lengths, Receive(n)
        PROVE  [Parsers!DeliveryNext]_Parsers!deliveryVars
    BY <2>1, ReceiveDelivers DEF Parsers!DeliveryNext
  <2>2. CASE ReadByte
    BY <2>2, ReadByteDelivers DEF Parsers!DeliveryNext
  <2>3. CASE TimedOut
    BY <2>3, TimedOutDelivers DEF Parsers!DeliveryNext
  <2>4. CASE Return
    BY <2>4, ReturnDelivers DEF Parsers!DeliveryNext
  <2>5. CASE Tick \/ Recv \/ ReadEmpty \/ UNCHANGED vars
    BY <2>5, OthersDeliver
  <2> QED
    BY <2>1, <2>2, <2>3, <2>4, <2>5 DEF RcvNext, Thread
<1> QED
  BY <1>1, <1>2, RcvInductive, PTL DEF RcvSpec, DeliversFrames, Parsers!DeliverySpec
=============================================================================
