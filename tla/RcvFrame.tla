------------------------------- MODULE RcvFrame -------------------------------
(***************************************************************************)
(* The receiver (applications/rcv_process.c): the UART interrupt puts bytes *)
(* into the fifo of the serial driver and sends an event; the thread        *)
(* "rcv_process" collects them in rx_buffer until the line has been silent  *)
(* for two timeouts, and hands what it collected to a parser.               *)
(*                                                                         *)
(* The controller sends frames.  What matters of a byte is where in which   *)
(* frame it stands; time is counted in ticks of 10 ms.                      *)
(***************************************************************************)
EXTENDS Naturals, Sequences, FiniteSets

CONSTANTS
    Lengths,     \* the lengths of frames the controller sends
    BufLen,      \* bytes in rx_buffer: 512 in the code
    FifoLen,     \* bytes the driver's fifo holds: RT_SERIAL_RB_BUFSZ - 1 = 127
    FirstWait,   \* the first timeout in ticks: RT_TICK_PER_SECOND / 5 = 20
    NextWait,    \* the timeout after one that has expired: 2
    Rate,        \* bytes that fit on the line in a tick: 10 at 9600 baud
    Pause,       \* the longest pause of the controller inside a frame, in ticks
    Quiet,       \* the shortest pause between two frames
    Latency      \* ticks until the thread, once woken, blocks again

ASSUME RcvAssumption ==
    /\ Lengths \subseteq Nat \ {0}
    /\ BufLen \in Nat \ {0} /\ FifoLen \in Nat \ {0}
    /\ FirstWait \in Nat \ {0} /\ NextWait \in Nat \ {0}
    /\ Rate \in Nat /\ Pause \in Nat /\ Quiet \in Nat /\ Latency \in Nat

\* The fifo takes what fits on the line until the thread has read it; inside a
\* frame the line pauses for less than two short timeouts, and between frames
\* for more than both timeouts and the delays around them.
ASSUME TimingAssumption ==
    /\ Rate * (Latency + 1) <= FifoLen
    /\ NextWait <= FirstWait
    /\ Pause < 2 * NextWait
    /\ FirstWait + NextWait + 3 * Latency < Quiet

VARIABLES
    fifo,          \* the driver's receive fifo
    event,         \* UART_CNT_RX_EVENT of rcv_event
    pc,            \* where in uart_get_cnt_data the thread is
    left,          \* ticks until the timer of rt_event_recv expires
    next_timeout, timeout_cnt, counter, rev_valid_flg,
    rx_buffer, rx_counter

\* The line and the scheduler.
VARIABLES
    frame,         \* [len, sent]: the frame on the line, or the last one
    burst,         \* bytes received since the last tick
    silence,       \* ticks since the last byte, up to Quiet
    awake,         \* ticks since the thread was woken
    unparsed       \* (history) a frame that fits has ended and is not parsed yet

driver == <<fifo, event>>
locals == <<next_timeout, timeout_cnt, counter, rev_valid_flg>>
config == <<rx_buffer, rx_counter>>
line   == <<frame, burst, silence>>

vars == <<driver, pc, left, locals, config, line, awake, unparsed>>

Byte == UNION {[len : {n}, at : 1 .. n] : n \in Lengths}

MidFrame == frame.sent < frame.len
Blocked  == pc = "Suspended"

-----------------------------------------------------------------------------
(***************************************************************************)
(* The interrupt.  UART_IT_IDLE is not enabled, so the handler only comes   *)
(* for a byte, and the size it reports is never zero.                       *)
(***************************************************************************)

\* The oldest byte makes room for a new one.
Push(b) == IF Len(fifo) < FifoLen THEN Append(fifo, b)
                                  ELSE Append(Tail(fifo), b)

\* rt_event_send: a thread that waits takes the event and is made ready;
\* otherwise the event stays set.
SendEvent ==
    /\ pc' = IF Blocked THEN "Read" ELSE pc
    /\ event' = (event \/ ~Blocked)

\* One byte on the line: getc, the fifo, uart_intput.
Receive(n) ==
    LET at == IF MidFrame THEN frame.sent + 1 ELSE 1 IN
    /\ burst < Rate
    /\ IF MidFrame THEN n = frame.len ELSE silence = Quiet
    /\ frame' = [len |-> n, sent |-> at]
    /\ burst' = burst + 1
    /\ silence' = 0
    /\ unparsed' = (unparsed \/ (at = n /\ n <= BufLen))
    /\ fifo' = Push([len |-> n, at |-> at])
    /\ SendEvent
    /\ UNCHANGED <<left, locals, config, awake>>

\* The tick interrupt: rt_thread_timeout wakes the thread when its timer
\* expires.  The controller does not stop longer than Pause inside a frame, and
\* the scheduler does not leave the thread waiting longer than Latency.
Tick ==
    /\ MidFrame => silence < Pause
    /\ Blocked \/ awake < Latency
    /\ burst' = 0
    /\ silence' = IF silence < Quiet THEN silence + 1 ELSE Quiet
    /\ IF Blocked
       THEN /\ left' = left - 1
            /\ pc' = IF left = 1 THEN "TimedOut" ELSE pc
            /\ awake' = 0
       ELSE /\ awake' = awake + 1
            /\ UNCHANGED <<left, pc>>
    /\ UNCHANGED <<driver, locals, config, frame, unparsed>>

-----------------------------------------------------------------------------
(***************************************************************************)
(* uart_get_cnt_data.                                                      *)
(***************************************************************************)

\* Mutant: an event that was set before the call is not looked at.
Recv_NoTest ==
    /\ pc = "Recv"
    /\ pc' = "Suspended"
    /\ left' = next_timeout
    /\ event' = FALSE
    /\ awake' = 0
    /\ UNCHANGED <<fifo, locals, config, line, unparsed>>

\* rt_event_recv takes an event that is set, or suspends the thread.
Recv ==
    /\ pc = "Recv"
    /\ pc' = IF event THEN "Read" ELSE "Suspended"
    /\ left' = IF event THEN left ELSE next_timeout
    /\ event' = FALSE
    /\ awake' = IF event THEN awake ELSE 0
    /\ UNCHANGED <<fifo, locals, config, line, unparsed>>

\* Mutant: the comparison leaves room for one byte more.
Full_Late == counter > BufLen

\* The counter has passed the last byte of the buffer.
Full == counter >= BufLen

\* Mutants: a buffer that was started again still counts as valid; a byte does
\* not break a row of timeouts.
ReadByte_With(restarted, timeouts) ==
    /\ pc = "Read" /\ fifo # <<>>
    /\ fifo' = Tail(fifo)
    /\ timeout_cnt' = timeouts
    /\ counter' = IF Full THEN 0 ELSE counter + 1
    /\ rev_valid_flg' = (Full => restarted)
    /\ IF Full THEN UNCHANGED config
       ELSE /\ rx_buffer' = [rx_buffer EXCEPT ![counter] = Head(fifo)]
            /\ rx_counter' = counter + 1
    /\ UNCHANGED <<event, pc, left, next_timeout, line, awake, unparsed>>
ReadByte_StaysValid    == ReadByte_With(TRUE, 0)
ReadByte_KeepsTimeouts == ReadByte_With(FALSE, timeout_cnt)

\* rt_device_read of one byte.  The byte behind the last of the buffer starts
\* the buffer again and is not counted itself; it goes to the byte of padding
\* in front of rx_counter.
ReadByte ==
    /\ pc = "Read" /\ fifo # <<>>
    /\ fifo' = Tail(fifo)
    /\ timeout_cnt' = 0
    /\ IF Full
       THEN /\ counter' = 0
            /\ rev_valid_flg' = FALSE
            /\ UNCHANGED config
       ELSE /\ counter' = counter + 1
            /\ rev_valid_flg' = TRUE
            /\ rx_buffer' = [rx_buffer EXCEPT ![counter] = Head(fifo)]
            /\ rx_counter' = counter + 1
    /\ UNCHANGED <<event, pc, left, next_timeout, line, awake, unparsed>>

ReadEmpty ==
    /\ pc = "Read" /\ fifo = <<>>
    /\ pc' = "Recv"
    /\ UNCHANGED <<driver, left, locals, config, line, awake, unparsed>>

\* Mutant: the second wait is as long as the first.
TimedOut_SameWait ==
    /\ pc = "TimedOut"
    /\ timeout_cnt' = timeout_cnt + 1
    /\ pc' = IF timeout_cnt + 1 >= 2 THEN "Return" ELSE "Recv"
    /\ UNCHANGED <<driver, left, next_timeout, counter, rev_valid_flg, config,
                   line, awake, unparsed>>

\* The branch of -RT_ETIMEOUT.
TimedOut ==
    /\ pc = "TimedOut"
    /\ timeout_cnt' = timeout_cnt + 1
    /\ next_timeout' = NextWait
    /\ pc' = IF timeout_cnt + 1 >= 2 THEN "Return" ELSE "Recv"
    /\ UNCHANGED <<driver, left, counter, rev_valid_flg, config, line, awake,
                   unparsed>>

\* Mutant: a valid result stays one when the function is called again.
Return_Again ==
    /\ pc = "Return"
    /\ unparsed' = (unparsed /\ ~rev_valid_flg)
    /\ pc' = "Recv"
    /\ next_timeout' = FirstWait
    /\ timeout_cnt' = 0 /\ counter' = 0
    /\ UNCHANGED <<driver, left, rev_valid_flg, config, line, awake>>

\* The thread's loop: a valid result is handed to subpackage, and
\* uart_get_cnt_data is called again with new locals.
Return ==
    /\ pc = "Return"
    /\ unparsed' = (unparsed /\ ~rev_valid_flg)
    /\ pc' = "Recv"
    /\ next_timeout' = FirstWait
    /\ timeout_cnt' = 0 /\ counter' = 0 /\ rev_valid_flg' = FALSE
    /\ UNCHANGED <<driver, left, config, line, awake>>

-----------------------------------------------------------------------------
\* The program's data is zero before the first byte; no byte stands for that.
NoByte == [len |-> 0, at |-> 0]

RcvInit ==
    /\ fifo = <<>> /\ event = FALSE
    /\ pc = "Recv" /\ left = 0
    /\ next_timeout = FirstWait
    /\ timeout_cnt = 0 /\ counter = 0 /\ rev_valid_flg = FALSE
    /\ rx_buffer = [i \in 0 .. BufLen - 1 |-> NoByte] /\ rx_counter = 0
    /\ frame = [len |-> 0, sent |-> 0]
    /\ burst = 0 /\ silence = Quiet /\ awake = 0
    /\ unparsed = FALSE

Thread == Recv \/ ReadByte \/ ReadEmpty \/ TimedOut \/ Return

RcvNext == (\E n \in Lengths : Receive(n)) \/ Tick \/ Thread

RcvSpec == RcvInit /\ [][RcvNext]_vars

-----------------------------------------------------------------------------
(***************************************************************************)
(* Properties.                                                             *)
(***************************************************************************)

\* Types; the counter stays inside the buffer although it is compared after
\* the byte was read.
RcvTypeOK ==
    /\ fifo \in Seq(Byte) /\ Len(fifo) <= FifoLen
    /\ event \in BOOLEAN
    /\ pc \in {"Recv", "Suspended", "Read", "TimedOut", "Return"}
    /\ left \in Nat
    /\ next_timeout \in {FirstWait, NextWait}
    /\ timeout_cnt \in 0 .. 2
    /\ counter \in 0 .. BufLen
    /\ rev_valid_flg \in BOOLEAN
    /\ rx_buffer \in [0 .. BufLen - 1 -> Byte \cup {NoByte}]
    /\ rx_counter \in 0 .. BufLen
    /\ frame \in [len : Lengths \cup {0}, sent : Nat] /\ frame.sent <= frame.len
    /\ burst \in 0 .. Rate
    /\ silence \in 0 .. Quiet
    /\ awake \in 0 .. Latency
    /\ unparsed \in BOOLEAN

\* The event and the fifo never part: as long as a byte waits in the fifo, the
\* event is set or the thread is reading, so that it does not sleep on a byte
\* that arrives between its last read and rt_event_recv.
NoByteForgotten == fifo # <<>> => event \/ pc = "Read"

\* subpackage is about to get rx_buffer[0 .. rx_counter - 1].
Parsing == pc = "Return" /\ rev_valid_flg

\* What a parser gets is the end of one frame: bytes that follow each other,
\* up to the last one of the frame, and none left over from an earlier frame,
\* although the buffer and rx_counter are never cleared.
ParsesFrameEnd ==
    Parsing =>
        /\ rx_counter = counter
        /\ LET last == rx_buffer[rx_counter - 1] IN
           /\ last.at = last.len
           /\ \A i \in 0 .. rx_counter - 1 :
                 rx_buffer[i] = [len |-> last.len,
                                 at  |-> last.len + 1 + i - rx_counter]

\* A frame that fits into the buffer is handed over whole: pauses inside the
\* frame and a thread that is scheduled late do not cut it.
ParsesWholeFrame ==
    Parsing /\ rx_buffer[rx_counter - 1].len <= BufLen => rx_buffer[0].at = 1

\* After the silence that two timeouts take, every frame that fits has been
\* handed to a parser; none waits, none was dropped.
ParsedInTime == silence = Quiet => ~unparsed

\* A frame is on its way to a parser: some of it is still to come, in the
\* fifo or in the buffer.
Collecting == MidFrame \/ fifo # <<>> \/ counter # 0

\* The frame that has come to its end on the line, and what subpackage gets.
Pending  == IF Collecting /\ ~MidFrame THEN frame.len ELSE 0
Argument == IF Parsing THEN [i \in 1 .. rx_counter |-> rx_buffer[i - 1]]
                       ELSE <<>>

\* Interrupt, event, timeouts and buffer do together what Delivery promises.
Parsers == INSTANCE Delivery WITH waiting <- Pending, arg <- Argument

DeliversFrames == Parsers!DeliverySpec
=============================================================================
