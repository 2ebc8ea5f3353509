------------------------------- MODULE MCRcv -------------------------------
(***************************************************************************)
(* An instance of RcvFrame for TLC.  The timeouts are those of the code; a *)
(* tick carries one byte, and the buffer and the fifo are scaled to it.     *)
(***************************************************************************)
EXTENDS RcvFrame

\* The scheduler lets one other thread of the priority run, for its slice of
\* five ticks.
Slice == 5

\* The thread waits out both timeouts, and is left waiting before each.
Settled == FirstWait + NextWait + 3 * Slice + 1

\* A frame of one byte, one that just fits (it is longer than the fifo, as in
\* the code), one byte more, and one whose end is collected after the buffer
\* has been started again.
FrameLengths == {1, 8, 9, 11}

\* One tick less than two short timeouts take.
NextWaits == 2 * NextWait - 1
=============================================================================
