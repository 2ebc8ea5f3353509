------------------------------- MODULE Delivery -------------------------------
(***************************************************************************)
(* What the receiver promises the parsers (applications/rcv_process.c,     *)
(* uart_get_cnt_data and subpackage): a frame that fits the buffer is       *)
(* handed over once, whole, and before the next one; of a longer frame at  *)
(* most an end is.  There is neither a byte nor a timeout here.             *)
(***************************************************************************)
EXTENDS Naturals

CONSTANTS
    Lengths,     \* the lengths of frames the controller sends
    BufLen       \* bytes in rx_buffer

VARIABLES
    waiting,     \* the length of the frame that has ended and is not dealt with
                 \* yet, 0: none
    arg          \* what subpackage has been called with, <<>>: no call

deliveryVars == <<waiting, arg>>

\* The last m bytes of a frame of length n.
End(n, m) == [i \in 1 .. m |-> [len |-> n, at |-> n - m + i]]

DeliveryInit == waiting = 0 /\ arg = <<>>

\* The last byte of a frame.  No frame ends before the one in front of it has
\* been dealt with.
Arrive(n) ==
    /\ waiting = 0 /\ arg = <<>>
    /\ waiting' = n
    /\ UNCHANGED arg

\* subpackage is called.
HandOver ==
    /\ waiting # 0 /\ arg = <<>>
    /\ \E m \in 1 .. waiting :
          /\ m <= BufLen
          /\ waiting <= BufLen => m = waiting
          /\ arg' = End(waiting, m)
    /\ UNCHANGED waiting

\* It returns.
Parsed ==
    /\ arg # <<>>
    /\ waiting' = 0 /\ arg' = <<>>

\* The buffer was started again with the last byte of a frame that is too long.
Drop ==
    /\ waiting > BufLen /\ arg = <<>>
    /\ waiting' = 0
    /\ UNCHANGED arg

DeliveryNext == (\E n \in Lengths : Arrive(n)) \/ HandOver \/ Parsed \/ Drop

DeliverySpec == DeliveryInit /\ [][DeliveryNext]_deliveryVars
=============================================================================
