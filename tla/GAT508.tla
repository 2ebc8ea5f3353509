-------------------------------- MODULE GAT508 --------------------------------
(***************************************************************************)
(* The parsers of the two national protocols (applications/GAT_508_2004.c  *)
(* and GAT_508_2014.c), as functions from the received bytes and the       *)
(* channel of the sign to what they post: a sequence of at most one        *)
(* message, in the form CommDisplay receives it.                           *)
(*                                                                         *)
(* Buffers are sequences of bytes; the code's index i is the element i + 1. *)
(* The local copy of the buffer is zero behind the received bytes.         *)
(***************************************************************************)
EXTENDS Naturals, Sequences, FiniteSetsExt, SequencesExt

At(buf, i) == IF i + 1 \in DOMAIN buf THEN buf[i + 1] ELSE 0

High(b) == b \div 16
Low(b)  == b % 16

\* Four decimal digits in two bytes.
Bcd(h, l) == 1000 * High(h) + 100 * Low(h) + 10 * High(l) + Low(l)

\* The bits of a byte, and the byte of eight bits.
Weight == <<1, 2, 4, 8, 16, 32, 64, 128>>

Bit(b, k) == (b \div Weight[k + 1]) % 2
Byte(d)   == 128 * d[7] + 64 * d[6] + 32 * d[5] + 16 * d[4]
                + 8 * d[3] + 4 * d[2] + 2 * d[1] + d[0]

\* The exclusive or of two bytes, and of the bytes from..to: in each place the
\* parity of the ones.
Xor(x, y) == Byte([k \in 0 .. 7 |-> (Bit(x, k) + Bit(y, k)) % 2])

XorOf(buf, from, to) ==
    Byte([k \in 0 .. 7 |->
              Cardinality({i \in from .. to : Bit(At(buf, i), k) = 1}) % 2])

ColourOf(bits) == <<"dark", "G", "Y", "R">>[bits + 1]

-----------------------------------------------------------------------------
(***************************************************************************)
(* GA/T 508-2004: records of five bytes, fe, a control byte, two bytes of  *)
(* number and a checksum of seven bits.                                    *)
(***************************************************************************)
Channel2004(ctl) == (ctl \div 4) % 8

Crc2004(buf, mm) == XorOf(buf, mm + 1, mm + 3) % 128

Record2004(buf, mm) ==
    LET ctl == At(buf, mm + 1) IN
    [protocol |-> "GAT2004", colour |-> ColourOf(ctl % 4),
     total |-> Bcd(At(buf, mm + 2), At(buf, mm + 3)),
     auto |-> Bit(ctl, 5) = 1, blink |-> FALSE, cmd |-> "none",
     refresh |-> TRUE]

\* The search goes on while mm is not beyond the length: of a whole number of
\* records it looks at one more, made of zeros.
Searched2004(buf) == {mm \in 0 .. Len(buf) : mm % 5 = 0}

\* Mutant: the checksum is computed and not compared.
gat_2004_parse_Trusts(buf, channel) ==
    LET mine == {mm \in Searched2004(buf) :
                    Channel2004(At(buf, mm + 1)) = channel}
    IN IF mine = {} THEN <<>> ELSE <<Record2004(buf, Min(mine))>>

\* The first record of the channel decides: if its checksum is wrong, no
\* later one is looked at.
gat_2004_parse(buf, channel) ==
    LET mine == {mm \in Searched2004(buf) :
                    Channel2004(At(buf, mm + 1)) = channel}
        mm   == Min(mine)
    IN IF mine # {} /\ Crc2004(buf, mm) = At(buf, mm + 4)
       THEN <<Record2004(buf, mm)>> ELSE <<>>

-----------------------------------------------------------------------------
(***************************************************************************)
(* GA/T 508-2014: 55 aa, the number of records, records of an attribute    *)
(* and a number, a checksum.                                               *)
(***************************************************************************)
Intact2014(buf) ==
    /\ Len(buf) = 2 * At(buf, 2) + 4
    /\ XorOf(buf, 2, Len(buf) - 2) = At(buf, Len(buf) - 1)

\* Mutant: the third bit makes an automatic count of it, as the sixth does in
\* the older protocol.
Record2014_Counts(buf, mm) ==
    LET attr == At(buf, mm + 3) IN
    [protocol |-> "GAT2014", colour |-> ColourOf(attr % 4),
     total |-> At(buf, mm + 4), auto |-> Bit(attr, 2) = 1, blink |-> FALSE,
     cmd |-> "none", refresh |-> TRUE]

Record2014(buf, mm) ==
    LET attr == At(buf, mm + 3) IN
    [protocol |-> "GAT2014", colour |-> ColourOf(attr % 4),
     total |-> At(buf, mm + 4), auto |-> FALSE, blink |-> Bit(attr, 2) = 1,
     cmd |-> "none", refresh |-> TRUE]

\* Behind the last record the search takes the checksum for an attribute.
gat_2014_parse(buf, channel) ==
    LET mine == {mm \in 0 .. Len(buf) - 4 :
                    mm % 2 = 0 /\ At(buf, mm + 3) \div 8 = channel}
    IN IF Intact2014(buf) /\ mine # {} THEN <<Record2014(buf, Min(mine))>>
       ELSE <<>>
=============================================================================
