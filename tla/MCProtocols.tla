------------------------------ MODULE MCProtocols ------------------------------
(***************************************************************************)
(* Instances of Protocols for TLC: positions of the dial, the frames a     *)
(* controller sends, and what the line may do to them.                     *)
(***************************************************************************)
EXTENDS Protocols

\* Bits of the dial word: 0 all colours, 1 GeLinWei, 2 communication,
\* 3 vehicles, 8 the baud rate, 9 to 11 the direction, 12 to 15 the signal or
\* channel.
National0 == 13
GeLin0    == 15

\* Every switch alone, none and all of a row: each sign the dial can name
\* differs from these in the sum of its switches only.
Walking(base, bits) == {base + 2^k : k \in bits}

\* Channel 3; aux_1 (b4) straight on (c2); of the captured frames also aux_2
\* (b5) to the left (c1), aux_3 (b6) straight on and for pedestrians (c7).
Channel3   == National0 + 2^14 + 2^15
AuxAhead   == GeLin0 + 2^9 + 2^14
Aux2Left   == GeLin0 + 2^9 + 2^11 + 2^15
Aux3Ahead  == GeLin0 + 2^9 + 2^10 + 2^14
Aux3People == GeLin0 + 2^9 + 2^10 + 2^13 + 2^14 + 2^15

MCWords ==
    {0, 9, National0, National0 + 256 + \hf000, GeLin0, GeLin0 + \hff00,
     Channel3, AuxAhead, Aux2Left, Aux3Ahead, Aux3People}
        \cup Walking(National0, 12 .. 15) \cup Walking(GeLin0, 9 .. 15)

\* A sign is turned into one of the other protocol, back, and into a
\* learning sign.
MCTurns == {<<Channel3, AuxAhead>>, <<AuxAhead, Channel3>>, <<Channel3, 0>>}

Rec(a, c, n) == [addr |-> a, colour |-> c, total |-> n, blink |-> FALSE]

NationalFrame(p, auto, rs) ==
    [protocol |-> p, auto |-> auto, cmd |-> "none", refresh |-> TRUE,
     records |-> rs]

Old(auto, rs) == <<NationalFrame("GAT2004", auto, rs)>>
New(rs)       == <<NationalFrame("GAT2014", FALSE, rs)>>

\* Every colour, with numbers at the borders of a digit and of the face, and
\* the record of the sign alone, first, last, twice and not at all.
NationalBursts ==
    {Old(TRUE, <<Rec(ch, c, n)>>) : ch \in {0, 3, 7}, c \in Colours,
                                     n \in {9, 199}}
    \cup {Old(FALSE, <<Rec(1, "R", 9), Rec(ch, c, 99)>>) :
             ch \in {0, 1, 3}, c \in Colours}
    \cup {Old(TRUE, <<Rec(0, "G", 9), Rec(3, "R", 99), Rec(3, "G", 199)>>)}
    \cup {New(<<Rec(ch, c, IF ch = 15 THEN 255 ELSE n)>>) :
             ch \in {3, 15}, c \in Colours, n \in {9, 199}}
    \cup {New(<<Rec(1, "R", 9), [Rec(ch, c, 99) EXCEPT !.blink = TRUE]>>) :
             ch \in 0 .. 15, c \in {"Y", "dark"}}
    \cup {New(<<>>), New(<<Rec(3, "R", 9), Rec(8, "G", 99), Rec(3, "G", 199)>>)}

\* keyB = 82 and keyC = a5 unless said otherwise.
GeLinFrame(dir, rs) ==
    [protocol |-> "GeLinWei", dir |-> dir, auto |-> TRUE, cmd |-> "none",
     refresh |-> TRUE, clear |-> FALSE, keyB |-> \h82, keyC |-> \ha5,
     records |-> rs]

Aux(n) == GeLinFrame(\hb4, <<Rec(\hc2, "G", n)>>)

\* Every pair of places for P' and Q', in the shortest frame, where Q' may
\* stand before P', and in a longer one.
Keyed ==
    {[GeLinFrame(\hb4, rs) EXCEPT !.keyB = 16 * p + q, !.keyC = \h5a + p] :
        p \in 0 .. 7, q \in 0 .. 7,
        rs \in {<<Rec(\hc0, "R", 9)>>,
                <<Rec(\hc7, "G", 99), Rec(\hc2, "Y", 9)>>}}

\* In the captures each frame comes in clear first, then enciphered.
Clear(f) == [f EXCEPT !.clear = TRUE]

\* Frames captured from a controller: east, A1B1 and west beside the source.
Captured(f, bytes) == <<f @@ [raw |-> <<\h2c, \h2c, \h2c, \h2c>> \o bytes]>>

Captures ==
    {Captured(GeLinFrame(\hb4, <<Rec(\hc0, "Y", 3), Rec(\hc2, "Y", 3)>>),
              <<\h13, \h7e, \hea, \h02, \ha9, \hcb, \hb3, \h76, \h64, \he5,
                \hb6, \hb5, \h74, \h64, \hb6, \hb5, \hce, \ha5, \hbd, \h2e>>),
     Captured(GeLinFrame(\hb6, <<Rec(\hc0, "R", 28)>>),
              <<\h0f, \h7e, \hce, \h7a, \hd3, \hb1, \hc9, \hb0, \h29, \h0c,
                \h1f, \hcc, \he4, \hd4, \hcf, \h6a>>),
     Captured(GeLinFrame(\hb6, <<Rec(\hc7, "G", 24), Rec(\hc8, "G", 24)>>),
              <<\h13, \h7e, \h6b, \hdb, \h72, \h10, \h68, \haa, \hbc, \h70,
                \h6d, \h49, \ha5, \hbc, \h6d, \h6a, \h49, \h75, \h69, \h99>>),
     Captured(GeLinFrame(\hb5, <<Rec(\hc1, "R", 82)>>),
              <<\h0f, \h7e, \hd8, \h4f, \he5, \h87, \hff, \h3b, \hb2, \h29,
                \hfa, \h78, \he9, \hf9, \h26, \ha0>>)}

GeLinBursts ==
    {<<f>> : f \in Keyed} \cup Captures
    \cup {<<GeLinFrame(\hb0 + d, <<Rec(\hc7, "R", 9)>>)>> : d \in 0 .. 7}
    \cup {<<GeLinFrame(\hb0, <<Rec(\hc0 + s, "R", 9)>>)>> : s \in 0 .. 15}
    \cup {<<Aux(n)>> : n \in {0, 9, 99, 123, 199}}
    \cup {<<[Aux(n) EXCEPT !.refresh = FALSE, !.auto = FALSE, !.cmd = x]>> :
             n \in {0, 50}, x \in {"none", "off", "H"}}
    \cup {<<Clear(f), f>> : f \in {Aux(9), GeLinFrame(\hb4, <<Rec(\hc0, "Y", 3)>>)}}
    \cup {<<Clear(Aux(82))>>, <<Aux(99), Aux(9)>>,
          <<Aux(99), [Aux(0) EXCEPT !.refresh = FALSE]>>,
          [k \in 1 .. 2 |-> [Aux(k) EXCEPT !.refresh = FALSE]]}

Undamaged == {<<0, 0>>}

\* One bit of one of the first ten bytes, in 2004 one of the seven that are
\* checked; in 2014 also a whole byte.
OneBit(top) == {<<i, 2^k>> : i \in 0 .. 9, k \in 0 .. top}
OneByte     == {<<i, 255>> : i \in 0 .. 9}

\* The frames that are damaged: one and two records, for a sign and not.
ExposedOld ==
    {Old(FALSE, <<Rec(0, "G", 9), Rec(3, "G", 199)>>),
     Old(TRUE, <<Rec(2, "R", 99), Rec(7, "Y", 9)>>)}
ExposedNew ==
    {New(<<Rec(1, "Y", 9), Rec(3, "G", 199)>>),
     New(<<Rec(2, "R", 99), Rec(8, "dark", 0), Rec(3, "Y", 199)>>)}

MCHanded ==
    ((NationalBursts \cup GeLinBursts) \X Undamaged)
        \cup {h \in (ExposedOld \X OneBit(6))
                    \cup (ExposedNew \X (OneBit(7) \cup OneByte)) :
                  h[2][1] < Len(Bytes(h[1][1]))}

\* All of it is as the theorems of Protocols_proof assume, except the captured
\* frames, whose bytes are given, and those in clear.
ASSUME MostlyUsual ==
    \A h \in Handed :
        IF h[2][2] # 0 THEN Hurt(h)
        ELSE \/ Whole(h)
             \/ \E k \in DOMAIN h[1] :
                   "raw" \in DOMAIN h[1][k] \/ h[1][k].clear

\* For the violation: totals for one sign.
OneWord == {AuxAhead}
NoTurns == {}
Totals  == {<<Aux(n)>> : n \in {9, 99, 100, 123, 199}} \X Undamaged
=============================================================================
