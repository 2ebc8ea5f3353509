------------------------------- MODULE GeLinWei -------------------------------
(***************************************************************************)
(* The parser of the GeLinWei protocol (applications/ge_lin_wei.c), as a   *)
(* function from the received bytes and the settings of the sign to the    *)
(* sequence of the messages it posts, in the form CommDisplay receives     *)
(* them.                                                                   *)
(*                                                                         *)
(* A frame is 2c 2c 2c 2c, the number of bytes that follow, 7e, the key B, *)
(* the enciphered information with two bytes P' and Q' hidden in it, and a *)
(* checksum that nobody verifies.  The key B says where P' and Q' are, and *)
(* these hold the two halves of the key C of the information.              *)
(***************************************************************************)
EXTENDS GAT508

\* (data_h << 8) | data_l, where the byte data_h holds the hundreds as a
\* number of ones, cut to eight bits.
Hundreds(h, l) == (1000 * High(h) + 100 * Low(h)) % 256
Total(h, l)    == 256 * Hundreds(h, l) + 10 * High(l) + Low(l)

\* A sign at an arrow also obeys what is sent to the full light.
mux_detection(dir) == IF dir \in {\hc1, \hc2, \hc3} THEN \hc0 ELSE dir

-----------------------------------------------------------------------------
(***************************************************************************)
(* Decipherment.  The two halves of the key B, each doubled to a byte, say *)
(* how far P' stands from the left and Q' from the right; P' one further   *)
(* if Q' stands before it.                                                 *)
(***************************************************************************)
M1M1(b) == 17 * High(b)
M2M2(b) == 17 * Low(b)
P_cat(b) == High(b) % 8
Q_cat(b) == Low(b) % 8

\* Mutant: P' is looked for as if Q' always stood behind it.
p_pos_Left(f) == P_cat(At(f, 6)) + 7

p_pos(f) ==
    LET b == At(f, 6) IN
    P_cat(b) + (IF Len(f) - 9 - Q_cat(b) > P_cat(b) THEN 7 ELSE 8)

q_pos(f) == Len(f) - 2 - Q_cat(At(f, 6))

key_C(f) ==
    LET b == At(f, 6) IN
    16 * Low(Xor(At(f, p_pos(f)), M1M1(b))) + High(Xor(At(f, q_pos(f)), M2M2(b)))

\* Two of the places 7 .. Len(f) - 2 are hidden, the others hold the
\* information: its k-th byte has so many of the two before it.
Place(hidden, k) ==
    CHOOSE i \in k + 6 .. k + 8 :
        i \notin hidden /\ i = k + 6 + Cardinality(hidden \cap 7 .. i)

\* org_data: the information in clear.
org_data(f) ==
    LET hidden == {p_pos(f), q_pos(f)}
        key    == key_C(f)
    IN [k \in 1 .. Len(f) - 8 - Cardinality(hidden \cap 7 .. Len(f) - 2) |->
            Xor(At(f, Place(hidden, k)), key)]

-----------------------------------------------------------------------------
\* The colour codes; another one posts no colour at all.
ColourCode(c) == IF c \in \hd0 .. \hd3 THEN ColourOf(c - \hd0) ELSE "none"

CommandWord(c) == IF c = 1 THEN "off" ELSE IF c = 2 THEN "H" ELSE "none"

\* The first record, four bytes each from the fifth on, with the address of
\* the sign.  The search ends one record behind the information, in zeros.
Mine(org, config) ==
    LET signal == config.singal_direction IN
    {mm \in 0 .. Len(org) :
        mm % 4 = 0 /\ At(org, mm + 4) \in {signal, mux_detection(signal)}}

Post(org, mm) ==
    [protocol |-> "GeLinWei", colour |-> ColourCode(At(org, mm + 5)),
     total |-> IF At(org, 3) = \h05
               THEN Total(At(org, mm + 6), At(org, mm + 7)) ELSE 0,
     auto |-> At(org, 2) = \h7d, blink |-> FALSE,
     cmd |-> CommandWord(At(org, 1)), refresh |-> At(org, 3) = \h05]

\* Mutant: the direction of the frame is not compared.
parse_AnyDirection(f, config) ==
    LET org  == org_data(f)
        mine == Mine(org, config)
    IN IF Len(f) = At(f, 4) + 5 /\ At(f, 5) = \h7e /\ mine # {}
       THEN <<Post(org, Min(mine))>> ELSE <<>>

\* One frame, of the length the caller has put into rx_counter.
parse(f, config) ==
    LET org  == org_data(f)
        mine == Mine(org, config)
    IN IF /\ Len(f) = At(f, 4) + 5 /\ At(f, 5) = \h7e
          /\ At(org, 0) = config.countdown_direction
          /\ mine # {}
       THEN <<Post(org, Min(mine))>> ELSE <<>>

-----------------------------------------------------------------------------
Heads(buf) ==
    {i \in 0 .. Len(buf) - 1 : \A k \in 0 .. 3 : At(buf, i + k) = \h2c}

\* rx_counter of the frame that starts at i: its length byte says it, if ten
\* bytes are left; otherwise it is still the one of the frame before.
Counter(buf, i) ==
    LET long == {j \in Heads(buf) : j <= i /\ Len(buf) - j > 9}
    IN IF long = {} THEN Len(buf) ELSE At(buf, Max(long) + 4) + 5

FrameAt(buf, i) == [k \in 1 .. Counter(buf, i) |-> At(buf, i + k - 1)]

\* Every place where four bytes 2c stand is taken for the head of a frame; one
\* after the other, those that are for this sign are posted.
ge_lin_wei_parse(buf, config) ==
    LET Posted(i) == parse(FrameAt(buf, i), config)
        mine      == {i \in Heads(buf) : Posted(i) # <<>>}
        Nth(k)    == CHOOSE i \in mine : Cardinality(mine \cap 0 .. i) = k
    IN [k \in 1 .. Cardinality(mine) |-> Posted(Nth(k))[1]]
=============================================================================
