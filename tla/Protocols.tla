------------------------------- MODULE Protocols -------------------------------
(***************************************************************************)
(* From the bytes on the line to the message for the display: the dial     *)
(* decides which parser runs and which record of a frame is for this sign  *)
(* (rcv_process.c, subpackage), the parser decodes it, and cur_tmp carries *)
(* the number from one message to the next.                                *)
(*                                                                         *)
(* The controller is not in the repository.  How it builds a frame is      *)
(* modelled from how the parsers take it apart and, for GeLinWei, from the *)
(* captured frames beside the source, where each frame comes in clear and  *)
(* enciphered.                                                             *)
(***************************************************************************)
EXTENDS Dial, GeLinWei

CONSTANTS
    Handed      \* what the receiver hands over at once: pairs of a sequence
                \* of frames and the damage done to their bytes, a place
                \* and a byte added there without carry; none is <<0, 0>>

VARIABLES
    rx_buffer,  \* config_init.rx_buffer[0 .. rx_counter - 1]
    sent,       \* (history) the frames that were sent
    intact,     \* (history) they arrived as they were sent
    posts,      \* the messages the last buffer was parsed into
    numbers,    \* the value of cur_tmp each of them was posted with
    cur_tmp,    \* countdown.cur_tmp
    last,       \* (history) the last total that was sent to this sign whole
    stray       \* (history) what else may have come into cur_tmp since

wire == <<rx_buffer, sent, intact>>
protoVars == <<dialVars, wire, posts, numbers, cur_tmp, last, stray>>

-----------------------------------------------------------------------------
(***************************************************************************)
(* The controller.  A frame is a record [protocol, records, ...]; a record *)
(* for one sign is [addr, colour, total, blink], where addr is a channel   *)
(* or, for GeLinWei, a signal.                                             *)
(***************************************************************************)
TwoDigits(n) == 16 * (n \div 10) + (n % 10)

Colours == {"R", "G", "Y", "dark"}

Bits(c) == CASE c = "dark" -> 0 [] c = "G" -> 1 [] c = "Y" -> 2 [] c = "R" -> 3

\* Records of so many bytes each, one behind the other.
Joined(records, size, Record(_)) ==
    [i \in 1 .. size * Len(records) |->
        Record(records[(i - 1) \div size + 1])[((i - 1) % size) + 1]]

Five(f, r) ==
    LET ctl == Bits(r.colour) + 4 * r.addr + (IF f.auto THEN \h20 ELSE 0)
        h   == TwoDigits(r.total \div 100)
        l   == TwoDigits(r.total % 100)
    IN <<\hfe, ctl, h, l, Xor(Xor(ctl, h), l) % 128>>

Bytes2004(f) == Joined(f.records, 5, LAMBDA r : Five(f, r))

Two(r) == <<8 * r.addr + Bits(r.colour) + (IF r.blink THEN 4 ELSE 0), r.total>>

Bytes2014(f) ==
    LET front == <<\h55, \haa, Len(f.records)>> \o Joined(f.records, 2, Two)
    IN Append(front, XorOf(front, 2, Len(front) - 1))

Four(r) == <<r.addr, \hd0 + Bits(r.colour),
             TwoDigits(r.total \div 100), TwoDigits(r.total % 100)>>

\* The information, with the two bytes that end it in the captured frames.
Information(f) ==
    <<f.dir, (CASE f.cmd = "none" -> \h1f [] f.cmd = "off" -> 1 [] f.cmd = "H" -> 2),
      IF f.auto THEN \h7d ELSE \h7c, IF f.refresh THEN 5 ELSE 3>>
    \o Joined(f.records, 4, Four) \o <<\h18, \h02>>

\* P' goes into the cipher first, then Q', each at the place the key names.
Encipher(info, b, c) ==
    LET cipher == [k \in 1 .. Len(info) |-> Xor(info[k], c)]
        P      == Xor(\h50 + High(c), M1M1(b))
        Q      == Xor(16 * Low(c) + \h0a, M2M2(b))
        withP  == InsertAt(cipher, P_cat(b) + 1, P)
    IN <<b>> \o InsertAt(withP, Len(withP) + 1 - Q_cat(b), Q)

\* A frame in clear has no keys.  Nothing depends on the checksum.
BytesGeLin(f) ==
    LET body == <<\h7e>> \o (IF f.clear THEN Information(f)
                             ELSE Encipher(Information(f), f.keyB, f.keyC))
    IN <<\h2c, \h2c, \h2c, \h2c, Len(body) + 1>> \o body \o <<0>>

\* A captured frame brings its bytes.
Bytes(f) == CASE "raw" \in DOMAIN f       -> f.raw
              [] f.protocol = "GAT2004"  -> Bytes2004(f)
              [] f.protocol = "GAT2014"  -> Bytes2014(f)
              [] f.protocol = "GeLinWei" /\ "raw" \notin DOMAIN f -> BytesGeLin(f)

-----------------------------------------------------------------------------
(***************************************************************************)
(* What a frame says to this sign: the first record with its address.      *)
(***************************************************************************)
Comm == config_init.study_or_comm = 0

Speaks(f) ==
    IF f.protocol = "GeLinWei"
    THEN config_init.protocol = 1 /\ ~f.clear
            /\ f.dir = config_init.countdown_direction
    ELSE config_init.protocol = 0

Addresses(f) ==
    IF f.protocol = "GeLinWei"
    THEN {config_init.singal_direction, mux_detection(config_init.singal_direction)}
    ELSE {config_init.countdown_channel}

ForMe(f) == {k \in DOMAIN f.records : f.records[k].addr \in Addresses(f)}

Addressed(f) == Comm /\ Speaks(f) /\ ForMe(f) # {}

Meant(f) ==
    LET r == f.records[Min(ForMe(f))] IN
    [protocol |-> f.protocol, colour |-> r.colour, total |-> r.total,
     auto |-> f.auto, blink |-> r.blink, cmd |-> f.cmd, refresh |-> f.refresh]

\* The messages a burst means for this sign.
MeantAll(fs) ==
    LET mine   == {k \in DOMAIN fs : Addressed(fs[k])}
        Nth(i) == CHOOSE k \in mine : Cardinality(mine \cap 0 .. k) = i
    IN [i \in 1 .. Cardinality(mine) |-> Meant(fs[Nth(i)])]

\* What other frames may leave in cur_tmp: a sign of the national protocols
\* takes zeros behind the last record, or a checksum, for a record; a damaged
\* frame may still hold the total for this sign.
Strays(fs) ==
    LET heard == {k \in DOMAIN fs : Comm /\ fs[k].protocol # "GeLinWei" /\ Speaks(fs[k])}
        mine  == {k \in heard : Addressed(fs[k])}
    IN {0 : k \in heard} \cup {Meant(fs[k]).total : k \in mine}

\* cur_tmp has sixteen bits; a controller shows up to four digits.
Top16      == 65535
Words16    == 0 .. Top16
Top4       == 9999
FourDigits == 0 .. Top4

\* The value of cur_tmp behind each of a sequence of messages: the total of
\* the last one that had one.
Carried(ms, before) ==
    [k \in 0 .. Len(ms) |->
        LET fresh == {j \in 1 .. k : ms[j].refresh}
        IN IF fresh = {} THEN before ELSE ms[Max(fresh)].total]

-----------------------------------------------------------------------------
\* The bytes of a burst, as they arrive.
Line ==
    [h \in Handed |->
        LET bytes == FlattenSeq([k \in 1 .. Len(h[1]) |-> Bytes(h[1][k])])
        IN [bytes EXCEPT ![h[2][1] + 1] = Xor(@, h[2][2])]]

\* What is assumed of a national frame in which a byte is damaged: a controller
\* names no sign twice and keeps to the range of each field; the damage is
\* none that the protocol cannot tell, in 2004 of the bit no checksum covers,
\* in 2014 of the first byte into the one that starts a 2004 frame; and the
\* bytes do not look like a GeLinWei frame.
NationalRecord ==
    [addr : 0 .. 31, colour : Colours, total : FourDigits, blink : BOOLEAN]

Exposed(h) ==
    LET f     == h[1][1]
        place == h[2][1]
        added == h[2][2]
    IN /\ f.protocol \in {"GAT2004", "GAT2014"} /\ "raw" \notin DOMAIN f
       /\ f.auto \in BOOLEAN /\ f.cmd = "none" /\ f.refresh = TRUE
       /\ f.records \in Seq(NationalRecord)
       /\ \A j, k \in DOMAIN f.records :
             j # k => f.records[j].addr # f.records[k].addr
       /\ place \in 0 .. Len(Bytes(f)) - 1 /\ added \in 1 .. 255
       /\ f.protocol = "GAT2004" =>
             /\ \A k \in DOMAIN f.records :
                   f.records[k].addr <= 7 /\ f.records[k].blink = FALSE
             /\ added # 128
       /\ f.protocol = "GAT2014" =>
             /\ \A k \in DOMAIN f.records : f.records[k].total <= 255
             /\ Len(f.records) <= 255
             /\ place = 0 => Xor(\h55, added) # \hfe
       /\ Heads(Line[h]) = {}

\* A frame as a controller sends it, of a national protocol or enciphered.  Of
\* a total from 6400 on the eight bits that hold its hundreds may be zero.
Bytes8       == 0 .. 255
Records2004  == {r \in NationalRecord : r.addr <= 7 /\ r.blink = FALSE}
Records2014  == {r \in NationalRecord : r.total <= 255}
TotalsGeLin  == 0 .. 6399
RecordsGeLin == [addr : Bytes8, colour : Colours, total : TotalsGeLin, blink : {FALSE}]

IsNational(f) ==
    /\ "raw" \notin DOMAIN f /\ f.cmd = "none" /\ f.refresh = TRUE
    /\ \/ /\ f.protocol = "GAT2004" /\ f.auto \in BOOLEAN
          /\ f.records \in Seq(Records2004) /\ Len(f.records) >= 1
       \/ /\ f.protocol = "GAT2014" /\ f.auto = FALSE
          /\ f.records \in Seq(Records2014) /\ Len(f.records) <= 255

IsGeLin(f) ==
    /\ f.protocol = "GeLinWei" /\ "raw" \notin DOMAIN f /\ ~f.clear
    /\ f.dir \in Bytes8 /\ f.cmd \in {"none", "off", "H"}
    /\ f.auto \in BOOLEAN /\ f.refresh \in BOOLEAN
    /\ f.records \in Seq(RecordsGeLin) /\ Len(f.records) >= 1
    /\ f.keyB \in Bytes8 /\ f.keyC \in Bytes8

\* What arrives whole is one national frame, which looks to a GeLinWei sign
\* like none of its own, or frames of GeLinWei, each with one head; what
\* arrives damaged is one national frame.
Whole(h) ==
    /\ h[2] = <<0, 0>> /\ h[1] \in Seq(Range(h[1]))
    /\ \/ Len(h[1]) = 1 /\ IsNational(h[1][1]) /\ Heads(Line[h]) = {}
       \/ /\ Len(h[1]) >= 1 /\ \A k \in 1 .. Len(h[1]) : IsGeLin(h[1][k])
          /\ Cardinality(Heads(Line[h])) = Len(h[1])

Hurt(h) ==
    /\ h[2][2] # 0 /\ h[1] \in Seq(Range(h[1]))
    /\ Len(h[1]) = 1 /\ h[1][1].protocol # "GeLinWei"

ASSUME HandedAssumption ==
    \A h \in Handed :
        h[2][2] # 0 /\ Len(h[1]) = 1 /\ h[1][1].protocol # "GeLinWei" => Exposed(h)

\* A buffer is handed over (RcvFrame says when and how whole).
Arrive ==
    /\ dial = "done" /\ sent = <<>>
    /\ \E h \in Handed : /\ rx_buffer' = Line[h]
                         /\ sent' = h[1]
                         /\ intact' = (h[2][2] = 0)
    /\ UNCHANGED <<dialVars, posts, numbers, cur_tmp, last, stray>>

\* subpackage chooses the parser; a learning sign calls none.
Parsed(buf) ==
    IF ~Comm THEN <<>>
    ELSE IF config_init.protocol = 1 THEN ge_lin_wei_parse(buf, config_init)
    ELSE IF At(buf, 0) = \h55 /\ At(buf, 1) = \haa
         THEN gat_2014_parse(buf, config_init.countdown_channel)
    ELSE IF At(buf, 0) = \hfe
         THEN gat_2004_parse(buf, config_init.countdown_channel)
    ELSE <<>>

subpackage ==
    LET ms    == Parsed(rx_buffer)
        value == Carried(ms, cur_tmp)
        meant == MeantAll(sent)
    IN /\ dial = "done" /\ rx_buffer # <<>>
       /\ posts' = ms
       /\ numbers' = [k \in 1 .. Len(ms) |-> value[k]]
       /\ cur_tmp' = value[Len(ms)]
       /\ IF intact /\ meant # <<>>
          THEN /\ last' = Carried(meant, last)[Len(meant)]
               /\ stray' = IF \E k \in 1 .. Len(meant) : meant[k].refresh
                           THEN {} ELSE stray
          ELSE /\ last' = last
               /\ stray' = stray \cup Strays(sent)
       /\ rx_buffer' = <<>>
       /\ UNCHANGED <<dialVars, sent, intact>>

\* The messages have been written; only cur_tmp is left of the buffer.
Done ==
    /\ sent # <<>> /\ rx_buffer = <<>>
    /\ sent' = <<>> /\ intact' = TRUE /\ posts' = <<>> /\ numbers' = <<>>
    /\ UNCHANGED <<dialVars, rx_buffer, cur_tmp, last, stray>>

\* Bound: no frame is on its way while the dial is read again.
DialStep ==
    /\ DialNext /\ sent = <<>>
    /\ UNCHANGED <<wire, posts, numbers, cur_tmp, last, stray>>

ProtoInit ==
    /\ DialInit
    /\ rx_buffer = <<>> /\ sent = <<>> /\ intact = TRUE
    /\ posts = <<>> /\ numbers = <<>>
    /\ cur_tmp = 0 /\ last = 0 /\ stray = {}

ProtoNext ==
    \/ DialStep
    \/ Arrive
    \/ subpackage
    \/ Done

ProtoSpec == ProtoInit /\ [][ProtoNext]_protoVars

-----------------------------------------------------------------------------
(***************************************************************************)
(* Properties.  Parsing: what is checked of the last buffer, just parsed.  *)
(***************************************************************************)
Parsing == sent # <<>> /\ rx_buffer = <<>>

Messages ==
    [protocol : {"GAT2004", "GAT2014", "GeLinWei"}, colour : Colours,
     total : Nat, auto : BOOLEAN, blink : BOOLEAN,
     cmd : {"none", "off", "H"}, refresh : BOOLEAN]

\* Types; whatever the line has done to a frame of the national protocols,
\* what is posted is a message CommDisplay receives, for 2014 never an
\* automatic count, and every number fits the sixteen bits it is kept in.
ProtoTypeOK ==
    /\ dial \in {"first", "second", "assign", "done"}
    /\ posts \in Seq(Messages) /\ Len(posts) <= Len(sent)
    /\ \A k \in 1 .. Len(posts) :
          /\ posts[k].protocol = "GAT2014" => ~posts[k].auto
          /\ posts[k].protocol # "GeLinWei" =>
                posts[k].cmd = "none" /\ posts[k].refresh
    /\ cur_tmp \in Words16

\* Equal as far as the panel can tell: a GeLinWei total from 100 on becomes
\* a number that is too large to be drawn (199 is the largest).
SameNumber(n, protocol, total) ==
    IF protocol = "GeLinWei" /\ total >= 100 THEN n > 199 ELSE n = total

AsMeant ==
    LET meant == MeantAll(sent)
    IN /\ Len(posts) = Len(meant)
       /\ \A k \in 1 .. Len(meant) :
             /\ \A field \in {"protocol", "colour", "auto", "blink", "cmd"} :
                   posts[k][field] = meant[k][field]
             /\ meant[k].refresh =>
                   SameNumber(numbers[k], meant[k].protocol, meant[k].total)

\* Every intact frame that has a record for this sign is posted as it was
\* meant, and only the first such record; of several GeLinWei frames that the
\* receiver has run together each one, in the order they were sent, whatever
\* the keys and wherever P' and Q' stand.
PostsMeant == Parsing /\ intact /\ (\A k \in 1 .. Len(sent) : Addressed(sent[k]))
                  => AsMeant

\* The number that messages without refresh are posted with is the one of the
\* last message that had one, sent whole to this sign; only what a national
\* sign was sent in between may have replaced it, by zero if the frame was for
\* another sign, by zero or its own total if it was damaged, and frames of
\* GeLinWei for other signs leave it alone (ge_lin_wei.c:132-141).
RefreshCarries ==
    Parsing /\ intact =>
        LET meant == MeantAll(sent) IN
        \A k \in DOMAIN posts \cap DOMAIN meant :
            (\A j \in k .. Len(meant) : ~meant[j].refresh) =>
                \E l \in {last} \cup stray :
                    numbers[k] = l \/ (l >= 100 /\ numbers[k] > 199)

\* A frame for another sign, in another protocol or in clear shows no number
\* here, although both national searches look at a record behind the last.
OthersShowNothing ==
    Parsing /\ intact /\ (\A k \in 1 .. Len(sent) : ~Addressed(sent[k])) =>
        \A k \in 1 .. Len(posts) : posts[k].colour = "dark" \/ numbers[k] = 0

\* A national frame with one byte damaged (in 2004, one of its seven checked
\* bits) never shows a wrong number: nothing, zero, or what was meant.
DamageHarmless ==
    Parsing /\ ~intact /\ Len(sent) = 1 /\ sent[1].protocol # "GeLinWei" =>
        \A k \in 1 .. Len(posts) :
            \/ posts[k].colour = "dark"
            \/ numbers[k] = 0
            \/ Addressed(sent[1]) /\ posts[k] = Meant(sent[1])

\* "A total is sent, and the sign counts it down by itself" (ge_lin_wei.c:177),
\* from up to 199 seconds (countdown.c:362): the number that is posted is the
\* one that was sent.
TotalPosted ==
    Parsing /\ intact /\ Len(posts) = 1 /\ Addressed(sent[1]) =>
        (sent[1].refresh => numbers[1] = Meant(sent[1]).total)
=============================================================================
