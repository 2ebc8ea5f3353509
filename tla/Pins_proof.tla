------------------------------- MODULE Pins_proof -------------------------------
(***************************************************************************)
(* Proofs about Pins, for chains of any length, any colours and any        *)
(* pictures: PinsInv is inductive, and the pins implement the driver of    *)
(* Leds, call by call.  Then the glyphs that are clocked out: every number  *)
(* is drawn the way it is to be read.                                       *)
(***************************************************************************)
EXTENDS Pins, Glyphs, TLAPS

USE PinsAssumption

LEMMA FillIsPicture ==
    ASSUME NEW e \in Bits PROVE Fill(e) \in Pictures /\ Fill(e)[N] = e
BY DEF Fill, Pictures

LEMMA ShiftedIsPicture ==
    ASSUME NEW r \in Pictures, NEW e \in Bits
    PROVE  /\ Shifted(r, e) \in Pictures
           /\ Shifted(r, e)[N] = e
           /\ \A i \in 1 .. N - 1 : Shifted(r, e)[i] = r[i + 1]
BY DEF Shifted, Pictures

\* What the loop body drives is a level.
LEMMA DrivenIsLevel ==
    ASSUME PinsTypeOK, pc = "clock", k < N, job.op # "off", NEW d \in Colour
    PROVE  Driven(d) \in Bits
<1>1. CASE job.op = "clear"
  BY <1>1 DEF Driven, Bits
<1>2. CASE job.op = "draw"
  <2>1. job.picture \in Pictures
    BY <1>2 DEF PinsTypeOK, Jobs
  <2>2. k + 1 \in 1 .. N
    BY DEF PinsTypeOK
  <2> QED BY <1>2, <2>1, <2>2 DEF Driven, PinsTypeOK, Pictures
<1> QED BY <1>1, <1>2 DEF PinsTypeOK, Jobs

LEMMA PinsInitInv == PinsInit => PinsInv
<1> SUFFICES ASSUME PinsInit PROVE PinsInv
  OBVIOUS
<1>1. PinsTypeOK
  <2>1. job \in Jobs
    BY DEF PinsInit, Jobs
  <2>2. line \in [Colour -> Bits] /\ k \in 0 .. N
    BY DEF PinsInit, Bits
  <2> QED BY <2>1, <2>2 DEF PinsInit, PinsTypeOK
<1>2. OrderInv /\ ChainInv /\ DoneInv
  BY DEF PinsInit, OrderInv, ChainInv, DoneInv, Clocking
<1>3. LineInv
  BY FillIsPicture DEF PinsInit, LineInv, AtLeds, Zeros, Bits
<1> QED BY <1>1, <1>2, <1>3 DEF PinsInv

\* A clock pulse keeps the invariant: the places k names move down by one
\* and the new point takes the last.
LEMMA ClockKeeps == PinsInv /\ Clock => PinsInv'
<1> SUFFICES ASSUME PinsInv, Clock PROVE PinsInv'
  OBVIOUS
<1>1. /\ PinsTypeOK /\ OrderInv /\ ChainInv /\ LineInv /\ DoneInv
      /\ pc = "clock" /\ k < N /\ ~lat /\ job.op # "off" /\ Clocking
      /\ UNCHANGED <<lat, on, job, fresh>>
  BY DEF PinsInv, Clock, OrderInv, Clocking
<1>2. \A d \in Colour : Driven(d) \in Bits
  BY <1>1, DrivenIsLevel
<1>3. /\ latched' = latched /\ k' = k + 1
      /\ line' = [d \in Colour |-> Driven(d)]
      /\ regs' = [d \in Colour |-> Shifted(regs[d], Driven(d))]
  BY <1>1 DEF Clock
<1>4. /\ k + 1 = N => pc' = "latHigh"
      /\ k + 1 # N => pc' = "clock"
  BY <1>1 DEF Clock, Clocked
<1>5. PinsTypeOK'
  BY <1>1, <1>2, <1>3, <1>4, ShiftedIsPicture DEF PinsTypeOK, Bits
<1>6. OrderInv'
  BY <1>1, <1>3, <1>4 DEF OrderInv, PinsTypeOK, Clocking
<1>7. ChainInv'
  <2> SUFFICES ASSUME NEW d \in Colour
               PROVE  /\ \A i \in 1 .. k + 1 :
                            regs'[d][N - (k + 1) + i] =
                                IF job.op = "clear" THEN <<0, 0>>
                                ELSE IF d = job.colour THEN job.picture[i]
                                ELSE line'[d]
                      /\ regs'[d][N] = line'[d]
    BY <1>1, <1>3 DEF ChainInv
  <2>1. regs[d] \in Pictures /\ Driven(d) \in Bits
    BY <1>1, <1>2 DEF PinsTypeOK
  <2>2. regs'[d] = Shifted(regs[d], Driven(d)) /\ line'[d] = Driven(d)
    BY <1>3
  <2>3. regs'[d][N] = Driven(d)
    BY <2>1, <2>2, ShiftedIsPicture
  <2>4. job.op # "clear" /\ d # job.colour => Driven(d) = line[d]
    BY <1>1 DEF Driven
  <2>5. ASSUME NEW i \in 1 .. k + 1
        PROVE  regs'[d][N - (k + 1) + i] =
                   IF job.op = "clear" THEN <<0, 0>>
                   ELSE IF d = job.colour THEN job.picture[i] ELSE line'[d]
    <3>1. CASE i = k + 1
      <4>1. N - (k + 1) + i = N
        BY <3>1, <1>1 DEF PinsTypeOK
      <4> QED BY <3>1, <4>1, <2>2, <2>3, <1>1 DEF Driven
    <3>2. CASE i # k + 1
      <4>1. i \in 1 .. k /\ N - (k + 1) + i \in 1 .. N - 1
             /\ N - (k + 1) + i + 1 = N - k + i
        BY <3>2, <1>1 DEF PinsTypeOK
      <4>2. regs'[d][N - (k + 1) + i] = regs[d][N - k + i]
        BY <4>1, <2>1, <2>2, ShiftedIsPicture
      <4> QED BY <4>1, <4>2, <2>2, <2>4, <1>1 DEF ChainInv
    <3> QED BY <3>1, <3>2
  <2> QED BY <2>2, <2>3, <2>5
<1>8. LineInv'
  <2> SUFFICES ASSUME NEW d \in Colour
               PROVE  (\/ AtLeds[d][N] = line[d]
                       \/ Clocking /\ (job.op = "draw" => d = job.colour))'
    BY DEF LineInv
  <2>1. CASE job.op = "draw" /\ d # job.colour
    <3>1. AtLeds[d][N] = line[d]
      BY <1>1, <2>1 DEF LineInv
    <3>2. line'[d] = line[d]
      BY <1>3, <2>1 DEF Driven
    <3> QED BY <3>1, <3>2, <1>1, <1>3 DEF AtLeds
  <2>2. CASE ~(job.op = "draw" /\ d # job.colour)
    BY <2>2, <1>1, <1>4 DEF Clocking
  <2> QED BY <2>1, <2>2
<1>9. DoneInv'
  BY <1>4 DEF DoneInv
<1> QED BY <1>5, <1>6, <1>7, <1>8, <1>9 DEF PinsInv

\* What is in a chain when the latch rises.
LEMMA WholeChain ==
    ASSUME PinsInv, pc = "latHigh", NEW d \in Colour
    PROVE  /\ job.op = "clear" => regs[d] = Zeros
           /\ job.op = "draw" /\ d = job.colour => regs[d] = job.picture
           /\ job.op = "draw" /\ d # job.colour => regs[d] = Fill(line[d])
           /\ regs[d][N] = line[d]
<1>1. k = N /\ N \in Nat \ {0} /\ Clocking
  BY DEF PinsInv, OrderInv, Clocking
<1>2. regs[d] \in Pictures
  BY DEF PinsInv, PinsTypeOK
<1>3. regs[d] = [i \in 1 .. N |-> regs[d][i]]
  BY <1>2 DEF Pictures
<1>4. /\ \A i \in 1 .. N :
            regs[d][i] = IF job.op = "clear" THEN <<0, 0>>
                         ELSE IF d = job.colour THEN job.picture[i] ELSE line[d]
      /\ regs[d][N] = line[d]
  <2>1. \A i \in 1 .. N : N - k + i = i
    BY <1>1
  <2> QED BY <1>1, <2>1 DEF PinsInv, ChainInv
<1>5. job.op = "draw" => job.picture = [i \in 1 .. N |-> job.picture[i]]
  BY DEF PinsInv, PinsTypeOK, Jobs, Pictures
<1>6. job.op = "clear" => regs[d] = Zeros
  BY <1>3, <1>4 DEF Zeros, Fill
<1>7. job.op = "draw" /\ d = job.colour => regs[d] = job.picture
  BY <1>3, <1>4, <1>5
<1>8. job.op = "draw" /\ d # job.colour => regs[d] = Fill(line[d])
  BY <1>3, <1>4 DEF Fill
<1> QED BY <1>4, <1>6, <1>7, <1>8

LEMMA LatHighKeeps == PinsInv /\ LatHigh => PinsInv'
<1> SUFFICES ASSUME PinsInv, LatHigh PROVE PinsInv'
  OBVIOUS
<1>1. /\ PinsTypeOK /\ OrderInv /\ pc = "latHigh" /\ pc' = "oeLow"
      /\ latched' = regs /\ fresh' = FALSE /\ lat' = TRUE
      /\ UNCHANGED <<line, regs, on, k, job>>
  BY DEF PinsInv, LatHigh
<1>2. PinsTypeOK'
  BY <1>1 DEF PinsTypeOK
<1>3. OrderInv' /\ ChainInv'
  BY <1>1 DEF OrderInv, ChainInv, Clocking
<1>4. LineInv'
  BY <1>1, WholeChain DEF LineInv, AtLeds
<1>5. DoneInv'
  <2>1. job.op = "draw" => regs[job.colour] = job.picture
    BY <1>1, WholeChain DEF PinsTypeOK, Jobs
  <2>2. job.op = "clear" => regs = [c \in Colour |-> Zeros]
    BY <1>1, WholeChain DEF PinsTypeOK
  <2> QED BY <1>1, <2>1, <2>2 DEF DoneInv
<1> QED BY <1>2, <1>3, <1>4, <1>5 DEF PinsInv

\* The steps that write neither the data lines nor the chains.
LEMMA OthersKeep ==
    ASSUME PinsInv, (\E j \in Jobs : Call(j)) \/ LatLow \/ OeHigh \/ OeLow
    PROVE  PinsInv'
<1>1. UNCHANGED <<line, regs, latched, fresh>>
  BY DEF Call, LatLow, OeHigh, OeLow, matrix
<1>2. PinsTypeOK'
  <2>1. CASE \E j \in Jobs : Call(j)
    BY <2>1, <1>1 DEF PinsInv, PinsTypeOK, Call, matrix
  <2>2. CASE LatLow \/ OeHigh \/ OeLow
    BY <2>2, <1>1 DEF PinsInv, PinsTypeOK, LatLow, OeHigh, OeLow
  <2> QED BY <2>1, <2>2
<1>3. OrderInv'
  <2>1. OrderInv /\ job.op \in {"draw", "clear", "off"}
    BY DEF PinsInv, PinsTypeOK, Jobs
  <2>2. CASE \E j \in Jobs : Call(j)
    <3>1. job'.op \in {"draw", "clear", "off"}
      BY <1>2 DEF PinsTypeOK, Jobs
    <3> QED BY <2>1, <2>2, <3>1, <1>1 DEF OrderInv, Clocking, Call, matrix
  <2>3. CASE LatLow \/ OeHigh \/ OeLow
    BY <2>1, <2>3, <1>1 DEF PinsInv, DoneInv, OrderInv, Clocking, LatLow, OeHigh, OeLow
  <2> QED BY <2>2, <2>3
<1>4. ChainInv'
  <2>1. Clocking' => k' = 0
    BY DEF PinsInv, PinsTypeOK, OrderInv, Clocking, Call, LatLow, OeHigh, OeLow
  <2> QED BY <2>1 DEF ChainInv
<1>5. LineInv'
  <2>1. ~Clocking
    BY DEF Clocking, Call, LatLow, OeHigh, OeLow
  <2>2. AtLeds' = AtLeds
    BY <1>1 DEF AtLeds
  <2> QED BY <1>1, <2>1, <2>2 DEF PinsInv, LineInv
<1>6. DoneInv'
  BY <1>1 DEF PinsInv, OrderInv, DoneInv, PinsTypeOK, Jobs,
              Call, LatLow, OeHigh, OeLow, matrix
<1> QED BY <1>2, <1>3, <1>4, <1>5, <1>6 DEF PinsInv

\* At every pin write the chains hold what the call has clocked in so far and
\* the lines what was drawn last in their colour.
THEOREM PinsInvariant == PinsSpec => []PinsInv
<1>1. PinsInv /\ [PinsNext]_pinVars => PinsInv'
  <2> SUFFICES ASSUME PinsInv, [PinsNext]_pinVars PROVE PinsInv'
    OBVIOUS
  <2>1. CASE Clock
    BY <2>1, ClockKeeps
  <2>2. CASE LatHigh
    BY <2>2, LatHighKeeps
  <2>3. CASE (\E j \in Jobs : Call(j)) \/ LatLow \/ OeHigh \/ OeLow
    BY <2>3, OthersKeep
  <2>4. CASE UNCHANGED pinVars
    BY <2>4 DEF pinVars, matrix, PinsInv, PinsTypeOK, OrderInv, ChainInv, LineInv,
                DoneInv, AtLeds, Clocking
  <2> QED BY <2>1, <2>2, <2>3, <2>4 DEF PinsNext
<1> QED BY <1>1, PinsInitInv, PTL DEF PinsSpec

\* The rising latch is one call of the driver, for any state in between.
LEMMA LatHighImplements ==
    ASSUME PinsInv, LatHigh PROVE Matrix!LedsNext
<1> DEFINE A == AtLeds
<1>1. /\ PinsTypeOK /\ LineInv /\ pc = "latHigh" /\ job.op # "off"
      /\ latched' = regs /\ fresh' = FALSE /\ on' = on
  BY DEF PinsInv, OrderInv, LatHigh
<1>2. AtLeds' = regs
  BY <1>1 DEF AtLeds
<1>3. on' \in BOOLEAN
  BY <1>1 DEF PinsTypeOK
<1>4. regs = [d \in Colour |-> regs[d]]
  BY <1>1 DEF PinsTypeOK
<1>5. CASE job.op = "clear"
  <2>1. regs = [d \in Colour |-> Zeros]
    BY <1>1, <1>4, <1>5, WholeChain
  <2>2. Zeros = [e \in Bits |-> Fill(e)][<<0, 0>>]
    BY DEF Zeros, Bits
  <2> QED BY <1>2, <1>3, <2>1, <2>2
          DEF Matrix!LedsNext, Matrix!LatchDark, Matrix!AllDark, Matrix!Dark
<1>6. CASE job.op = "draw"
  <2>1. job.colour \in Colour /\ job.picture \in Pictures
    BY <1>1, <1>6 DEF PinsTypeOK, Jobs
  <2>2. A \in [Colour -> Pictures]
    BY <1>1, FillIsPicture DEF AtLeds, PinsTypeOK, Zeros, Bits
  <2>3. ASSUME NEW d \in Colour
        PROVE  regs[d] = IF d = job.colour THEN job.picture
                         ELSE [e \in Bits |-> Fill(e)]
                                  [[f \in Pictures |-> f[N]][A[d]]]
    <3>1. CASE d = job.colour
      BY <3>1, <1>1, <1>6, WholeChain
    <3>2. CASE d # job.colour
      <4>1. A[d][N] = line[d]
        BY <1>1, <1>6, <3>2 DEF LineInv
      <4>2. regs[d] = Fill(line[d]) /\ line[d] \in Bits
        BY <1>1, <1>6, <3>2, WholeChain DEF PinsTypeOK
      <4>3. [f \in Pictures |-> f[N]][A[d]] = line[d]
        BY <2>2, <4>1
      <4> QED BY <3>2, <4>2, <4>3
    <3> QED BY <3>1, <3>2
  <2>4. Matrix!Latch(job.colour, job.picture)
    BY <1>2, <1>4, <2>3 DEF Matrix!Latch
  <2> QED BY <1>3, <2>1, <2>4 DEF Matrix!LedsNext
<1> QED BY <1>1, <1>5, <1>6 DEF PinsTypeOK, Jobs

\* Between two rising latches nothing but OE changes at the LEDs.
LEMMA OthersImplement ==
    ASSUME PinsInv, (\E j \in Jobs : Call(j)) \/ LatLow \/ OeHigh \/ OeLow \/ Clock
    PROVE  Matrix!LedsNext
<1>1. latched' = latched /\ fresh' = fresh /\ on' \in BOOLEAN
  BY DEF PinsInv, PinsTypeOK, OrderInv, Clocking, Call, LatLow, OeHigh, OeLow,
         Clock, matrix
<1>2. AtLeds' = AtLeds
  BY <1>1 DEF AtLeds
<1> QED BY <1>1, <1>2 DEF Matrix!LedsNext

\* The pins implement the driver: whole pictures at the LEDs whenever somebody
\* looks, and the other colours filled with their last point.
THEOREM PinsImplementLeds == PinsSpec => ImplementsLeds
<1>1. PinsInit => Matrix!LedsInit
  <2> SUFFICES ASSUME PinsInit PROVE Matrix!LedsInit
    OBVIOUS
  <2>1. Zeros = [e \in Bits |-> Fill(e)][<<0, 0>>]
    BY DEF Zeros, Bits
  <2> QED BY <2>1 DEF PinsInit, AtLeds, Matrix!LedsInit, Matrix!AllDark, Matrix!Dark
<1>2. PinsInv /\ [PinsNext]_pinVars => [Matrix!LedsNext]_Matrix!ledVars
  <2> SUFFICES ASSUME PinsInv, [PinsNext]_pinVars
               PROVE  [Matrix!LedsNext]_Matrix!ledVars
    OBVIOUS
  <2>1. CASE LatHigh
    BY <2>1, LatHighImplements
  <2>2. CASE (\E j \in Jobs : Call(j)) \/ LatLow \/ OeHigh \/ OeLow \/ Clock
    BY <2>2, OthersImplement
  <2>3. CASE UNCHANGED pinVars
    BY <2>3 DEF pinVars, matrix, AtLeds, Matrix!ledVars
  <2> QED BY <2>1, <2>2, <2>3 DEF PinsNext
<1> QED BY <1>1, <1>2, PinsInvariant, PTL
        DEF PinsSpec, ImplementsLeds, Matrix!LedsSpec

-----------------------------------------------------------------------------
(***************************************************************************)
(* The glyphs.  Bit j of word w in half h comes from point Bit(j) of a byte *)
(* in row RowOf(h, w, j) of the font, and goes to the same row of the       *)
(* matrix.                                                                 *)
(***************************************************************************)
HIDE PinsAssumption

Nibble(j) == (j % 16) \div 4
Bit(j)    == 4 * (j \div 16) + (j % 4)

RowOf(h, w, j) == FirstRow(h, w) + 3 - Nibble(j)

\* Of the four bytes across the panel, the one that word w shows.
ByteOf(w)     == (IF w < 8 THEN 2 ELSE 0) + (w % 2)
ColumnOf(w, j) == 8 * ByteOf(w) + Bit(j)

LEMMA Digits ==
    ASSUME NEW w \in 0 .. 15, NEW j \in 0 .. 31
    PROVE  /\ j \div 16 \in 0 .. 1 /\ Nibble(j) \in 0 .. 3 /\ j % 4 \in 0 .. 3
           /\ Bit(j) \in 0 .. 7
           /\ (w % 8) \div 2 \in 0 .. 3 /\ w % 2 \in 0 .. 1
           /\ ByteOf(w) \in 0 .. 3 /\ ColumnOf(w, j) \in 0 .. 31
BY DEF Nibble, Bit, ByteOf, ColumnOf

LEMMA Columns ==
    ASSUME NEW w \in 0 .. 15, NEW j \in 0 .. 31
    PROVE  /\ 8 * ByteOf(w) + Bit(j) = ColumnOf(w, j)
           /\ w < 8 => /\ 8 * (w % 2) + Bit(j) = ColumnOf(w, j) - 16
                       /\ ColumnOf(w, j) >= 16
           /\ ~(w < 8) => /\ 8 * (w % 2) + Bit(j) = ColumnOf(w, j)
                          /\ ColumnOf(w, j) < 16
<1>1. w % 2 \in 0 .. 1 /\ Bit(j) \in 0 .. 7
  BY Digits
<1>2. CASE w < 8
  BY <1>1, <1>2 DEF ColumnOf, ByteOf
<1>3. CASE ~(w < 8)
  BY <1>1, <1>3 DEF ColumnOf, ByteOf
<1> QED BY <1>2, <1>3

\* The wiring of the panel against the order of the rows in the decoders.
LEMMA PlaceAt ==
    ASSUME NEW h \in 0 .. 1, NEW w \in 0 .. 15, NEW j \in 0 .. 31
    PROVE  /\ FirstRow(h, w) \in Nat /\ RowOf(h, w, j) \in 0 .. 31
           /\ Place(h, w, j) = <<RowOf(h, w, j), ColumnOf(w, j)>>
<1> DEFINE n == Nibble(j)
           b == (w % 8) \div 2
<1>1. n \in 0 .. 3 /\ b \in 0 .. 3 /\ Bit(j) \in 0 .. 7 /\ w % 2 \in 0 .. 1
  BY Digits
<1>2. FirstRow(h, w) = 8 * h + <<4, 0, 20, 16>>[b + 1]
  BY DEF FirstRow
<1>3. Place(h, w, j) =
          <<8 * h + 16 * (b \div 2) + (IF b % 2 = 0 THEN 7 ELSE 3) - n,
            ColumnOf(w, j)>>
  BY DEF Place, ColumnOf, ByteOf, Bit, Nibble
<1> HIDE DEF n, b
<1>4. /\ FirstRow(h, w) \in Nat /\ FirstRow(h, w) + 3 - n \in 0 .. 31
      /\ 8 * h + 16 * (b \div 2) + (IF b % 2 = 0 THEN 7 ELSE 3) - n =
             FirstRow(h, w) + 3 - n
  <2>1. CASE b = 0
    BY <1>1, <1>2, <2>1
  <2>2. CASE b = 1
    BY <1>1, <1>2, <2>2
  <2>3. CASE b = 2
    BY <1>1, <1>2, <2>3
  <2>4. CASE b = 3
    BY <1>1, <1>2, <2>4
  <2> QED BY <1>1, <2>1, <2>2, <2>3, <2>4
<1> QED BY <1>3, <1>4 DEF RowOf, n

\* A point of the font.
Point(table, digit, r, c) == <<table, digit, r, c>>

LEMMA GlyphCell ==
    ASSUME NEW t, NEW n, NEW bytes \in Nat,
           NEW r \in 0 .. 31, NEW b \in 0 .. bytes - 1, NEW e \in 0 .. 7
    PROVE  Glyph(t, n, bytes)[r][b][e] = Point(t, n, r, 8 * b + e)
BY DEF Glyph, Point

LEMMA OneDigitCell ==
    ASSUME NEW n, NEW r \in 0 .. 31, NEW b \in 0 .. 3, NEW e \in 0 .. 7
    PROVE  q(n)[r][b][e] = Point("1bit", n, r, 8 * b + e)
<1>1. 4 \in Nat /\ b \in 0 .. 4 - 1
  OBVIOUS
<1> QED BY <1>1, GlyphCell, Zenon DEF q

LEMMA TwoDigitCell ==
    ASSUME NEW n, NEW r \in 0 .. 31, NEW b \in 0 .. 1, NEW e \in 0 .. 7
    PROVE  p(n)[r][b][e] = Point("2bit", n, r, 8 * b + e)
<1>1. 2 \in Nat /\ b \in 0 .. 2 - 1
  OBVIOUS
<1> QED BY <1>1, GlyphCell, Zenon DEF p

LEMMA ThreeDigitCell ==
    ASSUME NEW n, NEW r \in 0 .. 31, NEW b \in 0 .. 1, NEW e \in 0 .. 7
    PROVE  s(n)[r][b][e] = Point("3bit", n, r, 8 * b + e)
<1>1. 2 \in Nat /\ b \in 0 .. 2 - 1
  OBVIOUS
<1> QED BY <1>1, GlyphCell, Zenon DEF s

LEMMA OneCell ==
    ASSUME NEW r \in 0 .. 31, NEW e \in 0 .. 7
    PROVE  first_one_3bit[r][0][e] = Point("one", 1, r, e)
<1>1. 1 \in Nat /\ 0 \in 0 .. 1 - 1
  OBVIOUS
<1>2. first_one_3bit[r][0][e] = Point("one", 1, r, 8 * 0 + e)
  BY <1>1, GlyphCell, Zenon DEF first_one_3bit
<1>3. 8 * 0 + e = e
  OBVIOUS
<1> QED BY <1>2, <1>3, Zenon

\* Point c of row r of a number from 100 on with the tens t and the units u.
HundredsPoint(t, u, r, c) ==
    IF c < 8 THEN Point("one", 1, r, c)
    ELSE IF c < 20 THEN Point("3bit", t, r, c - 8)
    ELSE Point("3bit", u, r, c - 20)

\* What is meant to be at a place, in terms of the font.
LEMMA MeantPoint ==
    ASSUME NEW v, NEW r, NEW c
    PROVE  Meant(v, r, c) =
               IF v < 10 THEN Point("1bit", v - 1, r, c)
               ELSE IF v < 100
               THEN IF c < 16 THEN Point("2bit", v \div 10, r, c)
                              ELSE Point("2bit", v % 10, r, c - 16)
               ELSE HundredsPoint((v \div 10) % 10, v % 10, r, c)
BY Zenon DEF Meant, Point, HundredsPoint

\* decode puts the four rows into a word from the last one up, nibble by
\* nibble.
LEMMA WordAt ==
    ASSUME NEW f, NEW b, NEW r \in Nat, NEW j \in 0 .. 31
    PROVE  Word(f, b, r)[j] = f[r + 3 - Nibble(j)][b][Bit(j)]
<1> DEFINE n == Nibble(j)
<1>1. n \in 0 .. 3
  BY Digits
<1>2. Word(f, b, r)[j] =
          <<f[r + 3][b], f[r + 2][b], f[r + 1][b], f[r][b]>>[n + 1][Bit(j)]
  BY DEF Word, decode, Nibble, Bit
<1> HIDE DEF n
<1>3. /\ n = 0 => r + 3 - n = r + 3
      /\ n = 1 => r + 3 - n = r + 2
      /\ n = 2 => r + 3 - n = r + 1
      /\ n = 3 => r + 3 - n = r
  OBVIOUS
<1>4. <<f[r + 3][b], f[r + 2][b], f[r + 1][b], f[r][b]>>[n + 1] =
          f[r + 3 - n][b]
  BY <1>1, <1>3
<1> QED BY <1>2, <1>4 DEF n

LEMMA TwoDigits ==
    ASSUME NEW f1, NEW f2, NEW h \in 0 .. 1, NEW w \in 0 .. 15
    PROVE  two_bit_decode(f1, f2)[h][w] =
               Word(IF w < 8 THEN f1 ELSE f2, w % 2, FirstRow(h, w))
BY DEF two_bit_decode

LEMMA ThreeDigits ==
    ASSUME NEW f, NEW h \in 0 .. 1, NEW w \in 0 .. 15
    PROVE  three_bit_decode(f)[h][w] =
               Word(f, ByteOf(w), FirstRow(h, w))
BY DEF three_bit_decode, ByteOf

\* A row of a number from 100 on, byte by byte.
LEMMA HundredsByte ==
    ASSUME NEW f, NEW g, NEW r, NEW e \in 0 .. 7
    PROVE  LET row == three_bit_data_decode(f, g, r) IN
           /\ row[0][e] = first_one_3bit[r][0][e]
           /\ row[1][e] = f[r][0][e]
           /\ row[2][e] = IF e < 4 THEN f[r][1][e] ELSE g[r][0][e - 4]
           /\ row[3][e] = IF e < 4 THEN g[r][0][e + 4] ELSE g[r][1][e - 4]
BY DEF three_bit_data_decode

\* The points of that row in reading order.
LEMMA HundredsRow ==
    ASSUME NEW t, NEW u, NEW r \in 0 .. 31, NEW b \in 0 .. 3, NEW e \in 0 .. 7
    PROVE  three_bit_data_decode(s(t), s(u), r)[b][e] =
               HundredsPoint(t, u, r, 8 * b + e)
<1> DEFINE one == "one"
           three == "3bit"
           row == three_bit_data_decode(s(t), s(u), r)
<1>1. \A c : HundredsPoint(t, u, r, c) = IF c < 8 THEN Point(one, 1, r, c)
                                         ELSE IF c < 20 THEN Point(three, t, r, c - 8)
                                         ELSE Point(three, u, r, c - 20)
  BY Zenon DEF HundredsPoint
<1>2. first_one_3bit[r][0][e] = Point(one, 1, r, e)
  BY OneCell
<1>3. \A x \in 0 .. 7 : \A y \in 0 .. 1 :
         /\ s(t)[r][y][x] = Point(three, t, r, 8 * y + x)
         /\ s(u)[r][y][x] = Point(three, u, r, 8 * y + x)
  BY ThreeDigitCell, Zenon
<1> HIDE DEF one, three
<1>4. /\ row[0][e] = first_one_3bit[r][0][e]
      /\ row[1][e] = s(t)[r][0][e]
      /\ row[2][e] = IF e < 4 THEN s(t)[r][1][e] ELSE s(u)[r][0][e - 4]
      /\ row[3][e] = IF e < 4 THEN s(u)[r][0][e + 4] ELSE s(u)[r][1][e - 4]
  BY HundredsByte
<1> HIDE DEF row
<1>5. row[b][e] = HundredsPoint(t, u, r, 8 * b + e)
  <2>1. CASE b = 0
    BY <1>1, <1>2, <1>4, <2>1
  <2>2. CASE b = 1
    BY <1>1, <1>3, <1>4, <2>2
  <2>3. CASE b = 2
    BY <1>1, <1>3, <1>4, <2>3
  <2>4. CASE b = 3
    BY <1>1, <1>3, <1>4, <2>4
  <2> QED BY <2>1, <2>2, <2>3, <2>4
<1> QED BY <1>5 DEF row

\* Whatever the layout, a point is where it is meant to be.
LEMMA DrawnAsMeant ==
    ASSUME NEW v \in 1 .. 199,
           NEW h \in 0 .. 1, NEW w \in 0 .. 15, NEW j \in 0 .. 31
    PROVE  Set_LED_Display(v)[h][w][j] =
               Meant(v, RowOf(h, w, j), ColumnOf(w, j))
<1> DEFINE r == RowOf(h, w, j)
           c == ColumnOf(w, j)
           e == Bit(j)
           b == ByteOf(w)
<1>1. r \in 0 .. 31 /\ FirstRow(h, w) \in Nat
  BY PlaceAt
<1>2. /\ w % 2 \in 0 .. 1 /\ b \in 0 .. 3 /\ e \in 0 .. 7 /\ c \in 0 .. 31
      /\ 8 * b + e = c
      /\ w < 8 => 8 * (w % 2) + e = c - 16 /\ c >= 16
      /\ ~(w < 8) => 8 * (w % 2) + e = c /\ c < 16
  <2>1. w % 2 \in 0 .. 1 /\ b \in 0 .. 3 /\ e \in 0 .. 7 /\ c \in 0 .. 31
    BY Digits
  <2>2. /\ 8 * b + e = c
        /\ w < 8 => 8 * (w % 2) + e = c - 16 /\ c >= 16
        /\ ~(w < 8) => 8 * (w % 2) + e = c /\ c < 16
    BY Columns
  <2> QED BY <2>1, <2>2, Zenon
<1>3. \A f, y : Word(f, y, FirstRow(h, w))[j] = f[r][y][e]
  BY <1>1, WordAt DEF RowOf
<1> HIDE DEF r, e, c, b
<1> DEFINE t1 == "1bit"
           t2 == "2bit"
<1>4. Set_LED_Display(v)[h][w][j] = Meant(v, r, c)
  <2>1. Meant(v, r, c) =
            IF v < 10 THEN Point(t1, v - 1, r, c)
            ELSE IF v < 100
            THEN IF c < 16 THEN Point(t2, v \div 10, r, c)
                           ELSE Point(t2, v % 10, r, c - 16)
            ELSE HundredsPoint((v \div 10) % 10, v % 10, r, c)
    BY MeantPoint
  <2>2. \A n : \A y \in 0 .. 3 : q(n)[r][y][e] = Point(t1, n, r, 8 * y + e)
    BY <1>1, <1>2, OneDigitCell, Zenon
  <2>3. \A n : \A y \in 0 .. 1 : p(n)[r][y][e] = Point(t2, n, r, 8 * y + e)
    BY <1>1, <1>2, TwoDigitCell, Zenon
  <2>4. ASSUME NEW t, NEW u
        PROVE  three_bit_data_decode(s(t), s(u), r)[b][e] =
                   HundredsPoint(t, u, r, c)
    <3>1. r \in 0 .. 31 /\ b \in 0 .. 3 /\ e \in 0 .. 7 /\ 8 * b + e = c
      BY <1>1, <1>2
    <3>2. three_bit_data_decode(s(t), s(u), r)[b][e] =
              HundredsPoint(t, u, r, 8 * b + e)
      BY <3>1, HundredsRow, Zenon
    <3> QED BY <3>1, <3>2, Zenon
  <2> HIDE DEF t1, t2
  <2>5. CASE v < 10
    <3>1. v % 10 = v
      BY <2>5
    <3>2. Set_LED_Display(v) = three_bit_decode(q(v - 1))
      BY <2>5, <3>1 DEF Set_LED_Display, one_bit_display
    <3>3. Set_LED_Display(v)[h][w][j] = q(v - 1)[r][b][e]
      BY <1>3, <3>2, ThreeDigits DEF b
    <3>4. q(v - 1)[r][b][e] = Point(t1, v - 1, r, 8 * b + e)
      BY <1>2, <2>2
    <3> QED BY <1>2, <2>1, <2>5, <3>3, <3>4
  <2>6. CASE v >= 10 /\ v < 100
    <3>1. Set_LED_Display(v) = two_bit_decode(p(v % 10), p(v \div 10))
      BY <2>6 DEF Set_LED_Display, two_bit_display
    <3>2. CASE w < 8
      <4>1. Set_LED_Display(v)[h][w][j] = p(v % 10)[r][w % 2][e]
        BY <1>3, <3>1, <3>2, TwoDigits
      <4>2. p(v % 10)[r][w % 2][e] = Point(t2, v % 10, r, 8 * (w % 2) + e)
        BY <1>2, <2>3
      <4>3. 8 * (w % 2) + e = c - 16 /\ ~(c < 16) /\ ~(v < 10)
        BY <1>2, <2>6, <3>2
      <4> QED BY <2>1, <2>6, <4>1, <4>2, <4>3, Zenon
    <3>3. CASE ~(w < 8)
      <4>1. Set_LED_Display(v)[h][w][j] = p(v \div 10)[r][w % 2][e]
        BY <1>3, <3>1, <3>3, TwoDigits
      <4>2. p(v \div 10)[r][w % 2][e] = Point(t2, v \div 10, r, 8 * (w % 2) + e)
        BY <1>2, <2>3
      <4>3. 8 * (w % 2) + e = c /\ c < 16 /\ ~(v < 10)
        BY <1>2, <2>6, <3>3
      <4> QED BY <2>1, <2>6, <4>1, <4>2, <4>3, Zenon
    <3> QED BY <3>2, <3>3
  <2>7. CASE v >= 100
    <3> DEFINE t == (v % 100) \div 10
               u == v % 10
               f == [i \in 0 .. 31 |-> three_bit_data_decode(s(t), s(u), i)]
    <3>1. Set_LED_Display(v) = three_bit_decode(f)
      BY <2>7 DEF Set_LED_Display, three_bit_display
    <3>2. t = (v \div 10) % 10
      BY <2>7
    <3>3. f[r] = three_bit_data_decode(s(t), s(u), r)
      BY <1>1
    <3> HIDE DEF t, u, f
    <3>4. Set_LED_Display(v)[h][w][j] = f[r][b][e]
      BY <1>3, <3>1, ThreeDigits DEF b
    <3> QED BY <1>2, <2>1, <2>4, <2>7, <3>2, <3>3, <3>4 DEF u
  <2> QED BY <2>5, <2>6, <2>7
<1> QED BY <1>4 DEF r, c

LEMMA PointIsMeant ==
    ASSUME NEW v \in 1 .. 199, NEW x \in Points
    PROVE  Set_LED_Display(v)[x[1]][x[2]][x[3]] =
               Meant(v, Place(x[1], x[2], x[3])[1], Place(x[1], x[2], x[3])[2])
<1>1. x[1] \in 0 .. 1 /\ x[2] \in 0 .. 15 /\ x[3] \in 0 .. 31
  BY DEF Points
<1> DEFINE r == RowOf(x[1], x[2], x[3])
           c == ColumnOf(x[2], x[3])
<1>2. Place(x[1], x[2], x[3]) = <<r, c>>
  BY <1>1, PlaceAt
<1>3. Set_LED_Display(v)[x[1]][x[2]][x[3]] = Meant(v, r, c)
  BY <1>1, DrawnAsMeant
<1>4. <<r, c>>[1] = r /\ <<r, c>>[2] = c
  OBVIOUS
<1> QED BY <1>2, <1>3, <1>4, Zenon

\* Every number from 1 to 199 is readable: whichever layout it takes, its
\* points come out of the chains where the panel has them side by side and in
\* reading order (countdown.c, decode to Set_LED_Display).
THEOREM NumbersReadRight == GlyphsSpec => []ReadsRight
<1> DEFINE Shown == value \in 0 .. 199
<1>1. GlyphsInit => Shown
  BY DEF GlyphsInit
<1>2. Shown /\ [ShowValue \/ Return]_value => Shown'
  BY DEF ShowValue, Return
<1>3. Shown => ReadsRight
  <2> SUFFICES ASSUME value \in 1 .. 199, NEW x \in Points
               PROVE  Set_LED_Display(value)[x[1]][x[2]][x[3]] =
                          Meant(value, Place(x[1], x[2], x[3])[1],
                                       Place(x[1], x[2], x[3])[2])
    BY DEF ReadsRight
  <2> QED BY PointIsMeant
<1> HIDE DEF Shown
<1> QED BY <1>1, <1>2, <1>3, PTL DEF GlyphsSpec

-----------------------------------------------------------------------------
(***************************************************************************)
(* Each point once: the wiring is one to one.  RowOf and ColumnOf are      *)
(* undone digit by digit.                                                  *)
(***************************************************************************)

\* The place that shows row r and column c.
Wired(r, c) ==
    LET block == 2 * (r \div 16) + (IF (r % 8) \div 4 = 1 THEN 0 ELSE 1) IN
    <<(r % 16) \div 8,
      (IF c < 16 THEN 8 ELSE 0) + 2 * block + (c % 16) \div 8,
      16 * ((c % 8) \div 4) + 4 * (3 - (r % 4)) + (c % 4)>>

\* What a row is made of: the half of the panel, the block of four rows, the
\* row in the block.
LEMMA RowDigits ==
    ASSUME NEW h \in 0 .. 1, NEW w \in 0 .. 15, NEW j \in 0 .. 31
    PROVE  LET r == RowOf(h, w, j) IN
           /\ (r % 16) \div 8 = h /\ 3 - (r % 4) = Nibble(j)
           /\ 2 * (r \div 16) + (IF (r % 8) \div 4 = 1 THEN 0 ELSE 1) =
                  (w % 8) \div 2
<1> DEFINE n == Nibble(j)
           b == (w % 8) \div 2
           r == FirstRow(h, w) + 3 - n
<1>1. n \in 0 .. 3 /\ b \in 0 .. 3
  BY Digits
<1>2. FirstRow(h, w) = 8 * h + <<4, 0, 20, 16>>[b + 1]
  BY DEF FirstRow
<1> HIDE DEF n, b
<1>3. /\ (r % 16) \div 8 = h /\ 3 - (r % 4) = n
      /\ 2 * (r \div 16) + (IF (r % 8) \div 4 = 1 THEN 0 ELSE 1) = b
  <2>1. CASE b = 0
    BY <1>1, <1>2, <2>1
  <2>2. CASE b = 1
    BY <1>1, <1>2, <2>2
  <2>3. CASE b = 2
    BY <1>1, <1>2, <2>3
  <2>4. CASE b = 3
    BY <1>1, <1>2, <2>4
  <2> QED BY <1>1, <2>1, <2>2, <2>3, <2>4
<1> QED BY <1>3 DEF RowOf, n, b

\* Conversely, a row is made of them.
LEMMA RowFrom ==
    ASSUME NEW r \in 0 .. 31
    PROVE  LET h == (r % 16) \div 8
               b == 2 * (r \div 16) + (IF (r % 8) \div 4 = 1 THEN 0 ELSE 1)
               n == 3 - (r % 4)
           IN /\ h \in 0 .. 1 /\ b \in 0 .. 3 /\ n \in 0 .. 3
              /\ 8 * h + 16 * (b \div 2) + (IF b % 2 = 0 THEN 7 ELSE 3) - n = r
OBVIOUS

\* The words and bits, put together and taken apart.
LEMMA WordFrom ==
    ASSUME NEW c \in 0 .. 31, NEW b \in 0 .. 3, NEW w,
           w = (IF c < 16 THEN 8 ELSE 0) + 2 * b + (c % 16) \div 8
    PROVE  /\ w \in 0 .. 15 /\ (w % 8) \div 2 = b /\ w % 2 = (c % 16) \div 8
           /\ w < 8 <=> c >= 16
OBVIOUS

LEMMA BitFrom ==
    ASSUME NEW c \in 0 .. 31, NEW n \in 0 .. 3, NEW j,
           j = 16 * ((c % 8) \div 4) + 4 * n + (c % 4)
    PROVE  /\ j \in 0 .. 31 /\ (j % 16) \div 4 = n
           /\ j \div 16 = (c % 8) \div 4 /\ j % 4 = c % 4
OBVIOUS

LEMMA ColumnDigits ==
    ASSUME NEW w \in 0 .. 15, NEW j \in 0 .. 31
    PROVE  LET c == ColumnOf(w, j) IN
           /\ c < 16 <=> w >= 8
           /\ (c % 16) \div 8 = w % 2
           /\ (c % 8) \div 4 = j \div 16 /\ c % 4 = j % 4
BY DEF ColumnOf, ByteOf, Bit

LEMMA ColumnFrom ==
    ASSUME NEW c \in 0 .. 31
    PROVE  c = (IF c >= 16 THEN 16 ELSE 0) + 8 * ((c % 16) \div 8)
                   + 4 * ((c % 8) \div 4) + (c % 4)
OBVIOUS

LEMMA PlaceFrom ==
    ASSUME NEW w \in 0 .. 15, NEW j \in 0 .. 31
    PROVE  /\ w = (IF w >= 8 THEN 8 ELSE 0) + 2 * ((w % 8) \div 2) + (w % 2)
           /\ j = 16 * (j \div 16) + 4 * Nibble(j) + (j % 4)
<1>1. w = (IF w >= 8 THEN 8 ELSE 0) + 2 * ((w % 8) \div 2) + (w % 2)
  OBVIOUS
<1>2. j = 16 * (j \div 16) + 4 * Nibble(j) + (j % 4)
  BY DEF Nibble
<1> QED BY <1>1, <1>2

\* Every point of the panel is wired, to one place.
LEMMA WiredPlace ==
    ASSUME NEW r \in 0 .. 31, NEW c \in 0 .. 31
    PROVE  /\ Wired(r, c) \in Points
           /\ Place(Wired(r, c)[1], Wired(r, c)[2], Wired(r, c)[3]) = <<r, c>>
<1> DEFINE h == (r % 16) \div 8
           b == 2 * (r \div 16) + (IF (r % 8) \div 4 = 1 THEN 0 ELSE 1)
           n == 3 - (r % 4)
           w == (IF c < 16 THEN 8 ELSE 0) + 2 * b + (c % 16) \div 8
           j == 16 * ((c % 8) \div 4) + 4 * n + (c % 4)
<1>1. Wired(r, c) = <<h, w, j>>
  BY DEF Wired
<1>2. /\ h \in 0 .. 1 /\ b \in 0 .. 3 /\ n \in 0 .. 3
      /\ 8 * h + 16 * (b \div 2) + (IF b % 2 = 0 THEN 7 ELSE 3) - n = r
  BY RowFrom
<1> HIDE DEF h, b, n
<1>3. /\ w \in 0 .. 15 /\ (w % 8) \div 2 = b /\ w % 2 = (c % 16) \div 8
      /\ w < 8 <=> c >= 16
  BY <1>2, WordFrom
<1>4. /\ j \in 0 .. 31 /\ (j % 16) \div 4 = n
      /\ j \div 16 = (c % 8) \div 4 /\ j % 4 = c % 4
  BY <1>2, BitFrom
<1> HIDE DEF w, j
<1>5. Place(h, w, j) = <<r, c>>
  <2>1. (IF w < 8 THEN 16 ELSE 0) + 8 * (w % 2) + 4 * (j \div 16) + (j % 4) = c
    BY <1>3, <1>4, ColumnFrom
  <2>2. Place(h, w, j) =
            <<8 * h + 16 * (b \div 2) + (IF b % 2 = 0 THEN 7 ELSE 3) - n,
              (IF w < 8 THEN 16 ELSE 0) + 8 * (w % 2) + 4 * (j \div 16) + (j % 4)>>
    BY <1>3, <1>4, Zenon DEF Place
  <2> QED BY <1>2, <2>1, <2>2, Zenon
<1>6. <<h, w, j>> \in Points
  BY <1>2, <1>3, <1>4 DEF Points
<1> QED BY <1>1, <1>5, <1>6

\* No two places are at one point.
LEMMA Unwired ==
    ASSUME NEW h \in 0 .. 1, NEW w \in 0 .. 15, NEW j \in 0 .. 31
    PROVE  Wired(RowOf(h, w, j), ColumnOf(w, j)) = <<h, w, j>>
<1> DEFINE r == RowOf(h, w, j)
           c == ColumnOf(w, j)
           b == (w % 8) \div 2
<1>1. /\ (r % 16) \div 8 = h /\ 3 - (r % 4) = Nibble(j)
      /\ 2 * (r \div 16) + (IF (r % 8) \div 4 = 1 THEN 0 ELSE 1) = b
  BY RowDigits
<1>2. /\ c < 16 <=> w >= 8
      /\ (c % 16) \div 8 = w % 2
      /\ (c % 8) \div 4 = j \div 16 /\ c % 4 = j % 4
  BY ColumnDigits
<1>3. /\ w = (IF w >= 8 THEN 8 ELSE 0) + 2 * b + (w % 2)
      /\ j = 16 * (j \div 16) + 4 * Nibble(j) + (j % 4)
  BY PlaceFrom
<1> HIDE DEF r, c, b
<1>4. Wired(r, c) = <<h, (IF c < 16 THEN 8 ELSE 0) + 2 * b + (c % 16) \div 8,
                      16 * ((c % 8) \div 4) + 4 * Nibble(j) + (c % 4)>>
  BY <1>1, Zenon DEF Wired
<1>5. (IF c < 16 THEN 8 ELSE 0) = (IF w >= 8 THEN 8 ELSE 0)
  BY <1>2
<1>6. Wired(r, c) = <<h, w, j>>
  BY <1>2, <1>3, <1>4, <1>5, Zenon
<1> QED BY <1>6 DEF r, c

LEMMA PlaceWired ==
    ASSUME NEW x \in Points
    PROVE  LET at == Place(x[1], x[2], x[3]) IN
           at \in Panel /\ Wired(at[1], at[2]) = x
<1>1. /\ x[1] \in 0 .. 1 /\ x[2] \in 0 .. 15 /\ x[3] \in 0 .. 31
      /\ x = <<x[1], x[2], x[3]>>
  BY DEF Points
<1> DEFINE r == RowOf(x[1], x[2], x[3])
           c == ColumnOf(x[2], x[3])
<1>2. /\ Place(x[1], x[2], x[3]) = <<r, c>>
      /\ r \in 0 .. 31 /\ c \in 0 .. 31
  BY <1>1, PlaceAt, Digits
<1>3. Wired(r, c) = x
  BY <1>1, Unwired
<1> HIDE DEF r, c
<1> QED BY <1>2, <1>3 DEF Panel

\* The wiring for which two_bit_decode and three_bit_decode reorder the rows
\* (countdown.c:155-233) is one to one: every point of the panel shows one
\* bit of the 16 words that bank32 clocks out for each half.
THEOREM WiringIsOneToOne ==
    /\ \A x \in Points : Place(x[1], x[2], x[3]) \in Panel
    /\ \A m \in Panel : \E x \in Points : Place(x[1], x[2], x[3]) = m
    /\ \A x, y \in Points :
          Place(x[1], x[2], x[3]) = Place(y[1], y[2], y[3]) => x = y
<1>1. ASSUME NEW m \in Panel
      PROVE  \E x \in Points : Place(x[1], x[2], x[3]) = m
  <2>1. m[1] \in 0 .. 31 /\ m[2] \in 0 .. 31 /\ m = <<m[1], m[2]>>
    BY DEF Panel
  <2>2. /\ Wired(m[1], m[2]) \in Points
        /\ Place(Wired(m[1], m[2])[1], Wired(m[1], m[2])[2],
                 Wired(m[1], m[2])[3]) = m
    BY <2>1, WiredPlace, Zenon
  <2> QED BY <2>2, Zenon
<1>2. \A x \in Points : Place(x[1], x[2], x[3]) \in Panel
  BY PlaceWired
<1>3. ASSUME NEW x \in Points, NEW y \in Points,
             Place(x[1], x[2], x[3]) = Place(y[1], y[2], y[3])
      PROVE  x = y
  BY <1>3, PlaceWired, Zenon
<1> QED BY <1>1, <1>2, <1>3, Zenon

\* The words of a decoder take every point of the glyph once
\* (countdown.c, the *_decode functions).
THEOREM EveryPointIsDrawn == GlyphsSpec => []EachPointOnce
<1>1. ReadsRight => EachPointOnce
  <2> SUFFICES ASSUME ReadsRight, value # 0
               PROVE  {Set_LED_Display(value)[x[1]][x[2]][x[3]] : x \in Points} =
                          {Meant(value, m[1], m[2]) : m \in Panel}
    BY DEF EachPointOnce
  <2> DEFINE Lit(x) == Set_LED_Display(value)[x[1]][x[2]][x[3]]
             Read(m)  == Meant(value, m[1], m[2])
  <2>1. \A x \in Points : Place(x[1], x[2], x[3]) \in Panel
                            /\ Lit(x) = Read(Place(x[1], x[2], x[3]))
    BY WiringIsOneToOne, Zenon DEF ReadsRight
  <2>2. \A m \in Panel : \E x \in Points : Place(x[1], x[2], x[3]) = m
    BY WiringIsOneToOne, Zenon
  <2> HIDE DEF Lit, Read
  <2>3. {Lit(x) : x \in Points} = {Read(m) : m \in Panel}
    BY <2>1, <2>2
  <2> QED BY <2>3 DEF Lit, Read
<1> QED BY <1>1, NumbersReadRight, PTL
=============================================================================
