--------------------------------- MODULE Glyphs ---------------------------------
(***************************************************************************)
(* How a number becomes the two chains of 512 points that bank32 clocks    *)
(* out, one for each half of the matrix (countdown.c, decode to            *)
(* Set_LED_Display).  Whether a point of a glyph is lit does not matter    *)
(* here, only where it goes: a byte is its eight points, each named by the *)
(* table, the digit, the row and the column of the font (font.h).          *)
(***************************************************************************)
EXTENDS Naturals

VARIABLE value      \* the number that is being drawn, 0: none

\* frame[row][byte][bit]: a table of font.h, the leftmost point in bit 0.
Glyph(table, digit, bytes) ==
    [r \in 0 .. 31 |->
        [b \in 0 .. bytes - 1 |->
            [j \in 0 .. 7 |-> <<table, digit, r, 8 * b + j>>]]]

p(d) == Glyph("2bit", d, 2)
q(d) == Glyph("1bit", d, 4)
s(d) == Glyph("3bit", d, 2)
first_one_3bit == Glyph("one", 1, 1)

\* Four bytes of one column become a word: the low halves of the bytes in
\* the low half-word, the high halves in the high one.
decode(d1, d2, d3, d4) ==
    [j \in 0 .. 31 |->
        <<d1, d2, d3, d4>>[(j % 16) \div 4 + 1][4 * (j \div 16) + (j % 4)]]

\* Mutant: the third pair of words repeats the rows of the first.
FirstRow_Repeated(h, k) == 8 * h + <<4, 0, 4, 16>>[(k % 8) \div 2 + 1]

\* The first of the four rows in word k of half h, 0 for up, 1 for down.
FirstRow(h, k) == 8 * h + <<4, 0, 20, 16>>[(k % 8) \div 2 + 1]

Word(frame, b, r) ==
    decode(frame[r + 3][b], frame[r + 2][b], frame[r + 1][b], frame[r][b])

\* up[k] and down[k], the right half of the matrix first.
two_bit_decode(frame, frame_t) ==
    [h \in 0 .. 1 |-> [k \in 0 .. 15 |->
        Word(IF k < 8 THEN frame ELSE frame_t, k % 2, FirstRow(h, k))]]

three_bit_decode(frame) ==
    [h \in 0 .. 1 |-> [k \in 0 .. 15 |->
        Word(frame, IF k < 8 THEN 2 + (k % 2) ELSE k % 2, FirstRow(h, k))]]

\* Mutant: the halves of the units' first byte are taken in the wrong order.
three_bit_data_decode_Nibbles(frame, frame1, i) ==
    [b \in 0 .. 3 |->
        CASE b = 0 -> first_one_3bit[i][0]
          [] b = 1 -> frame[i][0]
          [] b = 2 -> [j \in 0 .. 7 |-> IF j < 4 THEN frame[i][1][j]
                                                 ELSE frame1[i][0][j]]
          [] b = 3 -> [j \in 0 .. 7 |-> IF j < 4 THEN frame1[i][0][j]
                                                 ELSE frame1[i][1][j - 4]]]

\* Row i of a number from 100 on: eight columns of the one, twelve of each
\* other digit.
three_bit_data_decode(frame, frame1, i) ==
    [b \in 0 .. 3 |->
        CASE b = 0 -> first_one_3bit[i][0]
          [] b = 1 -> frame[i][0]
          [] b = 2 -> [j \in 0 .. 7 |-> IF j < 4 THEN frame[i][1][j]
                                                 ELSE frame1[i][0][j - 4]]
          [] b = 3 -> [j \in 0 .. 7 |-> IF j < 4 THEN frame1[i][0][j + 4]
                                                 ELSE frame1[i][1][j - 4]]]

three_bit_display(v) ==
    three_bit_decode([i \in 0 .. 31 |->
        three_bit_data_decode(s((v % 100) \div 10), s(v % 10), i)])

two_bit_display(v) == two_bit_decode(p(v % 10), p(v \div 10))

\* q is indexed from the glyph of 1.
one_bit_display(v) == three_bit_decode(q((v % 10) - 1))

Set_LED_Display(v) ==
    IF v >= 100 THEN three_bit_display(v)
    ELSE IF v >= 10 THEN two_bit_display(v)
    ELSE one_bit_display(v)

\* A call of Set_LED_Display with a number the sign can show, and its return.
ShowValue == value = 0 /\ value' \in 1 .. 199

Return == value # 0 /\ value' = 0

GlyphsInit == value = 0

GlyphsSpec == GlyphsInit /\ [][ShowValue \/ Return]_value

-----------------------------------------------------------------------------
(***************************************************************************)
(* The matrix, and what is meant to be on it.                              *)
(***************************************************************************)

\* Where the matrix has bit j of word k of half h, by row and column.  The
\* right half of the columns is wired first.  There, each two words are a
\* block of 4 by 16, written from its last row up; the second block is above
\* the first and the two others are 16 rows below them.
Place(h, k, j) ==
    LET block == (k % 8) \div 2 IN
    <<8 * h + 16 * (block \div 2) + (IF block % 2 = 0 THEN 7 ELSE 3)
         - ((j % 16) \div 4),
      (IF k < 8 THEN 16 ELSE 0) + 8 * (k % 2) + 4 * (j \div 16) + (j % 4)>>

Points == (0 .. 1) \X (0 .. 15) \X (0 .. 31)
Panel == (0 .. 31) \X (0 .. 31)

\* The digits side by side, each in its own part of the row.
Meant(v, r, c) ==
    IF v < 10 THEN <<"1bit", v - 1, r, c>>
    ELSE IF v < 100
    THEN IF c < 16 THEN <<"2bit", v \div 10, r, c>>
                   ELSE <<"2bit", v % 10, r, c - 16>>
    ELSE IF c < 8 THEN <<"one", 1, r, c>>
    ELSE IF c < 20 THEN <<"3bit", (v \div 10) % 10, r, c - 8>>
    ELSE <<"3bit", v % 10, r, c - 20>>

\* Every number that the sign can show ("at most 199", countdown.c:362) is
\* readable: whichever of the three layouts and decoders it takes, its points
\* come out of the chains side by side and in reading order.
ReadsRight ==
    value # 0 =>
        LET word == Set_LED_Display(value) IN
        \A x \in Points :
            LET at == Place(x[1], x[2], x[3]) IN
            word[x[1]][x[2]][x[3]] = Meant(value, at[1], at[2])

\* The thirty-two words of a decoder take every point of the glyph once: no
\* row is left out, none is shown twice.
EachPointOnce ==
    value # 0 =>
        LET word == Set_LED_Display(value) IN
        {word[x[1]][x[2]][x[3]] : x \in Points} =
            {Meant(value, m[1], m[2]) : m \in Panel}
=============================================================================
