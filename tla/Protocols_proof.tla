---------------------------- MODULE Protocols_proof ----------------------------
(***************************************************************************)
(* What a sign is set to is what its switches say, for every position of   *)
(* them and however they are turned while they are read; what is damaged   *)
(* on the line is refused; what the controller has enciphered comes out of *)
(* the parser in clear; and every burst, whatever it consists of, is       *)
(* posted as it was meant, with the number that was meant.                 *)
(***************************************************************************)
EXTENDS Protocols, Integers, FiniteSetTheorems, SequenceTheorems,
        WellFoundedInduction, TLAPS

-----------------------------------------------------------------------------
(***************************************************************************)
(* The dial.                                                               *)
(***************************************************************************)

\* The three swaps turn a byte round.
LEMMA Reversal ==
    ASSUME NEW b
    PROVE  Mirrored(b) = [k \in 0 .. 7 |-> b[7 - k]]
<1> DEFINE n == Swap(b, 4, 4 .. 7)
           m == Swap(n, 2, {2, 3, 6, 7})
<1>1. n = [k \in 0 .. 7 |-> IF k >= 4 THEN b[k - 4] ELSE b[k + 4]]
  BY DEF Swap
<1>2. m = [k \in 0 .. 7 |-> IF k \in {2, 3, 6, 7} THEN n[k - 2] ELSE n[k + 2]]
  BY DEF Swap
<1>3. Mirrored(b) = [k \in 0 .. 7 |-> IF k \in {1, 3, 5, 7} THEN m[k - 1] ELSE m[k + 1]]
  BY DEF Mirrored, Swap
<1> HIDE DEF n, m
<1>4. /\ n[0] = b[4] /\ n[1] = b[5] /\ n[2] = b[6] /\ n[3] = b[7]
      /\ n[4] = b[0] /\ n[5] = b[1] /\ n[6] = b[2] /\ n[7] = b[3]
  BY <1>1
<1>5. /\ m[0] = b[6] /\ m[1] = b[7] /\ m[2] = b[4] /\ m[3] = b[5]
      /\ m[4] = b[2] /\ m[5] = b[3] /\ m[6] = b[0] /\ m[7] = b[1]
  BY <1>2, <1>4
<1>6. ASSUME NEW k \in 0 .. 7
      PROVE  (IF k \in {1, 3, 5, 7} THEN m[k - 1] ELSE m[k + 1]) = b[7 - k]
  BY <1>5
<1> QED
  BY <1>3, <1>6

\* A row of switches is read with its first switch as the highest digit.
LEMMA Rows ==
    ASSUME NEW w
    PROVE  /\ Direction(w) = 176 + Row3(w)
           /\ Signal(w) = 192 + Row4(w)
           /\ Channel(w) = Row4(w)
<1>1. \A k \in 0 .. 15 : Digit(w, k) \in {0, 1}
  BY DEF Digit
<1>2. Direction(w) = 176 + Row3(w)
  BY <1>1, Reversal DEF Direction, UpperByte, HighHalf, Row3
<1>3. Signal(w) = 192 + Row4(w)
  BY <1>1, Reversal DEF Signal, UpperByte, HighHalf, LowHalf, Row4
<1>4. Channel(w) = Row4(w)
  BY <1>1, Reversal DEF Channel, UpperByte, LowHalf, Row4
<1> QED
  BY <1>2, <1>3, <1>4

-----------------------------------------------------------------------------
(***************************************************************************)
(* The assignments, one after the other.                                   *)
(***************************************************************************)
Fields == {"baud_rate", "countdown_direction", "singal_direction", "protocol",
           "r_led", "countdown_channel", "motor_or_people", "study_or_comm"}

\* The first n assignments of a list have been made, and not been undone.
Made(list, n) == \A i \in 1 .. n : config_init[list[i][1]] = list[i][2]

\* What is left to make is the rest of the list.
ToMake(list, n) ==
    /\ assignments \in Seq(Fields \X Nat)
    /\ Len(assignments) = Len(list) - n
    /\ \A i \in 1 .. Len(list) - n : assignments[i] = list[n + i]

\* While the list of the word that was read twice is worked off, a part of it
\* has been made and the rest is left to make.
DialInv ==
    /\ DOMAIN config_init = Fields
    /\ dial \in {"first", "second", "assign", "done"}
    /\ dial = "assign" =>
          LET list == Decoded(accepted) IN
          \E n \in 0 .. Len(list) - 1 : ToMake(list, n) /\ Made(list, n)
    /\ dial = "done" => Made(Decoded(accepted), Len(Decoded(accepted)))

\* No field is assigned twice.
LEMMA Lists ==
    ASSUME NEW w
    PROVE  /\ Decoded(w) \in Seq(Fields \X Nat)
           /\ Len(Decoded(w)) \in {3, 6, 7}
           /\ \A i, j \in 1 .. Len(Decoded(w)) :
                 i # j => Decoded(w)[i][1] # Decoded(w)[j][1]
<1>1. \A k \in 0 .. 15 : Digit(w, k) \in Nat
  BY DEF Digit
<1>2. Direction(w) \in Nat /\ Signal(w) \in Nat /\ Channel(w) \in Nat
  BY <1>1, Rows DEF Row3, Row4
<1>3. CASE ~On(w, 2)
  BY <1>1, <1>3 DEF Decoded, Learning, r_led, motor_or_people, Fields
<1>4. CASE On(w, 2) /\ On(w, 1)
  BY <1>1, <1>2, <1>4 DEF Decoded, GeLin, baud_rate, r_led, motor_or_people, Fields
<1>5. CASE On(w, 2) /\ ~On(w, 1)
  BY <1>1, <1>2, <1>5 DEF Decoded, National, baud_rate, r_led, motor_or_people, Fields
<1> QED
  BY <1>3, <1>4, <1>5

LEMMA DialInitially == DialInit => DialInv
<1> SUFFICES ASSUME DialInit PROVE DialInv
  OBVIOUS
<1>1. DOMAIN config_init = Fields /\ dial = "first"
  BY DEF DialInit, Fields
<1> QED
  BY <1>1 DEF DialInv

\* An assignment makes one more.
LEMMA OneMoreMade ==
    ASSUME DialInv, Assign
    PROVE  DialInv'
<1> DEFINE list == Decoded(accepted)
<1>1. /\ list \in Seq(Fields \X Nat) /\ Len(list) \in Nat
      /\ \A i, j \in 1 .. Len(list) : i # j => list[i][1] # list[j][1]
  BY Lists
<1>2. /\ dial = "assign" /\ accepted' = accepted
      /\ LET a == Head(assignments) IN
             config_init' = [config_init EXCEPT ![a[1]] = a[2]]
      /\ assignments' = Tail(assignments)
      /\ dial' = IF Len(assignments) = 1 THEN "done" ELSE "assign"
  BY DEF Assign
<1> HIDE DEF list
<1>3. PICK n \in 0 .. Len(list) - 1 :
          ToMake(list, n) /\ Made(list, n)
  BY <1>2 DEF DialInv, list
<1> DEFINE s == assignments
<1>4. /\ n + 1 \in 1 .. Len(list) /\ list[n + 1] \in Fields \X Nat
      /\ s \in Seq(Fields \X Nat) /\ Len(s) = Len(list) - n /\ s # <<>>
      /\ \A i \in 1 .. Len(list) - n : s[i] = list[n + i]
      /\ Head(s) = list[n + 1]
  <2>1. n + 1 \in 1 .. Len(list) /\ Len(list) - n >= 1
    BY <1>1, <1>3
  <2>2. /\ s \in Seq(Fields \X Nat) /\ Len(s) = Len(list) - n
        /\ \A i \in 1 .. Len(list) - n : s[i] = list[n + i]
    BY <1>3 DEF ToMake
  <2>3. s # <<>> /\ Head(s) = s[1] /\ s[1] = list[n + 1]
    BY <1>1, <2>1, <2>2
  <2> QED
    BY <1>1, <2>1, <2>2, <2>3
<1>5. config_init' = [config_init EXCEPT ![list[n + 1][1]] = list[n + 1][2]]
  BY <1>2, <1>4
<1>6. DOMAIN config_init = Fields
  BY DEF DialInv
<1>7. Made(list, n + 1)'
  <2>1. list' = list
    BY <1>2 DEF list
  <2>2. ASSUME NEW i \in 1 .. n + 1
        PROVE  config_init'[list[i][1]] = list[i][2]
    <3>1. i \in 1 .. Len(list) /\ list[i][1] \in Fields
      BY <1>1, <1>3
    <3>2. CASE i = n + 1
      BY <1>4, <1>5, <1>6, <3>2
    <3>3. CASE i \in 1 .. n
      <4>1. list[i][1] # list[n + 1][1]
        BY <1>1, <1>3, <1>4, <3>1, <3>3
      <4>2. config_init[list[i][1]] = list[i][2]
        BY <1>3, <3>3 DEF Made
      <4> QED
        BY <1>5, <1>6, <3>1, <4>1, <4>2
    <3> QED
      BY <1>3, <3>2, <3>3
  <2> QED
    BY <2>1, <2>2 DEF Made
<1>8. DOMAIN config_init' = Fields
  BY <1>5, <1>6
<1>9. CASE Len(assignments) = 1
  <2>1. Len(list) - n = 1
    BY <1>4, <1>9
  <2>2. n + 1 = Len(list)
    BY <1>1, <2>1
  <2> QED
    BY <1>2, <1>7, <1>8, <1>9, <2>2 DEF DialInv, list
<1>10. CASE Len(assignments) # 1
  <2>1. n + 1 \in 0 .. Len(list) - 1
    <3> DEFINE m == Len(list)
    <3>1. m \in Nat /\ n \in 0 .. m - 1 /\ m - n # 1
      BY <1>1, <1>4, <1>10
    <3> HIDE DEF m
    <3>2. n + 1 \in 0 .. m - 1
      BY <3>1
    <3> QED
      BY <3>2 DEF m
  <2>2. /\ Tail(s) \in Seq(Fields \X Nat) /\ Len(Tail(s)) = Len(s) - 1
        /\ \A i \in 1 .. Len(s) - 1 : Tail(s)[i] = s[i + 1]
    BY <1>4
  <2>3. /\ Len(Tail(s)) = Len(list) - (n + 1)
        /\ \A i \in 1 .. Len(list) - (n + 1) : Tail(s)[i] = list[(n + 1) + i]
    <3>1. Len(list) \in Nat /\ n \in Nat /\ Len(s) = Len(list) - n
      BY <1>1, <1>4
    <3>2. Len(Tail(s)) = Len(list) - (n + 1)
      BY <2>2, <3>1
    <3>3. ASSUME NEW i \in 1 .. Len(list) - (n + 1)
          PROVE  Tail(s)[i] = list[(n + 1) + i]
      <4>1. i \in 1 .. Len(s) - 1 /\ i + 1 \in 1 .. Len(list) - n
        BY <3>1
      <4>2. Tail(s)[i] = s[i + 1] /\ s[i + 1] = list[n + (i + 1)]
        BY <1>4, <2>2, <4>1
      <4>3. n + (i + 1) = (n + 1) + i
        BY <3>1
      <4> QED
        BY <4>2, <4>3
    <3> QED
      BY <3>2, <3>3
  <2>4. list' = list /\ s' = Tail(s)
    BY <1>2 DEF list
  <2>5. ToMake(list, n + 1)'
    BY <2>2, <2>3, <2>4 DEF ToMake
  <2> QED
    BY <1>2, <1>7, <1>8, <1>10, <2>1, <2>5 DEF DialInv, list
<1> QED
  BY <1>9, <1>10

LEMMA DialStepInv == DialInv /\ [DialNext]_dialVars => DialInv'
<1> SUFFICES ASSUME DialInv, [DialNext]_dialVars PROVE DialInv'
  OBVIOUS
<1>1. CASE ReadFirst \/ Redial
  BY <1>1 DEF ReadFirst, Redial, DialInv
<1>2. CASE ReadSecond
  <2>1. CASE boma = data_a
    <3>1. /\ assignments' = Decoded(accepted') /\ dial' = "assign"
          /\ UNCHANGED config_init
      BY <1>2, <2>1 DEF ReadSecond
    <3>2. /\ Decoded(accepted') \in Seq(Fields \X Nat)
          /\ Len(Decoded(accepted')) \in {3, 6, 7}
      BY Lists
    <3>3. /\ 0 \in 0 .. Len(Decoded(accepted')) - 1
          /\ ToMake(Decoded(accepted), 0)'
          /\ Made(Decoded(accepted), 0)'
      BY <3>1, <3>2 DEF ToMake, Made
    <3> QED
      BY <3>1, <3>3 DEF DialInv
  <2>2. CASE boma # data_a
    BY <1>2, <2>2 DEF ReadSecond, DialInv
  <2> QED
    BY <2>1, <2>2
<1>3. CASE Assign
  BY <1>3, OneMoreMade
<1>4. CASE Turn \/ UNCHANGED dialVars
  BY <1>4 DEF Turn, dialVars, DialInv, Made, ToMake
<1> QED
  BY <1>1, <1>2, <1>3, <1>4 DEF DialNext

\* What a list means, once it has been made.
LEMMA MadeObeys == DialInv => DialObeyed
<1> SUFFICES ASSUME DialInv, dial = "done" PROVE DialObeyed
  BY DEF DialObeyed
<1> DEFINE c == config_init
           w == accepted
<1>1. \A i \in 1 .. Len(Decoded(w)) : c[Decoded(w)[i][1]] = Decoded(w)[i][2]
  BY DEF DialInv, Made
<1>2. CASE ~On(w, 2)
  <2>1. Decoded(w) = << <<"study_or_comm", 1>>, <<"r_led", Digit(w, 0)>>,
                        <<"motor_or_people", Digit(w, 3)>> >>
    BY <1>2 DEF Decoded, Learning, r_led, motor_or_people
  <2>2. c.study_or_comm = 1 /\ c.r_led = Digit(w, 0) /\ c.motor_or_people = Digit(w, 3)
    BY <1>1, <2>1
  <2> QED
    BY <1>2, <2>2 DEF DialObeyed
<1>3. CASE On(w, 2) /\ On(w, 1)
  <2>1. Decoded(w) = << <<"study_or_comm", 0>>, baud_rate(w), <<"protocol", 1>>,
                        <<"countdown_direction", 176 + Row3(w)>>,
                        <<"singal_direction", 192 + Row4(w)>>,
                        <<"r_led", Digit(w, 0)>>, <<"motor_or_people", Digit(w, 3)>> >>
    BY <1>3, Rows DEF Decoded, GeLin, r_led, motor_or_people
  <2>2. /\ c.study_or_comm = 0 /\ c.protocol = 1
        /\ c.countdown_direction = 176 + Row3(w) /\ c.singal_direction = 192 + Row4(w)
        /\ c.r_led = Digit(w, 0) /\ c.motor_or_people = Digit(w, 3)
    BY <1>1, <2>1
  <2> QED
    BY <1>3, <2>2 DEF DialObeyed, Digit
<1>4. CASE On(w, 2) /\ ~On(w, 1)
  <2>1. Decoded(w) = << <<"study_or_comm", 0>>, baud_rate(w), <<"protocol", 0>>,
                        <<"countdown_channel", Row4(w)>>,
                        <<"r_led", Digit(w, 0)>>, <<"motor_or_people", Digit(w, 3)>> >>
    BY <1>4, Rows DEF Decoded, National, r_led, motor_or_people
  <2>2. /\ c.study_or_comm = 0 /\ c.protocol = 0 /\ c.countdown_channel = Row4(w)
        /\ c.r_led = Digit(w, 0) /\ c.motor_or_people = Digit(w, 3)
    BY <1>1, <2>1
  <2> QED
    BY <1>4, <2>2 DEF DialObeyed, Digit
<1> QED
  BY <1>2, <1>3, <1>4

\* The settings of a sign are those of its switches, for each of their 65536
\* positions, whatever the settings were before and however the switches were
\* turned between the two readings and while the settings were made.
THEOREM SettingsAreSwitches == ProtoSpec => []DialObeyed
<1>1. ProtoInit => DialInv
  BY DialInitially DEF ProtoInit
<1>2. DialInv /\ [ProtoNext]_protoVars => DialInv'
  <2>1. [ProtoNext]_protoVars => [DialNext]_dialVars
    BY DEF ProtoNext, protoVars, DialStep, Arrive, subpackage, Done
  <2> QED
    BY <2>1, DialStepInv
<1> QED
  BY <1>1, <1>2, MadeObeys, PTL DEF ProtoSpec

-----------------------------------------------------------------------------
(***************************************************************************)
(* Bytes and their bits.                                                   *)
(***************************************************************************)
LEMMA BytesAreNumbers == \A x \in Bytes8 : x \in Nat
BY DEF Bytes8

\* The numbers up to a bound, whatever the bound is.
LEMMA UpTo ==
    ASSUME NEW y \in Nat
    PROVE  /\ \A z \in 0 .. y : z \in Nat /\ z <= y
           /\ \A z \in Nat : z <= y => z \in 0 .. y
OBVIOUS

\* A word is a number; a byte and a number of four digits are words.
LEMMA WordsAreNumbers == \A x \in Words16 : x \in Nat /\ x <= 65535
<1>1. Top16 \in Nat
  BY DEF Top16
<1>2. \A x \in Words16 : x \in Nat /\ x <= Top16
  BY <1>1, UpTo DEF Words16
<1> QED
  BY <1>2 DEF Top16

\* The same of the numbers of four digits.
LEMMA FoursAreNumbers == \A x \in FourDigits : x \in Nat /\ x <= 9999
<1>1. Top4 \in Nat
  BY DEF Top4
<1>2. \A x \in FourDigits : x \in Nat /\ x <= Top4
  BY <1>1, UpTo DEF FourDigits
<1> QED
  BY <1>2 DEF Top4

LEMMA Word ==
    ASSUME NEW x \in Nat, x <= 65535
    PROVE  x \in Words16
<1>1. Top16 \in Nat /\ x <= Top16
  BY DEF Top16
<1> QED
  BY <1>1, UpTo DEF Words16

LEMMA BytesAreWords == \A x \in Bytes8 : x \in Words16
<1>1. \A x \in Bytes8 : x \in Nat /\ x <= 65535
  BY DEF Bytes8
<1> QED
  BY <1>1, Word

LEMMA FoursAreWords == \A x \in FourDigits : x \in Words16
<1>1. \A x \in FourDigits : x \in Nat /\ x <= 65535
  BY FoursAreNumbers
<1> QED
  BY <1>1, Word

\* A sequence is one of a narrower set when its elements are.
LEMMA Narrowed ==
    ASSUME NEW S, NEW T, NEW s \in Seq(S), \A k \in 1 .. Len(s) : s[k] \in T
    PROVE  s \in Seq(T)
OBVIOUS

\* The fields of a record.
LEMMA RecordFields ==
    ASSUME NEW r \in NationalRecord
    PROVE  /\ r.addr \in 0 .. 31 /\ r.colour \in Colours
           /\ r.total \in FourDigits /\ r.blink \in BOOLEAN
BY DEF NationalRecord

LEMMA BitType ==
    ASSUME NEW x \in Bytes8, NEW k \in 0 .. 7
    PROVE  Bit(x, k) \in {0, 1}
<1>1. Weight[k + 1] \in {1, 2, 4, 8, 16, 32, 64, 128}
  BY DEF Weight
<1> HIDE DEF Weight
<1> DEFINE w == Weight[k + 1]
<1>2. CASE w \in {1, 2, 4, 8}
  BY <1>2 DEF Bit, Bytes8
<1>3. CASE w \in {16, 32, 64, 128}
  BY <1>3 DEF Bit, Bytes8
<1> QED
  BY <1>1, <1>2, <1>3

\* A byte is known by its bits.
LEMMA SameBits ==
    ASSUME NEW x \in Bytes8, NEW y \in Bytes8,
           \A k \in 0 .. 7 : Bit(x, k) = Bit(y, k)
    PROVE  x = y
<1> USE DEF Bit, Weight, Bytes8
<1>1. /\ Bit(x, 0) = Bit(y, 0) /\ Bit(x, 1) = Bit(y, 1)
      /\ Bit(x, 2) = Bit(y, 2) /\ Bit(x, 3) = Bit(y, 3)
      /\ Bit(x, 4) = Bit(y, 4) /\ Bit(x, 5) = Bit(y, 5)
      /\ Bit(x, 6) = Bit(y, 6) /\ Bit(x, 7) = Bit(y, 7)
  OBVIOUS
<1>2. x \div 128 = y \div 128
  <2>1. \A z \in Bytes8 : Bit(z, 7) = z \div 128
    OBVIOUS
  <2> HIDE DEF Bit, Bytes8
  <2> QED
    BY <1>1, <2>1
<1>3. x \div 64 = y \div 64
  BY <1>1, <1>2, SMTT(30)
<1>4. x \div 32 = y \div 32
  BY <1>1, <1>3, SMTT(30)
<1>5. x \div 16 = y \div 16
  BY <1>1, <1>4, SMTT(30)
<1>6. x \div 8 = y \div 8
  BY <1>1, <1>5, SMTT(30)
<1>7. x \div 4 = y \div 4
  BY <1>1, <1>6, SMTT(30)
<1>8. x \div 2 = y \div 2
  BY <1>1, <1>7, SMTT(30)
<1> QED
  BY <1>1, <1>8

\* The bits of a byte that is put together from bits.
LEMMA BitsOfByte ==
    ASSUME NEW d \in [0 .. 7 -> {0, 1}], NEW x,
           x = 128 * d[7] + 64 * d[6] + 32 * d[5] + 16 * d[4]
                   + 8 * d[3] + 4 * d[2] + 2 * d[1] + d[0]
    PROVE  x \in Bytes8 /\ \A k \in 0 .. 7 : Bit(x, k) = d[k]
<1>1. /\ d[0] \in {0, 1} /\ d[1] \in {0, 1} /\ d[2] \in {0, 1} /\ d[3] \in {0, 1}
      /\ d[4] \in {0, 1} /\ d[5] \in {0, 1} /\ d[6] \in {0, 1} /\ d[7] \in {0, 1}
  OBVIOUS
<1>2. x \in Bytes8
  BY <1>1 DEF Bytes8
<1> USE DEF Bit, Weight
<1>3. Bit(x, 0) = d[0]
  BY <1>1
<1>4. Bit(x, 1) = d[1]
  BY <1>1
<1>5. Bit(x, 2) = d[2]
  BY <1>1
<1>6. Bit(x, 3) = d[3]
  BY <1>1
<1>7. Bit(x, 4) = d[4]
  BY <1>1
<1>8. Bit(x, 5) = d[5]
  BY <1>1
<1>9. Bit(x, 6) = d[6]
  BY <1>1
<1>10. Bit(x, 7) = d[7]
  BY <1>1
<1> HIDE DEF Bit, Weight
<1>11. \A k \in 0 .. 7 : k \in {0, 1, 2, 3, 4, 5, 6, 7}
  OBVIOUS
<1> QED
  BY <1>2, <1>3, <1>4, <1>5, <1>6, <1>7, <1>8, <1>9, <1>10, <1>11

LEMMA XorBits ==
    ASSUME NEW x \in Bytes8, NEW y \in Bytes8
    PROVE  /\ Xor(x, y) \in Bytes8
           /\ \A k \in 0 .. 7 : Bit(Xor(x, y), k) = (Bit(x, k) + Bit(y, k)) % 2
<1> DEFINE d == [k \in 0 .. 7 |-> (Bit(x, k) + Bit(y, k)) % 2]
<1>1. \A k \in 0 .. 7 : (Bit(x, k) + Bit(y, k)) % 2 \in {0, 1}
  BY BitType
<1>2. d \in [0 .. 7 -> {0, 1}]
  BY <1>1
<1>3. Xor(x, y) = 128 * d[7] + 64 * d[6] + 32 * d[5] + 16 * d[4]
                      + 8 * d[3] + 4 * d[2] + 2 * d[1] + d[0]
  BY DEF Xor, Byte
<1>4. \A k \in 0 .. 7 : d[k] = (Bit(x, k) + Bit(y, k)) % 2
  OBVIOUS
<1> HIDE DEF d
<1>5. Xor(x, y) \in Bytes8 /\ \A k \in 0 .. 7 : Bit(Xor(x, y), k) = d[k]
  BY <1>2, <1>3, BitsOfByte
<1> QED
  BY <1>4, <1>5

\* What has been enciphered twice with one key is in clear again.
LEMMA XorTwice ==
    ASSUME NEW x \in Bytes8, NEW y \in Bytes8
    PROVE  Xor(Xor(x, y), y) = x
<1>1. Xor(x, y) \in Bytes8 /\ Xor(Xor(x, y), y) \in Bytes8
  BY XorBits
<1>2. ASSUME NEW k \in 0 .. 7
      PROVE  Bit(Xor(Xor(x, y), y), k) = Bit(x, k)
  <2>1. Bit(x, k) \in {0, 1} /\ Bit(y, k) \in {0, 1}
    BY BitType
  <2>2. Bit(Xor(x, y), k) = (Bit(x, k) + Bit(y, k)) % 2
    BY XorBits
  <2>3. Bit(Xor(Xor(x, y), y), k) = (Bit(Xor(x, y), k) + Bit(y, k)) % 2
    BY <1>1, XorBits
  <2>4. CASE Bit(x, k) = 0 /\ Bit(y, k) = 0
    BY <2>2, <2>3, <2>4
  <2>5. CASE Bit(x, k) = 0 /\ Bit(y, k) = 1
    BY <2>2, <2>3, <2>5
  <2>6. CASE Bit(x, k) = 1 /\ Bit(y, k) = 0
    BY <2>2, <2>3, <2>6
  <2>7. CASE Bit(x, k) = 1 /\ Bit(y, k) = 1
    BY <2>2, <2>3, <2>7
  <2> QED
    BY <2>1, <2>4, <2>5, <2>6, <2>7
<1> QED
  BY <1>1, <1>2, SameBits

\* The bytes from..to that have a one in a place.
Ones(buf, from, to, k) == {i \in from .. to : Bit(At(buf, i), k) = 1}

LEMMA OnesFinite ==
    ASSUME NEW buf, NEW from \in Int, NEW to \in Int, NEW k
    PROVE  /\ IsFiniteSet(Ones(buf, from, to, k))
           /\ Cardinality(Ones(buf, from, to, k)) \in Nat
<1>1. IsFiniteSet(from .. to) /\ Ones(buf, from, to, k) \in SUBSET (from .. to)
  BY FS_Interval DEF Ones
<1>2. IsFiniteSet(Ones(buf, from, to, k))
  BY <1>1, FS_Subset
<1> QED
  BY <1>2, FS_CardinalityType

LEMMA XorOfBits ==
    ASSUME NEW buf, NEW from \in Int, NEW to \in Int
    PROVE  /\ XorOf(buf, from, to) \in Bytes8
           /\ \A k \in 0 .. 7 :
                 Bit(XorOf(buf, from, to), k) = Cardinality(Ones(buf, from, to, k)) % 2
<1> DEFINE d == [k \in 0 .. 7 |-> Cardinality(Ones(buf, from, to, k)) % 2]
<1>1. \A k \in 0 .. 7 : Cardinality(Ones(buf, from, to, k)) % 2 \in {0, 1}
  <2>1. \A n \in Nat : n % 2 \in {0, 1}
    OBVIOUS
  <2> QED
    BY <2>1, OnesFinite
<1>2. d \in [0 .. 7 -> {0, 1}]
  BY <1>1
<1>3. XorOf(buf, from, to)
          = 128 * d[7] + 64 * d[6] + 32 * d[5] + 16 * d[4]
                + 8 * d[3] + 4 * d[2] + 2 * d[1] + d[0]
  BY DEF XorOf, Byte, Ones
<1>4. \A k \in 0 .. 7 : d[k] = Cardinality(Ones(buf, from, to, k)) % 2
  OBVIOUS
<1> HIDE DEF d
<1>5. /\ XorOf(buf, from, to) \in Bytes8
      /\ \A k \in 0 .. 7 : Bit(XorOf(buf, from, to), k) = d[k]
  BY <1>2, <1>3, BitsOfByte
<1> QED
  BY <1>4, <1>5

-----------------------------------------------------------------------------
(***************************************************************************)
(* One damaged byte.                                                       *)
(***************************************************************************)
Damaged(buf, i, v) == [buf EXCEPT ![i + 1] = v]

LEMMA DamagedBytes ==
    ASSUME NEW buf \in Seq(Bytes8), NEW i \in 0 .. Len(buf) - 1, NEW v \in Bytes8
    PROVE  LET d == Damaged(buf, i, v) IN
           /\ d \in Seq(Bytes8) /\ Len(d) = Len(buf)
           /\ At(d, i) = v /\ At(buf, i) \in Bytes8
           /\ \A j \in Nat : j # i => At(d, j) = At(buf, j)
           /\ \A j \in Nat : At(d, j) \in Bytes8 /\ At(buf, j) \in Bytes8
<1> DEFINE d == Damaged(buf, i, v)
<1>1. i + 1 \in 1 .. Len(buf) /\ Len(buf) \in Nat
  OBVIOUS
<1>2. d \in Seq(Bytes8) /\ Len(d) = Len(buf) /\ d[i + 1] = v
  BY <1>1 DEF Damaged
<1>3. \A j \in 1 .. Len(buf) : j # i + 1 => d[j] = buf[j]
  BY <1>1 DEF Damaged
<1>4. \A j \in 1 .. Len(buf) : d[j] \in Bytes8 /\ buf[j] \in Bytes8
  BY <1>2
<1> HIDE DEF d
<1>5. 0 \in Bytes8
  BY DEF Bytes8
<1>6. \A j \in Nat : At(d, j) \in Bytes8 /\ At(buf, j) \in Bytes8
  BY <1>1, <1>2, <1>4, <1>5 DEF At
<1>7. \A j \in Nat : j # i => At(d, j) = At(buf, j)
  BY <1>1, <1>2, <1>3 DEF At
<1>8. At(d, i) = v
  BY <1>1, <1>2 DEF At
<1> QED
  BY <1>2, <1>6, <1>7, <1>8 DEF d

\* It changes the parity of every place it changes, in every range it is in.
LEMMA DamageTurns ==
    ASSUME NEW buf \in Seq(Bytes8), NEW i \in 0 .. Len(buf) - 1, NEW v \in Bytes8,
           NEW from \in Nat, NEW to \in Nat, i \in from .. to,
           NEW k \in 0 .. 7, Bit(v, k) # Bit(At(buf, i), k)
    PROVE  Bit(XorOf(Damaged(buf, i, v), from, to), k) # Bit(XorOf(buf, from, to), k)
<1> DEFINE d == Damaged(buf, i, v)
           S == Ones(buf, from, to, k)
           T == Ones(d, from, to, k)
<1>1. At(d, i) = v /\ At(buf, i) \in Bytes8 /\ \A j \in Nat : j # i => At(d, j) = At(buf, j)
  BY DamagedBytes
<1>2. Bit(v, k) \in {0, 1} /\ Bit(At(buf, i), k) \in {0, 1}
  BY <1>1, BitType
<1> HIDE DEF d
<1>3. /\ IsFiniteSet(S) /\ Cardinality(S) \in Nat
      /\ IsFiniteSet(T) /\ Cardinality(T) \in Nat
  BY OnesFinite
<1>4. \A j \in from .. to : j \in Nat
  OBVIOUS
<1>5. CASE Bit(v, k) = 1 /\ Bit(At(buf, i), k) = 0
  <2>1. T = S \cup {i} /\ i \notin S
    BY <1>1, <1>4, <1>5 DEF Ones
  <2>2. Cardinality(T) = Cardinality(S) + 1
    BY <1>3, <2>1, FS_AddElement
  <2>3. Cardinality(T) % 2 # Cardinality(S) % 2
    BY <1>3, <2>2
  <2> QED
    BY <2>3, XorOfBits DEF d
<1>6. CASE Bit(v, k) = 0 /\ Bit(At(buf, i), k) = 1
  <2>1. S = T \cup {i} /\ i \notin T
    BY <1>1, <1>4, <1>6 DEF Ones
  <2>2. Cardinality(S) = Cardinality(T) + 1
    BY <1>3, <2>1, FS_AddElement
  <2>3. Cardinality(T) % 2 # Cardinality(S) % 2
    BY <1>3, <2>2
  <2> QED
    BY <2>3, XorOfBits DEF d
<1> QED
  BY <1>2, <1>5, <1>6

LEMMA DamageElsewhere ==
    ASSUME NEW buf \in Seq(Bytes8), NEW i \in 0 .. Len(buf) - 1, NEW v \in Bytes8,
           NEW from \in Nat, NEW to \in Int, i \notin from .. to
    PROVE  XorOf(Damaged(buf, i, v), from, to) = XorOf(buf, from, to)
<1> DEFINE d == Damaged(buf, i, v)
<1>1. \A j \in Nat : j # i => At(d, j) = At(buf, j)
  BY DamagedBytes
<1>2. \A j \in from .. to : j \in Nat /\ j # i
  OBVIOUS
<1> HIDE DEF d
<1>3. \A k \in 0 .. 7 : Ones(d, from, to, k) = Ones(buf, from, to, k)
  BY <1>1, <1>2 DEF Ones
<1>4. /\ XorOf(d, from, to) \in Bytes8 /\ XorOf(buf, from, to) \in Bytes8
      /\ \A k \in 0 .. 7 : Bit(XorOf(d, from, to), k) = Bit(XorOf(buf, from, to), k)
  BY <1>3, XorOfBits
<1> QED
  BY <1>4, SameBits DEF d

\* Two checksums cannot both be right.
LEMMA Refused2014 ==
    ASSUME NEW buf \in Seq(Bytes8), Intact2014(buf),
           NEW i \in 2 .. Len(buf) - 1, NEW v \in Bytes8, v # At(buf, i)
    PROVE  ~Intact2014(Damaged(buf, i, v))
<1> DEFINE d == Damaged(buf, i, v)
           n == Len(buf)
<1>1. n \in Nat /\ n >= 3 /\ i \in 0 .. n - 1
  OBVIOUS
<1>2. /\ Len(d) = n /\ At(d, i) = v /\ At(buf, i) \in Bytes8
      /\ \A j \in Nat : j # i => At(d, j) = At(buf, j)
      /\ \A j \in Nat : At(d, j) \in Bytes8 /\ At(buf, j) \in Bytes8
  BY <1>1, DamagedBytes, ZenonT(30)
<1> HIDE DEF d
<1>3. SUFFICES ASSUME Intact2014(d) PROVE FALSE
  BY DEF d
<1>4. n = 2 * At(buf, 2) + 4 /\ XorOf(buf, 2, n - 2) = At(buf, n - 1)
  BY DEF Intact2014
<1>5. n = 2 * At(d, 2) + 4 /\ XorOf(d, 2, n - 2) = At(d, n - 1)
  BY <1>2, <1>3 DEF Intact2014
<1>6. CASE i = 2
  <2>0. At(buf, 2) \in Bytes8
    BY <1>2, <1>6
  <2>1. v \in Nat /\ At(buf, 2) \in Nat
    BY <2>0, BytesAreNumbers
  <2>2. At(d, 2) = v
    BY <1>2, <1>6
  <2>3. 2 * At(buf, 2) + 4 = 2 * v + 4
    BY <1>4, <1>5, <2>2
  <2>4. At(buf, 2) = v
    BY <2>1, <2>3
  <2> QED
    BY <1>6, <2>4
<1>7. CASE i = n - 1
  <2>1. i \notin 2 .. n - 2
    BY <1>1, <1>7
  <2>2. XorOf(d, 2, n - 2) = XorOf(buf, 2, n - 2)
    BY <1>1, <2>1, DamageElsewhere DEF d
  <2> QED
    BY <1>2, <1>4, <1>5, <1>7, <2>2
<1>8. CASE i # 2 /\ i # n - 1
  <2>1. i \in 2 .. n - 2 /\ n - 2 \in Nat /\ n - 1 \in Nat
    BY <1>1, <1>8
  <2>2. At(d, n - 1) = At(buf, n - 1)
    BY <1>2, <1>8, <2>1
  <2>3. PICK k \in 0 .. 7 : Bit(v, k) # Bit(At(buf, i), k)
    BY <1>2, SameBits
  <2>4. Bit(XorOf(d, 2, n - 2), k) # Bit(XorOf(buf, 2, n - 2), k)
    BY <1>1, <2>1, <2>3, DamageTurns DEF d
  <2> QED
    BY <1>4, <1>5, <2>2, <2>4
<1> QED
  BY <1>6, <1>7, <1>8

\* Of a GA/T 508-2014 frame of any length in which one byte is another than
\* was sent, nothing is posted: a wrong length, a wrong checksum, or no frame
\* of this protocol any more (subpackage, GAT_508_2014.c:15-20); unless the
\* damage turns its first byte into the start of the other protocol.
THEOREM Damaged2014Refused ==
    ASSUME NEW buf \in Seq(Bytes8), Intact2014(buf),
           At(buf, 0) = \h55, At(buf, 1) = \haa,
           NEW i \in 0 .. Len(buf) - 1, NEW v \in Bytes8, v # At(buf, i),
           i = 0 => v # \hfe, config_init.protocol # 1
    PROVE  Parsed(Damaged(buf, i, v)) = <<>>
<1> DEFINE d == Damaged(buf, i, v)
<1>1. At(d, i) = v /\ \A j \in Nat : j # i => At(d, j) = At(buf, j)
  BY DamagedBytes
<1>2. CASE i = 0 \/ i = 1
  <2>1. ~(At(d, 0) = \h55 /\ At(d, 1) = \haa)
    BY <1>1, <1>2
  <2>2. At(d, 0) # \hfe
    BY <1>1, <1>2
  <2> QED
    BY <2>1, <2>2 DEF Parsed
<1>3. CASE i # 0 /\ i # 1
  <2>1. i \in 2 .. Len(buf) - 1
    BY <1>3
  <2>2. ~Intact2014(d)
    BY <2>1, Refused2014
  <2>3. gat_2014_parse(d, config_init.countdown_channel) = <<>>
    BY <2>2 DEF gat_2014_parse
  <2>4. At(d, 0) = \h55 /\ At(d, 1) = \haa
    BY <1>1, <1>3
  <2> HIDE DEF d
  <2>5. Parsed(d) = <<>>
    BY <2>3, <2>4 DEF Parsed
  <2> QED
    BY <2>5 DEF d
<1> QED
  BY <1>2, <1>3

-----------------------------------------------------------------------------
(***************************************************************************)
(* The checksum of seven bits over one record of GA/T 508-2004.            *)
(***************************************************************************)

\* The seven bits tell bytes apart that differ in them.
LEMMA LowBits ==
    ASSUME NEW x \in Bytes8
    PROVE  /\ x % 128 \in Bytes8 /\ Bit(x % 128, 7) = 0
           /\ \A k \in 0 .. 6 : Bit(x % 128, k) = Bit(x, k)
<1> USE DEF Bit, Weight, Bytes8
<1>1. x % 128 \in Bytes8 /\ Bit(x % 128, 7) = 0
  OBVIOUS
<1>2. Bit(x % 128, 0) = Bit(x, 0)
  OBVIOUS
<1>3. Bit(x % 128, 1) = Bit(x, 1)
  OBVIOUS
<1>4. Bit(x % 128, 2) = Bit(x, 2)
  OBVIOUS
<1>5. Bit(x % 128, 3) = Bit(x, 3)
  OBVIOUS
<1>6. Bit(x % 128, 4) = Bit(x, 4)
  OBVIOUS
<1>7. Bit(x % 128, 5) = Bit(x, 5)
  OBVIOUS
<1>8. Bit(x % 128, 6) = Bit(x, 6)
  OBVIOUS
<1> HIDE DEF Bit, Weight, Bytes8
<1>9. \A k \in 0 .. 6 : k \in {0, 1, 2, 3, 4, 5, 6}
  OBVIOUS
<1> QED
  BY <1>1, <1>2, <1>3, <1>4, <1>5, <1>6, <1>7, <1>8, <1>9

LEMMA LowBitsDiffer ==
    ASSUME NEW x \in Bytes8, NEW y \in Bytes8, x % 128 # y % 128
    PROVE  \E k \in 0 .. 6 : Bit(x, k) # Bit(y, k)
<1>1. SUFFICES ASSUME \A k \in 0 .. 6 : Bit(x, k) = Bit(y, k) PROVE FALSE
  OBVIOUS
<1>2. \A k \in 0 .. 7 : k \in 0 .. 6 \/ k = 7
  OBVIOUS
<1>3. \A k \in 0 .. 7 : Bit(x % 128, k) = Bit(y % 128, k)
  BY <1>1, <1>2, LowBits
<1> QED
  BY <1>3, LowBits, SameBits

\* A record is what was sent, or its checksum is wrong.
LEMMA Refused2004 ==
    ASSUME NEW buf \in Seq(Bytes8), NEW mm \in Nat,
           Crc2004(buf, mm) = At(buf, mm + 4),
           NEW i \in 0 .. Len(buf) - 1, NEW v \in Bytes8,
           v % 128 # At(buf, i) % 128,
           Crc2004(Damaged(buf, i, v), mm) = At(Damaged(buf, i, v), mm + 4)
    PROVE  i \notin mm + 1 .. mm + 4
<1> DEFINE d == Damaged(buf, i, v)
<1>1. /\ At(d, i) = v /\ At(buf, i) \in Bytes8
      /\ \A j \in Nat : j # i => At(d, j) = At(buf, j)
      /\ \A j \in Nat : At(d, j) \in Bytes8 /\ At(buf, j) \in Bytes8
  BY DamagedBytes
<1>2. mm + 1 \in Nat /\ mm + 3 \in Nat /\ mm + 4 \in Nat
  OBVIOUS
<1> HIDE DEF d
<1>3. CASE i \in mm + 1 .. mm + 3
  <2>1. PICK k \in 0 .. 6 : Bit(v, k) # Bit(At(buf, i), k)
    BY <1>1, LowBitsDiffer
  <2>2. k \in 0 .. 7
    OBVIOUS
  <2>3. Bit(XorOf(d, mm + 1, mm + 3), k) # Bit(XorOf(buf, mm + 1, mm + 3), k)
    BY <1>2, <1>3, <2>1, <2>2, DamageTurns DEF d
  <2>4. Bit(Crc2004(d, mm), k) # Bit(Crc2004(buf, mm), k)
    <3>1. XorOf(d, mm + 1, mm + 3) \in Bytes8 /\ XorOf(buf, mm + 1, mm + 3) \in Bytes8
      BY XorOfBits
    <3> QED
      BY <2>3, <3>1, LowBits DEF Crc2004
  <2>5. At(d, mm + 4) = At(buf, mm + 4)
    BY <1>1, <1>2, <1>3
  <2> QED
    BY <2>4, <2>5 DEF d
<1>4. CASE i = mm + 4
  <2>1. XorOf(d, mm + 1, mm + 3) = XorOf(buf, mm + 1, mm + 3)
    <3>1. i \notin mm + 1 .. mm + 3
      BY <1>4
    <3> QED
      BY <1>2, <3>1, DamageElsewhere DEF d
  <2>2. Crc2004(d, mm) = Crc2004(buf, mm)
    BY <2>1 DEF Crc2004
  <2> QED
    BY <1>1, <1>4, <2>2 DEF d
<1> QED
  BY <1>3, <1>4

\* A set of numbers that is not empty has a least one.
LEMMA MinIsLeast ==
    ASSUME NEW S \in SUBSET Nat, S # {}
    PROVE  Min(S) \in S /\ \A k \in S : Min(S) <= k
<1>1. PICK m \in S : \A k \in S : ~(<<k, m>> \in OpToRel(<, Nat))
  BY WFMin, NatLessThanWellFounded, Zenon
<1>2. \A k \in S : ~(k < m)
  BY <1>1 DEF OpToRel
<1>3. \A k \in S : m <= k
  BY <1>2
<1> QED
  BY <1>3, Zenon DEF Min

\* What is posted is a record that was searched and whose checksum was right.
LEMMA OneRecord ==
    ASSUME NEW buf, Len(buf) \in Nat, NEW channel, gat_2004_parse(buf, channel) # <<>>
    PROVE  \E m \in Searched2004(buf) :
              /\ m \in Nat /\ Channel2004(At(buf, m + 1)) = channel
              /\ Crc2004(buf, m) = At(buf, m + 4)
              /\ gat_2004_parse(buf, channel) = <<Record2004(buf, m)>>
<1> DEFINE mine == {m \in Searched2004(buf) : Channel2004(At(buf, m + 1)) = channel}
<1>1. /\ mine # {} /\ Crc2004(buf, Min(mine)) = At(buf, Min(mine) + 4)
      /\ gat_2004_parse(buf, channel) = <<Record2004(buf, Min(mine))>>
  BY DEF gat_2004_parse
<1>2. mine \in SUBSET Nat
  BY DEF Searched2004
<1>3. \A m \in mine :
         m \in Searched2004(buf) /\ m \in Nat /\ Channel2004(At(buf, m + 1)) = channel
  BY <1>2
<1> HIDE DEF mine
<1>4. Min(mine) \in mine
  BY <1>1, <1>2, MinIsLeast
<1> QED
  BY <1>1, <1>3, <1>4

\* Where the damage is not, a record is as it was.
LEMMA RecordKept ==
    ASSUME NEW buf \in Seq(Bytes8), NEW mm \in Nat,
           NEW i \in 0 .. Len(buf) - 1, NEW v \in Bytes8,
           i \notin mm + 1 .. mm + 4
    PROVE  /\ At(Damaged(buf, i, v), mm + 1) = At(buf, mm + 1)
           /\ Record2004(Damaged(buf, i, v), mm) = Record2004(buf, mm)
<1> DEFINE d == Damaged(buf, i, v)
<1>1. \A j \in Nat : j # i => At(d, j) = At(buf, j)
  BY DamagedBytes
<1> HIDE DEF d
<1>2. /\ At(d, mm + 1) = At(buf, mm + 1) /\ At(d, mm + 2) = At(buf, mm + 2)
      /\ At(d, mm + 3) = At(buf, mm + 3)
  BY <1>1
<1>3. Record2004(d, mm) = Record2004(buf, mm)
  BY <1>2 DEF Record2004
<1> QED
  BY <1>2, <1>3 DEF d

\* A buffer of GA/T 508-2004 records, any number of them, in which one byte is
\* damaged in its seven checked bits: what is posted is a record that was sent
\* to this channel, the zeros behind the end among them, or nothing
\* (GAT_508_2004.c:16-22); unless the damage makes the start of the other
\* protocol out of the first byte.
THEOREM Damaged2004Refused ==
    ASSUME NEW buf \in Seq(Bytes8), At(buf, 0) = \hfe, At(buf, 1) # \haa,
           \A mm \in Searched2004(buf) : Crc2004(buf, mm) = At(buf, mm + 4),
           NEW i \in 0 .. Len(buf) - 1, NEW v \in Bytes8,
           v % 128 # At(buf, i) % 128, config_init.protocol # 1
    PROVE  \/ Parsed(Damaged(buf, i, v)) = <<>>
           \/ \E mm \in Searched2004(buf) :
                 /\ Channel2004(At(buf, mm + 1)) = config_init.countdown_channel
                 /\ Parsed(Damaged(buf, i, v)) = <<Record2004(buf, mm)>>
<1> DEFINE d       == Damaged(buf, i, v)
           channel == config_init.countdown_channel
<1>1. Len(d) = Len(buf) /\ \A j \in Nat : j # i => At(d, j) = At(buf, j)
  BY DamagedBytes
<1>2. ~(At(d, 0) = \h55 /\ At(d, 1) = \haa)
  <2>1. i = 0 => At(d, 1) = At(buf, 1)
    BY <1>1
  <2>2. i # 0 => At(d, 0) = At(buf, 0)
    BY <1>1
  <2> QED
    BY <2>1, <2>2
<1>3. Parsed(d) = <<>> \/ Parsed(d) = gat_2004_parse(d, channel)
  <2> HIDE DEF d
  <2> QED
    BY <1>2 DEF Parsed
<1>4. CASE gat_2004_parse(d, channel) = <<>>
  BY <1>3, <1>4
<1>5. CASE gat_2004_parse(d, channel) # <<>>
  <2>1. PICK m \in Searched2004(d) :
           /\ m \in Nat /\ Channel2004(At(d, m + 1)) = channel
           /\ Crc2004(d, m) = At(d, m + 4)
           /\ gat_2004_parse(d, channel) = <<Record2004(d, m)>>
    BY <1>1, <1>5, OneRecord
  <2>2. m \in Searched2004(buf)
    BY <1>1 DEF Searched2004
  <2>3. Crc2004(buf, m) = At(buf, m + 4)
    BY <2>2
  <2>4. i \notin m + 1 .. m + 4
    BY <2>1, <2>3, Refused2004
  <2>5. At(d, m + 1) = At(buf, m + 1) /\ Record2004(d, m) = Record2004(buf, m)
    <3>1. m \in Nat
      BY <2>1
    <3>2. \A n \in Nat : i \notin n + 1 .. n + 4 =>
              At(d, n + 1) = At(buf, n + 1) /\ Record2004(d, n) = Record2004(buf, n)
      BY RecordKept, SMTT(30)
    <3> HIDE DEF d
    <3>3. At(d, m + 1) = At(buf, m + 1)
      BY <2>4, <3>1, <3>2
    <3>4. Record2004(d, m) = Record2004(buf, m)
      BY <2>4, <3>1, <3>2
    <3> QED
      BY <3>3, <3>4
  <2> HIDE DEF d, channel
  <2>6. Channel2004(At(buf, m + 1)) = channel
    BY <2>1, <2>5
  <2>7. Parsed(d) = <<>> \/ Parsed(d) = <<Record2004(buf, m)>>
    BY <1>3, <2>1, <2>5
  <2> QED
    BY <2>2, <2>6, <2>7 DEF d, channel
<1> QED
  BY <1>4, <1>5

-----------------------------------------------------------------------------
(***************************************************************************)
(* Decipherment: the parser against the controller.                        *)
(***************************************************************************)
LEMMA Inserted ==
    ASSUME NEW S, NEW s \in Seq(S), NEW i \in 1 .. Len(s) + 1, NEW e \in S
    PROVE  /\ InsertAt(s, i, e) \in Seq(S) /\ Len(InsertAt(s, i, e)) = Len(s) + 1
           /\ \A j \in 1 .. i - 1 : InsertAt(s, i, e)[j] = s[j]
           /\ InsertAt(s, i, e)[i] = e
           /\ \A j \in i + 1 .. Len(s) + 1 : InsertAt(s, i, e)[j] = s[j - 1]
<1> DEFINE l == SubSeq(s, 1, i - 1)
           r == SubSeq(s, i, Len(s))
           t == l \o <<e>>
<1>1. /\ l \in Seq(S) /\ Len(l) = i - 1
      /\ \A j \in 1 .. i - 1 : l[j] = s[j]
  OBVIOUS
<1>2. /\ r \in Seq(S) /\ Len(r) = Len(s) - i + 1
      /\ \A j \in 1 .. Len(s) - i + 1 : r[j] = s[i + j - 1]
  OBVIOUS
<1> HIDE DEF l, r
<1>3. /\ t \in Seq(S) /\ Len(t) = i /\ t[i] = e
      /\ \A j \in 1 .. i - 1 : t[j] = s[j]
  BY <1>1
<1> HIDE DEF t
<1>4. InsertAt(s, i, e) = t \o r
  BY DEF InsertAt, t, l, r
<1>5. /\ t \o r \in Seq(S) /\ Len(t \o r) = Len(s) + 1
      /\ \A j \in 1 .. i : (t \o r)[j] = t[j]
      /\ \A j \in i + 1 .. Len(s) + 1 : (t \o r)[j] = r[j - i]
  BY <1>2, <1>3
<1>6. ASSUME NEW j \in i + 1 .. Len(s) + 1
      PROVE  (t \o r)[j] = s[j - 1]
  <2>1. j - i \in 1 .. Len(s) - i + 1 /\ i + (j - i) - 1 = j - 1
    OBVIOUS
  <2> QED
    BY <1>2, <1>5, <2>1
<1>7. /\ \A j \in 1 .. i - 1 : (t \o r)[j] = s[j]
      /\ (t \o r)[i] = e
  <2>1. \A j \in 1 .. i - 1 : j \in 1 .. i
    OBVIOUS
  <2>2. i \in 1 .. i
    OBVIOUS
  <2> QED
    BY <1>3, <1>5, <2>1, <2>2
<1>8. t \o r \in Seq(S) /\ Len(t \o r) = Len(s) + 1
  BY <1>5
<1>9. \A j \in i + 1 .. Len(s) + 1 : (t \o r)[j] = s[j - 1]
  BY <1>6
<1> QED
  BY <1>4, <1>7, <1>8, <1>9

\* The halves of a byte.
LEMMA Halves ==
    ASSUME NEW b \in Bytes8
    PROVE  /\ High(b) \in 0 .. 15 /\ Low(b) \in 0 .. 15 /\ b = 16 * High(b) + Low(b)
           /\ M1M1(b) \in Bytes8 /\ M2M2(b) \in Bytes8
           /\ P_cat(b) \in 0 .. 7 /\ Q_cat(b) \in 0 .. 7
BY DEF Bytes8, High, Low, M1M1, M2M2, P_cat, Q_cat

\* How many of two places are not beyond a third.
LEMMA PlacesBefore ==
    ASSUME NEW lo \in Nat, NEW hi \in Nat, 7 <= lo, lo < hi, NEW i \in Nat
    PROVE  Cardinality({lo, hi} \cap 7 .. i) =
               IF i < lo THEN 0 ELSE IF i < hi THEN 1 ELSE 2
<1>1. CASE i < lo
  <2>1. {lo, hi} \cap 7 .. i = {}
    BY <1>1
  <2> QED
    BY <1>1, <2>1, FS_EmptySet
<1>2. CASE ~(i < lo) /\ i < hi
  <2>1. {lo, hi} \cap 7 .. i = {lo}
    BY <1>2
  <2> QED
    BY <1>2, <2>1, FS_Singleton
<1>3. CASE ~(i < lo) /\ ~(i < hi)
  <2>1. {lo, hi} \cap 7 .. i = {lo} \cup {hi} /\ hi \notin {lo}
    BY <1>3
  <2> DEFINE s == {lo}
  <2>2. /\ IsFiniteSet(s) /\ Cardinality(s) = 1
        /\ hi \notin s
    <3>1. IsFiniteSet(s) /\ Cardinality(s) = 1
      BY FS_Singleton, Zenon
    <3>2. hi \notin s
      BY <2>1
    <3> QED
      BY <3>1, <3>2
  <2>3. {lo} \cup {hi} = s \cup {hi}
    OBVIOUS
  <2> HIDE DEF s
  <2>4. Cardinality(s \cup {hi}) = Cardinality(s) + 1
    BY <2>2, FS_AddElement
  <2> QED
    BY <1>3, <2>1, <2>2, <2>3, <2>4
<1> QED
  BY <1>1, <1>2, <1>3

\* Where the k-th byte of the information is, when two places are hidden.
LEMMA PlaceIs ==
    ASSUME NEW lo \in Nat, NEW hi \in Nat, 7 <= lo, lo < hi, NEW k \in Nat, k >= 1
    PROVE  Place({lo, hi}, k) =
               IF k + 6 < lo THEN k + 6 ELSE IF k + 7 < hi THEN k + 7 ELSE k + 8
<1> DEFINE place == IF k + 6 < lo THEN k + 6 ELSE IF k + 7 < hi THEN k + 7 ELSE k + 8
           Good(i) == /\ i \notin {lo, hi}
                      /\ i = k + 6 + Cardinality({lo, hi} \cap 7 .. i)
<1>1. ASSUME NEW i \in k + 6 .. k + 8
      PROVE  Good(i) <=> i = place
  <2>1. i \in Nat /\ Cardinality({lo, hi} \cap 7 .. i)
                         = IF i < lo THEN 0 ELSE IF i < hi THEN 1 ELSE 2
    BY PlacesBefore
  <2>2. CASE i < lo
    BY <2>1, <2>2
  <2>3. CASE ~(i < lo) /\ i < hi
    BY <2>1, <2>3
  <2>4. CASE ~(i < lo) /\ ~(i < hi)
    BY <2>1, <2>4
  <2> QED
    BY <2>2, <2>3, <2>4
<1>2. place \in k + 6 .. k + 8
  OBVIOUS
<1>3. Place({lo, hi}, k) = CHOOSE i \in k + 6 .. k + 8 : Good(i)
  BY DEF Place
<1> HIDE DEF place, Good
<1>4. Place({lo, hi}, k) = place
  BY <1>1, <1>2, <1>3
<1> QED
  BY <1>4 DEF place

\* The two bytes the controller hides, and the bytes they are hidden in.
HalfP(b, c)     == Xor(\h50 + High(c), M1M1(b))
HalfQ(b, c)     == Xor(16 * Low(c) + \h0a, M2M2(b))
Cipher(info, c) == [k \in 1 .. Len(info) |-> Xor(info[k], c)]

\* Where P' and Q' stand among the bytes behind the key B.
AtP(n, b) == IF n + 1 - Q_cat(b) > P_cat(b) THEN P_cat(b) + 1 ELSE P_cat(b) + 2
AtQ(n, b) == n + 2 - Q_cat(b)

\* Where the k-th byte of the cipher stands, if two bytes are at lo and hi.
Moved(lo, hi, k) == IF k < lo THEN k ELSE IF k + 1 < hi THEN k + 1 ELSE k + 2

\* Whichever of the two comes first.
Lower(n, b)  == IF AtP(n, b) < AtQ(n, b) THEN AtP(n, b) ELSE AtQ(n, b)
Higher(n, b) == IF AtP(n, b) < AtQ(n, b) THEN AtQ(n, b) ELSE AtP(n, b)

\* The two places are two.
LEMMA TwoPlaces ==
    ASSUME NEW n \in Nat, n >= 7, NEW b \in Bytes8
    PROVE  /\ AtP(n, b) \in 1 .. n + 2 /\ AtQ(n, b) \in 1 .. n + 2
           /\ AtP(n, b) # AtQ(n, b)
           /\ Lower(n, b) \in 1 .. n + 2 /\ Higher(n, b) \in 1 .. n + 2
           /\ Lower(n, b) < Higher(n, b)
           /\ {AtP(n, b), AtQ(n, b)} = {Lower(n, b), Higher(n, b)}
<1> DEFINE p == P_cat(b)
           q == Q_cat(b)
<1>1. p \in 0 .. 7 /\ q \in 0 .. 7
  BY Halves
<1> HIDE DEF p, q
<1>2. AtP(n, b) = IF n + 1 - q > p THEN p + 1 ELSE p + 2
  BY DEF AtP, p, q
<1>3. AtQ(n, b) = n + 2 - q
  BY DEF AtQ, q
<1>4. AtP(n, b) \in 1 .. n + 2
  BY <1>1, <1>2
<1>5. AtQ(n, b) \in 1 .. n + 2
  BY <1>1, <1>3
<1>6. AtP(n, b) # AtQ(n, b)
  BY <1>1, <1>2, <1>3
<1> QED
  BY <1>4, <1>5, <1>6 DEF Lower, Higher

\* What the controller sends behind the head of the frame.
LEMMA Enciphered ==
    ASSUME NEW info \in Seq(Bytes8), Len(info) >= 7, NEW b \in Bytes8, NEW c \in Bytes8
    PROVE  LET e  == Encipher(info, b, c)
               n  == Len(info)
           IN /\ e \in Seq(Bytes8) /\ Len(e) = n + 3 /\ e[1] = b
              /\ e[AtP(n, b) + 1] = HalfP(b, c)
              /\ e[AtQ(n, b) + 1] = HalfQ(b, c)
              /\ \A k \in 1 .. n :
                    e[Moved(Lower(n, b), Higher(n, b), k) + 1] = Xor(info[k], c)
<1> DEFINE e      == Encipher(info, b, c)
           n      == Len(info)
           p      == P_cat(b)
           q      == Q_cat(b)
           P      == HalfP(b, c)
           Q      == HalfQ(b, c)
           cipher == Cipher(info, c)
           withP  == InsertAt(cipher, p + 1, P)
           w      == InsertAt(withP, n + 2 - q, Q)
<1>1. n \in Nat /\ n >= 7
  OBVIOUS
<1>2. p \in 0 .. 7 /\ q \in 0 .. 7
  BY Halves
<1>3. P \in Bytes8 /\ Q \in Bytes8
  <2>0. High(c) \in 0 .. 15 /\ Low(c) \in 0 .. 15
    BY Halves
  <2>a. \A h \in 0 .. 15 : \h50 + h \in Bytes8 /\ 16 * h + \h0a \in Bytes8
    BY DEF Bytes8
  <2>1. \h50 + High(c) \in Bytes8
    BY <2>0, <2>a
  <2>2. 16 * Low(c) + \h0a \in Bytes8
    BY <2>0, <2>a
  <2>3. M1M1(b) \in Bytes8 /\ M2M2(b) \in Bytes8
    BY Halves
  <2> QED
    BY <2>1, <2>2, <2>3, XorBits DEF HalfP, HalfQ
<1>4. /\ cipher \in Seq(Bytes8) /\ Len(cipher) = n
      /\ \A k \in 1 .. n : cipher[k] = Xor(info[k], c)
  <2>1. \A k \in 1 .. n : Xor(info[k], c) \in Bytes8
    <3>1. \A k \in 1 .. n : info[k] \in Bytes8
      OBVIOUS
    <3> QED
      BY <3>1, XorBits
  <2> QED
    BY <1>1, <2>1 DEF Cipher
<1> HIDE DEF n, p, q, P, Q, cipher
<1>5. \A s \in Seq(Bytes8) : \A i \in 1 .. Len(s) + 1 : \A x \in Bytes8 :
         /\ InsertAt(s, i, x) \in Seq(Bytes8) /\ Len(InsertAt(s, i, x)) = Len(s) + 1
         /\ \A j \in 1 .. i - 1 : InsertAt(s, i, x)[j] = s[j]
         /\ InsertAt(s, i, x)[i] = x
         /\ \A j \in i + 1 .. Len(s) + 1 : InsertAt(s, i, x)[j] = s[j - 1]
  BY Inserted
<1>6. /\ withP \in Seq(Bytes8) /\ Len(withP) = n + 1 /\ withP[p + 1] = P
      /\ \A j \in 1 .. p : withP[j] = cipher[j]
      /\ \A j \in p + 2 .. n + 1 : withP[j] = cipher[j - 1]
  <2>1. p + 1 \in 1 .. n + 1 /\ (p + 1) - 1 = p /\ (p + 1) + 1 = p + 2
    BY <1>1, <1>2
  <2>2. /\ withP \in Seq(Bytes8) /\ Len(withP) = n + 1
        /\ \A j \in 1 .. (p + 1) - 1 : withP[j] = cipher[j]
        /\ withP[p + 1] = P
        /\ \A j \in (p + 1) + 1 .. n + 1 : withP[j] = cipher[j - 1]
    <3>1. cipher \in Seq(Bytes8) /\ p + 1 \in 1 .. Len(cipher) + 1 /\ P \in Bytes8
      BY <1>3, <1>4, <2>1
    <3>2. /\ withP \in Seq(Bytes8) /\ Len(withP) = Len(cipher) + 1
          /\ \A j \in 1 .. (p + 1) - 1 : withP[j] = cipher[j]
          /\ withP[p + 1] = P
          /\ \A j \in (p + 1) + 1 .. Len(cipher) + 1 : withP[j] = cipher[j - 1]
      BY <1>5, <3>1, ZenonT(30)
    <3> QED
      BY <1>4, <3>2, Zenon
  <2> HIDE DEF withP
  <2> QED
    BY <2>1, <2>2
<1> HIDE DEF withP
<1>7. /\ w \in Seq(Bytes8) /\ Len(w) = n + 2 /\ w[n + 2 - q] = Q
      /\ \A j \in 1 .. n + 1 - q : w[j] = withP[j]
      /\ \A j \in n + 3 - q .. n + 2 : w[j] = withP[j - 1]
  <2>1. n + 2 - q \in 1 .. n + 2
    BY <1>1, <1>2
  <2>2. (n + 2 - q) - 1 = n + 1 - q /\ (n + 2 - q) + 1 = n + 3 - q
    BY <1>1, <1>2
  <2>3. Len(withP) + 1 = n + 2
    BY <1>1, <1>6
  <2>4. /\ w \in Seq(Bytes8) /\ Len(w) = n + 2
        /\ \A j \in 1 .. (n + 2 - q) - 1 : w[j] = withP[j]
        /\ w[n + 2 - q] = Q
        /\ \A j \in (n + 2 - q) + 1 .. n + 2 : w[j] = withP[j - 1]
    <3>1. withP \in Seq(Bytes8) /\ n + 2 - q \in 1 .. Len(withP) + 1 /\ Q \in Bytes8
      BY <1>3, <1>6, <2>1, <2>3
    <3>2. /\ w \in Seq(Bytes8) /\ Len(w) = Len(withP) + 1
          /\ \A j \in 1 .. (n + 2 - q) - 1 : w[j] = withP[j]
          /\ w[n + 2 - q] = Q
          /\ \A j \in (n + 2 - q) + 1 .. Len(withP) + 1 : w[j] = withP[j - 1]
      BY <1>5, <3>1, ZenonT(30)
    <3> QED
      BY <2>3, <3>2, Zenon
  <2> HIDE DEF w
  <2> QED
    BY <2>2, <2>4
<1> HIDE DEF w
<1>8. e = <<b>> \o w
  <2>1. Len(withP) + 1 = n + 2
    BY <1>1, <1>6
  <2>2. e = <<b>> \o InsertAt(withP, Len(withP) + 1 - q, Q)
    BY Zenon DEF Encipher, withP, cipher, Cipher, P, Q, HalfP, HalfQ, p, q
  <2>3. Len(withP) + 1 - q = n + 2 - q
    <3>1. \A l \in Nat : l + 1 = n + 2 => l + 1 - q = n + 2 - q
      BY <1>1, <1>2
    <3>2. Len(withP) \in Nat
      BY <1>1, <1>6
    <3> QED
      BY <2>1, <3>1, <3>2
  <2> QED
    BY <2>2, <2>3 DEF w
<1> HIDE DEF e
<1>9. /\ e \in Seq(Bytes8) /\ Len(e) = n + 3 /\ e[1] = b
       /\ \A j \in 1 .. n + 2 : e[j + 1] = w[j]
  <2>1. <<b>> \in Seq(Bytes8) /\ Len(<<b>>) = 1 /\ <<b>>[1] = b
    OBVIOUS
  <2> QED
    BY <1>1, <1>7, <1>8, <2>1
<1>10. AtQ(n, b) = n + 2 - q /\ AtP(n, b) = IF n + 1 - q > p THEN p + 1 ELSE p + 2
  BY DEF AtP, AtQ, p, q
<1>11. w[AtP(n, b)] = P
  <2>1. CASE n + 1 - q > p
    <3>1. p + 1 \in 1 .. n + 1 - q
      BY <1>1, <1>2, <2>1
    <3>2. w[p + 1] = withP[p + 1]
      BY <1>7, <3>1
    <3> QED
      BY <1>6, <1>10, <2>1, <3>2
  <2>2. CASE ~(n + 1 - q > p)
    <3>1. p + 2 \in n + 3 - q .. n + 2 /\ (p + 2) - 1 = p + 1
      BY <1>1, <1>2, <2>2
    <3>2. w[p + 2] = withP[p + 1]
      BY <1>7, <3>1
    <3> QED
      BY <1>6, <1>10, <2>2, <3>2
  <2> QED
    BY <2>1, <2>2
<1>12. ASSUME NEW k \in 1 .. n
       PROVE  /\ Moved(Lower(n, b), Higher(n, b), k) \in 1 .. n + 2
              /\ w[Moved(Lower(n, b), Higher(n, b), k)] = cipher[k]
  <2> DEFINE m == IF k <= p THEN k ELSE k + 1
             l == IF m <= n + 1 - q THEN m ELSE m + 1
  <2>1. m \in 1 .. n + 1
    BY <1>1, <1>2
  <2>2. withP[m] = cipher[k]
    <3>1. CASE k <= p
      BY <1>2, <1>6, <3>1
    <3>2. CASE ~(k <= p)
      <4>1. k + 1 \in p + 2 .. n + 1 /\ (k + 1) - 1 = k
        BY <1>1, <1>2, <3>2
      <4> QED
        BY <1>6, <3>2, <4>1
    <3> QED
      BY <3>1, <3>2
  <2>3. Moved(Lower(n, b), Higher(n, b), k) = l
    BY <1>1, <1>2, <1>10 DEF Moved, Lower, Higher
  <2> HIDE DEF m
  <2>4. l \in 1 .. n + 2
    BY <1>1, <1>2, <2>1
  <2>5. w[l] = withP[m]
    <3>1. CASE m <= n + 1 - q
      BY <1>7, <2>1, <3>1
    <3>2. CASE ~(m <= n + 1 - q)
      <4>1. m + 1 \in n + 3 - q .. n + 2 /\ (m + 1) - 1 = m
        BY <1>1, <1>2, <2>1, <3>2
      <4> QED
        BY <1>7, <3>2, <4>1
    <3> QED
      BY <3>1, <3>2
  <2> HIDE DEF l
  <2> QED
    BY <2>2, <2>3, <2>4, <2>5
<1>13. ASSUME NEW k \in 1 .. n
       PROVE  e[Moved(Lower(n, b), Higher(n, b), k) + 1] = Xor(info[k], c)
  BY <1>4, <1>9, <1>12, SMTT(30)
<1>14. AtP(n, b) \in 1 .. n + 2 /\ AtQ(n, b) \in 1 .. n + 2
  BY <1>1, TwoPlaces
<1>15. e[AtP(n, b) + 1] = P /\ e[AtQ(n, b) + 1] = Q
  BY <1>7, <1>9, <1>10, <1>11, <1>14
<1> QED
  BY <1>9, <1>13, <1>15 DEF e, n, P, Q

\* What stands where in a frame.
LEMMA InFrame ==
    ASSUME NEW e \in Seq(Bytes8)
    PROVE  LET body == <<\h7e>> \o e
               F    == <<\h2c, \h2c, \h2c, \h2c, Len(body) + 1>> \o body \o <<0>>
           IN /\ F \in Seq(Nat) /\ Len(F) = Len(e) + 7
              /\ \A i \in 0 .. 3 : At(F, i) = \h2c
              /\ At(F, 4) = Len(e) + 2 /\ At(F, 5) = \h7e
              /\ \A i \in 1 .. Len(e) : At(F, i + 5) = e[i]
<1> DEFINE body == <<\h7e>> \o e
           head == <<\h2c, \h2c, \h2c, \h2c, Len(body) + 1>>
           hb   == head \o body
           F    == hb \o <<0>>
<1>1. e \in Seq(Nat) /\ Len(e) \in Nat
  <2>1. \A i \in 1 .. Len(e) : e[i] \in Nat
    BY BytesAreNumbers
  <2> QED
    BY <2>1
<1>2. /\ body \in Seq(Nat) /\ Len(body) = Len(e) + 1 /\ body[1] = \h7e
      /\ \A i \in 1 .. Len(e) : body[i + 1] = e[i]
  <2>1. <<\h7e>> \in Seq(Nat) /\ Len(<<\h7e>>) = 1 /\ <<\h7e>>[1] = \h7e
    OBVIOUS
  <2> QED
    BY <1>1, <2>1
<1> HIDE DEF body
<1>3. /\ head \in Seq(Nat) /\ Len(head) = 5 /\ head[5] = Len(e) + 2
      /\ \A i \in 1 .. 4 : head[i] = \h2c
  BY <1>1, <1>2
<1> HIDE DEF head
<1>4. /\ hb \in Seq(Nat) /\ Len(hb) = Len(e) + 6 /\ hb[5] = Len(e) + 2
      /\ \A i \in 1 .. 4 : hb[i] = \h2c
      /\ \A i \in 1 .. Len(body) : hb[i + 5] = body[i]
  <2>0. body \in Seq(Nat) /\ head \in Seq(Nat) /\ Len(head) = 5
    BY <1>2, <1>3
  <2>a. \A s, t \in Seq(Nat) :
           /\ s \o t \in Seq(Nat) /\ Len(s \o t) = Len(s) + Len(t)
           /\ \A i \in 1 .. Len(s) : (s \o t)[i] = s[i]
           /\ \A i \in 1 .. Len(t) : (s \o t)[i + Len(s)] = t[i]
    OBVIOUS
  <2>1. /\ hb \in Seq(Nat) /\ Len(hb) = Len(head) + Len(body)
        /\ \A i \in 1 .. Len(head) : hb[i] = head[i]
        /\ \A i \in 1 .. Len(body) : hb[i + Len(head)] = body[i]
    BY <2>0, <2>a, Zenon
  <2>2. hb[5] = head[5] /\ \A i \in 1 .. 4 : hb[i] = head[i]
    <3> HIDE DEF hb
    <3> QED
      BY <2>0, <2>1
  <2>3. \A i \in 1 .. Len(body) : hb[i + 5] = body[i]
    <3> HIDE DEF hb
    <3> QED
      BY <2>0, <2>1
  <2> HIDE DEF hb
  <2>4. Len(hb) = Len(e) + 6
    BY <1>1, <1>2, <1>3, <2>1
  <2> QED
    BY <1>3, <2>1, <2>2, <2>3, <2>4
<1> HIDE DEF hb
<1>5. /\ F \in Seq(Nat) /\ Len(F) = Len(e) + 7
      /\ \A i \in 1 .. Len(e) + 6 : F[i] = hb[i]
  <2>1. <<0>> \in Seq(Nat) /\ Len(<<0>>) = 1
    OBVIOUS
  <2> QED
    BY <1>1, <1>4, <2>1
<1> HIDE DEF F
<1>6. At(F, 4) = Len(e) + 2
  BY <1>1, <1>4, <1>5 DEF At
<1>7. At(F, 5) = \h7e
  <2>1. 1 \in 1 .. Len(body) /\ 1 + 5 = 6
    BY <1>1, <1>2
  <2>2. hb[6] = \h7e
    BY <1>2, <1>4, <2>1
  <2>3. 6 \in 1 .. Len(e) + 6 /\ 6 \in 1 .. Len(F) /\ 5 + 1 = 6
    BY <1>1, <1>5
  <2>4. At(F, 5) = F[6]
    BY <1>5, <2>3 DEF At
  <2> QED
    BY <1>5, <2>2, <2>3, <2>4
<1>8. ASSUME NEW i \in 0 .. 3
      PROVE  At(F, i) = \h2c
  <2>1. i + 1 \in 1 .. 4 /\ i + 1 \in 1 .. Len(e) + 6 /\ i + 1 \in 1 .. Len(F)
    BY <1>1, <1>5
  <2>2. At(F, i) = F[i + 1]
    BY <1>5, <2>1 DEF At
  <2> QED
    BY <1>4, <1>5, <2>1, <2>2
<1>9. ASSUME NEW i \in 1 .. Len(e)
      PROVE  At(F, i + 5) = e[i]
  <2>1. At(F, i + 5) = F[i + 6]
    BY <1>1, <1>5 DEF At
  <2>2. F[i + 6] = hb[i + 6]
    <3>1. i + 6 \in 1 .. Len(e) + 6
      BY <1>1
    <3> QED
      BY <1>5, <3>1
  <2>3. i + 1 \in 1 .. Len(body) /\ i + 6 = (i + 1) + 5
    BY <1>1, <1>2
  <2>4. hb[i + 6] = body[i + 1]
    BY <1>4, <2>3
  <2> QED
    BY <1>2, <2>1, <2>2, <2>4
<1> QED
  BY <1>5, <1>6, <1>7, <1>8, <1>9 DEF F, hb, head, body

\* The two halves give the key back.
LEMMA KeyBack ==
    ASSUME NEW b \in Bytes8, NEW c \in Bytes8
    PROVE  16 * Low(Xor(HalfP(b, c), M1M1(b))) + High(Xor(HalfQ(b, c), M2M2(b))) = c
<1> DEFINE h == High(c)
           l == Low(c)
<1>1. h \in 0 .. 15 /\ l \in 0 .. 15 /\ c = 16 * h + l
  BY Halves
<1>2. M1M1(b) \in Bytes8 /\ M2M2(b) \in Bytes8
  BY Halves
<1>3. \A x \in 0 .. 15 :
         /\ \h50 + x \in Bytes8 /\ Low(\h50 + x) = x
         /\ 16 * x + \h0a \in Bytes8 /\ High(16 * x + \h0a) = x
  BY DEF Bytes8, Low, High
<1> HIDE DEF h, l
<1>4. Xor(HalfP(b, c), M1M1(b)) = \h50 + h
  BY <1>1, <1>2, <1>3, XorTwice DEF HalfP, h
<1>5. Xor(HalfQ(b, c), M2M2(b)) = 16 * l + \h0a
  BY <1>1, <1>2, <1>3, XorTwice DEF HalfQ, l
<1>6. Low(\h50 + h) = h /\ High(16 * l + \h0a) = l
  BY <1>1, <1>3
<1> QED
  BY <1>1, <1>4, <1>5, <1>6

\* Whatever the keys and wherever P' and Q' stand, the parser reads the
\* information the controller has enciphered (ge_lin_wei.c:26-110), in a frame
\* of the length and with the byte behind it that it asks for
\* (ge_lin_wei.c:122-127).  Seven bytes of information are as far as P' can
\* stand from the left; the shortest information with a record has ten.
THEOREM Deciphered ==
    ASSUME NEW f, ~f.clear, Information(f) \in Seq(Bytes8),
           Len(Information(f)) >= 7, f.keyB \in Bytes8, f.keyC \in Bytes8
    PROVE  LET frame == BytesGeLin(f) IN
           /\ org_data(frame) = Information(f)
           /\ Len(frame) = At(frame, 4) + 5 /\ At(frame, 5) = \h7e
           /\ frame \in Seq(Nat) /\ Len(frame) = Len(Information(f)) + 10
           /\ \A i \in 0 .. 3 : At(frame, i) = \h2c
<1> DEFINE info == Information(f)
           b    == f.keyB
           c    == f.keyC
           n    == Len(info)
           e    == Encipher(info, b, c)
           F    == BytesGeLin(f)
           lo   == Lower(n, b) + 6
           hi   == Higher(n, b) + 6
<1>1. info \in Seq(Bytes8) /\ b \in Bytes8 /\ c \in Bytes8 /\ n \in Nat /\ n >= 7
  OBVIOUS
<1>2. /\ e \in Seq(Bytes8) /\ Len(e) = n + 3 /\ e[1] = b
      /\ e[AtP(n, b) + 1] = HalfP(b, c)
      /\ e[AtQ(n, b) + 1] = HalfQ(b, c)
      /\ \A k \in 1 .. n :
            e[Moved(Lower(n, b), Higher(n, b), k) + 1] = Xor(info[k], c)
  <2>1. \A s \in Seq(Bytes8) : Len(s) >= 7 => \A x, y \in Bytes8 :
           /\ Encipher(s, x, y) \in Seq(Bytes8)
           /\ Len(Encipher(s, x, y)) = Len(s) + 3 /\ Encipher(s, x, y)[1] = x
           /\ Encipher(s, x, y)[AtP(Len(s), x) + 1] = HalfP(x, y)
           /\ Encipher(s, x, y)[AtQ(Len(s), x) + 1] = HalfQ(x, y)
           /\ \A k \in 1 .. Len(s) :
                 Encipher(s, x, y)[Moved(Lower(Len(s), x), Higher(Len(s), x), k) + 1]
                     = Xor(s[k], y)
    BY Enciphered
  <2>2. info \in Seq(Bytes8) /\ b \in Bytes8 /\ c \in Bytes8 /\ Len(info) >= 7
    OBVIOUS
  <2> HIDE DEF info, b, c
  <2>3. /\ Encipher(info, b, c) \in Seq(Bytes8)
        /\ Len(Encipher(info, b, c)) = Len(info) + 3 /\ Encipher(info, b, c)[1] = b
        /\ Encipher(info, b, c)[AtP(Len(info), b) + 1] = HalfP(b, c)
        /\ Encipher(info, b, c)[AtQ(Len(info), b) + 1] = HalfQ(b, c)
        /\ \A k \in 1 .. Len(info) :
              Encipher(info, b, c)
                  [Moved(Lower(Len(info), b), Higher(Len(info), b), k) + 1]
                  = Xor(info[k], c)
    BY <2>1, <2>2
  <2> QED
    BY <2>3, Zenon
<1>3. F = <<\h2c, \h2c, \h2c, \h2c, Len(<<\h7e>> \o e) + 1>> \o (<<\h7e>> \o e) \o <<0>>
  BY DEF BytesGeLin
<1>4. n = Len(info)
  OBVIOUS
<1> HIDE DEF e, F, info, b, c, n
<1>5. /\ F \in Seq(Nat) /\ Len(F) = Len(e) + 7
      /\ \A i \in 0 .. 3 : At(F, i) = \h2c
      /\ At(F, 4) = Len(e) + 2 /\ At(F, 5) = \h7e
      /\ \A i \in 1 .. Len(e) : At(F, i + 5) = e[i]
  BY <1>2, <1>3, InFrame
<1>6. Len(F) = n + 10 /\ At(F, 4) = n + 5
  BY <1>1, <1>2, <1>5
<1>7. \A i \in 0 .. n + 2 : At(F, i + 6) = e[i + 1]
  <2> SUFFICES ASSUME NEW i \in 0 .. n + 2
               PROVE  At(F, i + 6) = e[i + 1]
    OBVIOUS
  <2>1. i + 1 \in 1 .. Len(e) /\ (i + 1) + 5 = i + 6
    BY <1>1, <1>2
  <2>2. \A k \in 1 .. Len(e) : At(F, k + 5) = e[k]
    BY <1>5
  <2>3. At(F, (i + 1) + 5) = e[i + 1]
    BY <2>1, <2>2
  <2> QED
    BY <2>1, <2>3
<1>8. At(F, 6) = b
  <2>1. At(F, 0 + 6) = e[0 + 1]
    BY <1>1, <1>7
  <2> QED
    BY <1>2, <2>1
<1>9. /\ AtP(n, b) \in 1 .. n + 2 /\ AtQ(n, b) \in 1 .. n + 2
      /\ Lower(n, b) \in 1 .. n + 2 /\ Higher(n, b) \in 1 .. n + 2
      /\ Lower(n, b) < Higher(n, b)
      /\ {AtP(n, b), AtQ(n, b)} = {Lower(n, b), Higher(n, b)}
  BY <1>1, TwoPlaces
<1>10. P_cat(b) \in 0 .. 7 /\ Q_cat(b) \in 0 .. 7
  BY <1>1, Halves
<1>11. p_pos(F) = AtP(n, b) + 6 /\ q_pos(F) = AtQ(n, b) + 6
  <2>1. p_pos(F) = P_cat(b) + (IF (n + 10) - 9 - Q_cat(b) > P_cat(b) THEN 7 ELSE 8)
    BY <1>6, <1>8, Zenon DEF p_pos
  <2>2. q_pos(F) = (n + 10) - 2 - Q_cat(b)
    BY <1>6, <1>8, Zenon DEF q_pos
  <2>3. \A p, q \in 0 .. 7 :
           /\ p + (IF (n + 10) - 9 - q > p THEN 7 ELSE 8)
                  = (IF n + 1 - q > p THEN p + 1 ELSE p + 2) + 6
           /\ (n + 10) - 2 - q = (n + 2 - q) + 6
    BY <1>1
  <2> QED
    BY <1>10, <2>1, <2>2, <2>3 DEF AtP, AtQ
<1>12. key_C(F) = c
  <2>1. At(F, p_pos(F)) = HalfP(b, c) /\ At(F, q_pos(F)) = HalfQ(b, c)
    <3>1. AtP(n, b) \in 0 .. n + 2 /\ AtQ(n, b) \in 0 .. n + 2
      BY <1>1, <1>9
    <3> QED
      BY <1>2, <1>7, <1>11, <3>1, Zenon
  <2>2. key_C(F) = 16 * Low(Xor(HalfP(b, c), M1M1(b)))
                       + High(Xor(HalfQ(b, c), M2M2(b)))
    BY <1>8, <2>1 DEF key_C
  <2> QED
    BY <1>1, <2>2, KeyBack
<1>13. lo \in Nat /\ hi \in Nat /\ 7 <= lo /\ lo < hi /\ hi <= n + 8
  BY <1>1, <1>9
<1>14. {p_pos(F), q_pos(F)} = {lo, hi}
  BY <1>9, <1>11
<1> HIDE DEF lo, hi
<1>15. Cardinality({lo, hi} \cap 7 .. Len(F) - 2) = 2
  <2>1. Len(F) - 2 = n + 8 /\ n + 8 \in Nat
    BY <1>1, <1>6
  <2>2. ~(n + 8 < lo) /\ ~(n + 8 < hi)
    BY <1>1, <1>13
  <2> QED
    BY <1>13, <2>1, <2>2, PlacesBefore
<1>16. Len(F) - 8 - Cardinality({lo, hi} \cap 7 .. Len(F) - 2) = n
  BY <1>1, <1>6, <1>15
<1>17. ASSUME NEW k \in 1 .. n
       PROVE  Xor(At(F, Place({lo, hi}, k)), c) = info[k]
  <2>1. Place({lo, hi}, k) = IF k + 6 < lo THEN k + 6 ELSE IF k + 7 < hi THEN k + 7 ELSE k + 8
    BY <1>13, PlaceIs
  <2>2. /\ Place({lo, hi}, k) = Moved(Lower(n, b), Higher(n, b), k) + 6
        /\ Moved(Lower(n, b), Higher(n, b), k) \in 0 .. n + 2
    BY <1>1, <1>9, <2>1, SMTT(30) DEF Moved, lo, hi
  <2>3. At(F, Place({lo, hi}, k)) = Xor(info[k], c)
    BY <1>2, <1>7, <2>2
  <2>4. info[k] \in Bytes8
    BY <1>1, <1>4
  <2> QED
    BY <1>1, <2>3, <2>4, XorTwice
<1>18. org_data(F) = [k \in 1 .. n |-> info[k]]
  <2>1. org_data(F) = [k \in 1 .. n |-> Xor(At(F, Place({lo, hi}, k)), c)]
    BY <1>12, <1>14, <1>16 DEF org_data
  <2> QED
    BY <1>17, <2>1
<1>19. info = [k \in 1 .. n |-> info[k]]
  BY <1>1, <1>4
<1>20. Len(F) = At(F, 4) + 5
  BY <1>1, <1>6
<1>21. Len(F) = Len(info) + 10
  BY <1>4, <1>6
<1> QED
  BY <1>5, <1>18, <1>19, <1>20, <1>21 DEF F, info

\* A frame in cipher is parsed as its information in clear would be: it is for
\* this sign if its direction is, and then the first record with the address
\* of the sign is posted (ge_lin_wei.c:121-180).
THEOREM CipherTransparent ==
    ASSUME NEW f, ~f.clear, Information(f) \in Seq(Bytes8),
           Len(Information(f)) >= 7, f.keyB \in Bytes8, f.keyC \in Bytes8
    PROVE  LET org  == Information(f)
               mine == Mine(org, config_init)
           IN parse(BytesGeLin(f), config_init)
                  = IF At(org, 0) = config_init.countdown_direction /\ mine # {}
                    THEN <<Post(org, Min(mine))>> ELSE <<>>
<1> DEFINE F == BytesGeLin(f)
<1>1. org_data(F) = Information(f) /\ Len(F) = At(F, 4) + 5 /\ At(F, 5) = \h7e
  BY Deciphered
<1> HIDE DEF F
<1>2. parse(F, config_init)
          = LET org  == Information(f)
                mine == Mine(org, config_init)
            IN IF At(org, 0) = config_init.countdown_direction /\ mine # {}
               THEN <<Post(org, Min(mine))>> ELSE <<>>
  BY <1>1 DEF parse
<1> QED
  BY <1>2 DEF F

-----------------------------------------------------------------------------
(***************************************************************************)
(* What the controllers of the national protocols send.                    *)
(***************************************************************************)

\* The two bytes of a number of four digits, and the number again.
Upper2(n)  == TwoDigits(n \div 100)
Lower2(n)  == TwoDigits(n % 100)

LEMMA NumberBack ==
    ASSUME NEW n \in FourDigits
    PROVE  /\ Upper2(n) \in Bytes8 /\ Lower2(n) \in Bytes8
           /\ Bcd(Upper2(n), Lower2(n)) = n
<1>1. \A h \in 0 .. 99 : TwoDigits(h) \in Bytes8
  BY DEF TwoDigits, Bytes8
<1>2. /\ n \div 100 \in 0 .. 99 /\ n % 100 \in 0 .. 99
      /\ n = 100 * (n \div 100) + (n % 100)
  BY FoursAreNumbers
<1>3. Bcd(Upper2(n), Lower2(n)) = n
  <2> DEFINE q == n \div 100
             d == n % 100
  <2>1. 10 * High(TwoDigits(q)) + Low(TwoDigits(q)) = q
    BY <1>2 DEF TwoDigits, High, Low
  <2>2. 10 * High(TwoDigits(d)) + Low(TwoDigits(d)) = d
    BY <1>2 DEF TwoDigits, High, Low
  <2>3. Bcd(TwoDigits(q), TwoDigits(d))
            = 100 * (10 * High(TwoDigits(q)) + Low(TwoDigits(q)))
                  + (10 * High(TwoDigits(d)) + Low(TwoDigits(d)))
    <3>1. \A x, y, z, w \in Int :
             1000 * x + 100 * y + 10 * z + w = 100 * (10 * x + y) + (10 * z + w)
      OBVIOUS
    <3>2. /\ High(TwoDigits(q)) \in Int /\ Low(TwoDigits(q)) \in Int
          /\ High(TwoDigits(d)) \in Int /\ Low(TwoDigits(d)) \in Int
      BY <1>2 DEF TwoDigits, High, Low
    <3> QED
      BY <3>1, <3>2 DEF Bcd
  <2>4. Upper2(n) = TwoDigits(q) /\ Lower2(n) = TwoDigits(d)
    BY DEF Upper2, Lower2
  <2> HIDE DEF q, d
  <2>5. Bcd(TwoDigits(q), TwoDigits(d)) = 100 * q + d
    BY <2>1, <2>2, <2>3
  <2> QED
    BY <1>2, <2>4, <2>5 DEF q, d
<1> QED
  BY <1>1, <1>2, <1>3 DEF Upper2, Lower2

\* The control byte of 2004, and its fields again.
LEMMA ControlByte ==
    ASSUME NEW colour \in Colours, NEW addr \in 0 .. 7, NEW auto \in BOOLEAN
    PROVE  LET ctl == Bits(colour) + 4 * addr + (IF auto THEN \h20 ELSE 0) IN
           /\ ctl \in 0 .. 63
           /\ ColourOf(ctl % 4) = colour
           /\ Channel2004(ctl) = addr
           /\ (Bit(ctl, 5) = 1) = auto
<1>1. Bits(colour) \in 0 .. 3 /\ ColourOf(Bits(colour)) = colour
  BY DEF Bits, ColourOf, Colours
<1>2. \A b \in 0 .. 3, a \in 0 .. 7, x \in {0, 32} :
         /\ b + 4 * a + x \in 0 .. 63 /\ (b + 4 * a + x) % 4 = b
         /\ ((b + 4 * a + x) \div 4) % 8 = a
         /\ ((b + 4 * a + x) \div 32) % 2 = 1 <=> x = 32
  OBVIOUS
<1> DEFINE x   == IF auto THEN \h20 ELSE 0
           b   == Bits(colour)
           ctl == b + 4 * addr + x
<1>3. x \in {0, 32} /\ (x = 32 <=> auto)
  OBVIOUS
<1> HIDE DEF x, b
<1>4. /\ ctl \in 0 .. 63 /\ ctl % 4 = b /\ (ctl \div 4) % 8 = addr
      /\ (ctl \div 32) % 2 = 1 <=> auto
  BY <1>1, <1>2, <1>3 DEF b
<1>5. Bit(ctl, 5) = (ctl \div 32) % 2
  BY DEF Bit, Weight
<1> HIDE DEF ctl
<1>6. /\ ctl \in 0 .. 63 /\ ColourOf(ctl % 4) = colour
      /\ Channel2004(ctl) = addr /\ (Bit(ctl, 5) = 1) = auto
  BY <1>1, <1>4, <1>5 DEF Channel2004, b
<1> QED
  BY <1>6 DEF ctl, b, x

\* What the neutral byte does, and one more byte.
LEMMA NoBits == \A k \in 0 .. 7 : Bit(0, k) = 0
<1>1. \A k \in 0 .. 7 : Weight[k + 1] \in {1, 2, 4, 8, 16, 32, 64, 128}
  BY DEF Weight
<1>2. \A w \in {1, 2, 4, 8, 16, 32, 64, 128} : (0 \div w) % 2 = 0
  OBVIOUS
<1> QED
  BY <1>1, <1>2 DEF Bit

LEMMA XorZero ==
    ASSUME NEW x \in Bytes8
    PROVE  Xor(0, x) = x
<1>1. 0 \in Bytes8
  BY DEF Bytes8
<1>2. Xor(0, x) \in Bytes8
  BY <1>1, XorBits
<1>3. ASSUME NEW k \in 0 .. 7
      PROVE  Bit(Xor(0, x), k) = Bit(x, k)
  <2>1. Bit(Xor(0, x), k) = (0 + Bit(x, k)) % 2
    BY <1>1, NoBits, XorBits
  <2>2. Bit(x, k) \in {0, 1}
    BY BitType
  <2> QED
    BY <2>1, <2>2
<1> QED
  BY <1>2, <1>3, SameBits

LEMMA XorOfNone ==
    ASSUME NEW buf, NEW from \in Int
    PROVE  XorOf(buf, from, from - 1) = 0
<1>1. 0 \in Bytes8 /\ XorOf(buf, from, from - 1) \in Bytes8
  BY XorOfBits DEF Bytes8
<1>2. ASSUME NEW k \in 0 .. 7
      PROVE  Bit(XorOf(buf, from, from - 1), k) = Bit(0, k)
  <2>1. Ones(buf, from, from - 1, k) = {}
    BY DEF Ones
  <2>2. Cardinality(Ones(buf, from, from - 1, k)) % 2 = 0
    BY <2>1, FS_EmptySet
  <2>3. Bit(XorOf(buf, from, from - 1), k)
            = Cardinality(Ones(buf, from, from - 1, k)) % 2
    BY XorOfBits
  <2> QED
    BY <2>2, <2>3, NoBits
<1> QED
  BY <1>1, <1>2, SameBits

LEMMA XorOfNext ==
    ASSUME NEW buf, NEW from \in Int, NEW to \in Int, to + 1 >= from,
           At(buf, to + 1) \in Bytes8
    PROVE  XorOf(buf, from, to + 1) = Xor(XorOf(buf, from, to), At(buf, to + 1))
<1> DEFINE x == At(buf, to + 1)
<1>1. /\ XorOf(buf, from, to) \in Bytes8 /\ XorOf(buf, from, to + 1) \in Bytes8
      /\ Xor(XorOf(buf, from, to), x) \in Bytes8
  BY XorOfBits, XorBits
<1>2. ASSUME NEW k \in 0 .. 7
      PROVE  Bit(XorOf(buf, from, to + 1), k) = Bit(Xor(XorOf(buf, from, to), x), k)
  <2> DEFINE S == Ones(buf, from, to, k)
             T == Ones(buf, from, to + 1, k)
  <2>1. IsFiniteSet(S) /\ Cardinality(S) \in Nat
    BY OnesFinite
  <2>2. /\ Bit(XorOf(buf, from, to), k) = Cardinality(S) % 2
        /\ Bit(XorOf(buf, from, to + 1), k) = Cardinality(T) % 2
    BY XorOfBits
  <2>3. Bit(Xor(XorOf(buf, from, to), x), k) = ((Cardinality(S) % 2) + Bit(x, k)) % 2
    BY <1>1, <2>2, XorBits
  <2>4. Bit(x, k) \in {0, 1}
    BY BitType
  <2>5. from .. to + 1 = from .. to \cup {to + 1} /\ to + 1 \notin from .. to
    OBVIOUS
  <2>6. CASE Bit(x, k) = 0
    <3>1. T = S
      BY <2>5, <2>6 DEF Ones
    <3>2. ((Cardinality(S) % 2) + 0) % 2 = Cardinality(S) % 2
      BY <2>1
    <3> QED
      BY <2>2, <2>3, <2>6, <3>1, <3>2
  <2>7. CASE Bit(x, k) = 1
    <3>1. T = S \cup {to + 1} /\ to + 1 \notin S
      BY <2>5, <2>7 DEF Ones
    <3>2. Cardinality(T) = Cardinality(S) + 1
      BY <2>1, <3>1, FS_AddElement
    <3>3. ((Cardinality(S) % 2) + 1) % 2 = (Cardinality(S) + 1) % 2
      BY <2>1
    <3> QED
      BY <2>2, <2>3, <2>7, <3>2, <3>3
  <2> QED
    BY <2>4, <2>6, <2>7
<1> QED
  BY <1>1, <1>2, SameBits

\* The exclusive or of three bytes in a row.
LEMMA XorOfThree ==
    ASSUME NEW buf, NEW mm \in Nat,
           At(buf, mm + 1) \in Bytes8, At(buf, mm + 2) \in Bytes8,
           At(buf, mm + 3) \in Bytes8
    PROVE  XorOf(buf, mm + 1, mm + 3)
               = Xor(Xor(At(buf, mm + 1), At(buf, mm + 2)), At(buf, mm + 3))
<1>1. \A to \in Int : to + 1 >= mm + 1 /\ At(buf, to + 1) \in Bytes8 =>
          XorOf(buf, mm + 1, to + 1) = Xor(XorOf(buf, mm + 1, to), At(buf, to + 1))
  BY XorOfNext
<1>2. mm \in Int /\ mm + 1 \in Int /\ mm + 2 \in Int /\ (mm + 1) - 1 = mm
      /\ (mm + 1) + 1 = mm + 2 /\ (mm + 2) + 1 = mm + 3
  OBVIOUS
<1>3. XorOf(buf, mm + 1, mm) = 0
  <2>1. XorOf(buf, mm + 1, (mm + 1) - 1) = 0
    BY <1>2, XorOfNone
  <2> QED
    BY <1>2, <2>1
<1>4. XorOf(buf, mm + 1, mm + 1) = At(buf, mm + 1)
  BY <1>1, <1>2, <1>3, XorZero
<1>5. XorOf(buf, mm + 1, mm + 2) = Xor(At(buf, mm + 1), At(buf, mm + 2))
  <2>1. XorOf(buf, mm + 1, (mm + 1) + 1)
            = Xor(XorOf(buf, mm + 1, mm + 1), At(buf, (mm + 1) + 1))
    BY <1>1, <1>2
  <2> QED
    BY <1>2, <1>4, <2>1
<1>6. XorOf(buf, mm + 1, (mm + 2) + 1)
          = Xor(XorOf(buf, mm + 1, mm + 2), At(buf, (mm + 2) + 1))
  BY <1>1, <1>2
<1> QED
  BY <1>2, <1>5, <1>6

\* A byte that is added without carry changes what it is added to, and its
\* seven low bits, unless only the highest is added.
LEMMA XorChanges ==
    ASSUME NEW x \in Bytes8, NEW added \in 1 .. 255
    PROVE  /\ Xor(x, added) \in Bytes8 /\ Xor(x, added) # x
           /\ added # 128 => Xor(x, added) % 128 # x % 128
<1>1. added \in Bytes8 /\ 0 \in Bytes8
  BY DEF Bytes8
<1>2. Xor(x, added) \in Bytes8
  BY <1>1, XorBits
<1>3. ASSUME NEW k \in 0 .. 7, Bit(added, k) # 0
      PROVE  Bit(Xor(x, added), k) # Bit(x, k)
  <2>1. Bit(Xor(x, added), k) = (Bit(x, k) + Bit(added, k)) % 2
    BY <1>1, XorBits
  <2>2. Bit(x, k) \in {0, 1} /\ Bit(added, k) \in {0, 1}
    BY <1>1, BitType
  <2> QED
    BY <1>3, <2>1, <2>2
<1>4. Xor(x, added) # x
  <2>1. PICK k \in 0 .. 7 : Bit(added, k) # Bit(0, k)
    <3>1. added # 0
      OBVIOUS
    <3> QED
      BY <1>1, <3>1, SameBits
  <2>2. Bit(added, k) # 0
    BY <2>1, NoBits
  <2> QED
    BY <1>3, <2>2
<1>5. ASSUME added # 128
      PROVE  Xor(x, added) % 128 # x % 128
  <2>1. added % 128 # 0 % 128
    BY <1>5
  <2>2. PICK k \in 0 .. 6 : Bit(added, k) # Bit(0, k)
    BY <1>1, <2>1, LowBitsDiffer
  <2>3. k \in 0 .. 7
    OBVIOUS
  <2>4. Bit(Xor(x, added), k) # Bit(x, k)
    BY <1>3, <2>2, <2>3, NoBits
  <2>5. /\ Bit(Xor(x, added) % 128, k) = Bit(Xor(x, added), k)
        /\ Bit(x % 128, k) = Bit(x, k)
    BY <1>2, LowBits
  <2> QED
    BY <2>4, <2>5
<1> QED
  BY <1>2, <1>4, <1>5

\* The five bytes of a record of 2004.
LEMMA FiveBytes ==
    ASSUME NEW f, f.auto \in BOOLEAN, NEW r \in NationalRecord, r.addr <= 7
    PROVE  LET b == Five(f, r) IN
           /\ Len(b) = 5 /\ \A j \in 1 .. 5 : b[j] \in Bytes8
           /\ b[1] = \hfe /\ b[2] # \haa
           /\ b[5] = Xor(Xor(b[2], b[3]), b[4]) % 128
           /\ ColourOf(b[2] % 4) = r.colour /\ Channel2004(b[2]) = r.addr
           /\ (Bit(b[2], 5) = 1) = f.auto
           /\ Bcd(b[3], b[4]) = r.total
<1> DEFINE ctl == Bits(r.colour) + 4 * r.addr + (IF f.auto THEN \h20 ELSE 0)
           h   == Upper2(r.total)
           l   == Lower2(r.total)
           x   == Xor(Xor(ctl, h), l)
<1>1. r.colour \in Colours /\ r.addr \in 0 .. 7 /\ r.total \in FourDigits
  BY RecordFields
<1>2. /\ ctl \in 0 .. 63 /\ ColourOf(ctl % 4) = r.colour
      /\ Channel2004(ctl) = r.addr /\ (Bit(ctl, 5) = 1) = f.auto
  BY <1>1, ControlByte
<1>3. h \in Bytes8 /\ l \in Bytes8 /\ Bcd(h, l) = r.total
  BY <1>1, NumberBack, Zenon
<1>4. Five(f, r) = <<\hfe, ctl, h, l, x % 128>>
  BY DEF Five, Upper2, Lower2
<1>5. ctl \in Bytes8 /\ \hfe \in Bytes8 /\ ctl # \haa
  BY <1>2 DEF Bytes8
<1> HIDE DEF ctl, h, l
<1>6. x \in Bytes8
  BY <1>3, <1>5, XorBits
<1>7. x % 128 \in Bytes8
  BY <1>6, LowBits
<1> DEFINE c == x % 128
<1> HIDE DEF c
<1>8. Five(f, r) = <<\hfe, ctl, h, l, c>>
  BY <1>4 DEF c
<1>9. c \in Bytes8 /\ c = Xor(Xor(ctl, h), l) % 128
  BY <1>7 DEF c
<1> DEFINE b == Five(f, r)
<1>10. /\ Len(b) = 5 /\ b[1] = \hfe /\ b[2] = ctl /\ b[3] = h /\ b[4] = l /\ b[5] = c
  BY <1>8
<1> HIDE DEF b
<1>11. \A j \in 1 .. 5 : b[j] \in Bytes8
  BY <1>3, <1>5, <1>9, <1>10
<1>12. /\ Len(b) = 5 /\ \A j \in 1 .. 5 : b[j] \in Bytes8
       /\ b[1] = \hfe /\ b[2] # \haa
       /\ b[5] = Xor(Xor(b[2], b[3]), b[4]) % 128
       /\ ColourOf(b[2] % 4) = r.colour /\ Channel2004(b[2]) = r.addr
       /\ (Bit(b[2], 5) = 1) = f.auto
       /\ Bcd(b[3], b[4]) = r.total
  BY <1>2, <1>3, <1>5, <1>9, <1>10, <1>11
<1> QED
  BY <1>12 DEF b

-----------------------------------------------------------------------------
(***************************************************************************)
(* A buffer of GA/T 508-2004 as it is sent.                                *)
(***************************************************************************)
\* Place 5 * k + j holds the byte j of the record k + 1; behind is nothing.
LEMMA Sent2004 ==
    ASSUME NEW f, f.auto \in BOOLEAN, f.records \in Seq(Records2004)
    PROVE  LET buf == Bytes2004(f)
               n   == Len(f.records)
           IN /\ buf \in Seq(Bytes8) /\ Len(buf) = 5 * n
              /\ \A k \in 0 .. n - 1, j \in 0 .. 4 :
                    At(buf, 5 * k + j) = Five(f, f.records[k + 1])[j + 1]
              /\ \A i \in Nat : i >= 5 * n => At(buf, i) = 0
              /\ n # 0 => At(buf, 0) = \hfe /\ At(buf, 1) # \haa
<1> DEFINE buf == Bytes2004(f)
           n   == Len(f.records)
<1>1. buf = [i \in 1 .. 5 * n |-> Five(f, f.records[((i - 1) \div 5) + 1])[((i - 1) % 5) + 1]]
  BY DEF Bytes2004, Joined
<1>2. n \in Nat
  OBVIOUS
<1>3. \A k \in 1 .. n : f.records[k] \in Records2004
  OBVIOUS
<1>4. \A k \in 1 .. n, j \in 1 .. 5 : Five(f, f.records[k])[j] \in Bytes8
  <2> SUFFICES ASSUME NEW k \in 1 .. n, NEW j \in 1 .. 5
               PROVE  Five(f, f.records[k])[j] \in Bytes8
    OBVIOUS
  <2>1. f.records[k] \in NationalRecord /\ f.records[k].addr <= 7
    BY <1>3 DEF Records2004
  <2> QED
    BY <2>1, FiveBytes
<1> HIDE DEF buf, n
<1>5. \A i \in 1 .. 5 * n : ((i - 1) \div 5) + 1 \in 1 .. n /\ ((i - 1) % 5) + 1 \in 1 .. 5
  BY <1>2
<1>6. buf \in Seq(Bytes8) /\ Len(buf) = 5 * n
  <2> DEFINE N    == 5 * n
             G(i) == Five(f, f.records[((i - 1) \div 5) + 1])[((i - 1) % 5) + 1]
  <2>1. N \in Nat
    BY <1>2
  <2>2. \A i \in 1 .. N : G(i) \in Bytes8
    BY <1>4, <1>5
  <2>3. buf = [i \in 1 .. N |-> G(i)]
    BY <1>1
  <2> HIDE DEF G, N
  <2>4. buf \in Seq(Bytes8) /\ Len(buf) = N
    BY <2>1, <2>2, <2>3
  <2> QED
    BY <2>4 DEF N
<1>7. ASSUME NEW k \in 0 .. n - 1, NEW j \in 0 .. 4
      PROVE  At(buf, 5 * k + j) = Five(f, f.records[k + 1])[j + 1]
  <2> DEFINE i == 5 * k + j + 1
  <2>1. i \in 1 .. 5 * n /\ (i - 1) \div 5 = k /\ (i - 1) % 5 = j
    BY <1>2
  <2>2. (5 * k + j) + 1 = i
    OBVIOUS
  <2> HIDE DEF i
  <2>3. buf[i] = Five(f, f.records[((i - 1) \div 5) + 1])[((i - 1) % 5) + 1]
    BY <1>1, <2>1
  <2>4. buf[i] = Five(f, f.records[k + 1])[j + 1]
    BY <2>1, <2>3
  <2>5. i \in DOMAIN buf
    BY <1>6, <2>1
  <2> QED
    BY <2>2, <2>4, <2>5 DEF At
<1>8. \A i \in Nat : i >= 5 * n => At(buf, i) = 0
  BY <1>2, <1>6 DEF At
<1>9. ASSUME n # 0
      PROVE  At(buf, 0) = \hfe /\ At(buf, 1) # \haa
  <2> DEFINE r == f.records[1]
             b == Five(f, r)
  <2>1. 0 \in 0 .. n - 1 /\ 1 \in 1 .. n
    BY <1>2, <1>9
  <2>2. r \in NationalRecord /\ r.addr <= 7
    BY <1>3, <2>1 DEF Records2004
  <2>3. At(buf, 5 * 0 + 0) = Five(f, f.records[0 + 1])[0 + 1]
    BY <1>7, <2>1
  <2>4. At(buf, 5 * 0 + 1) = Five(f, f.records[0 + 1])[1 + 1]
    BY <1>7, <2>1
  <2>5. At(buf, 0) = b[1] /\ At(buf, 1) = b[2]
    BY <2>3, <2>4
  <2> HIDE DEF r
  <2>6. b[1] = \hfe /\ b[2] # \haa
    BY <2>2, FiveBytes
  <2> HIDE DEF b
  <2>7. At(buf, 0) = \hfe
    BY <2>5, <2>6
  <2>8. At(buf, 1) # \haa
    BY <2>5, <2>6
  <2> QED
    BY <2>7, <2>8
<1> QED
  BY <1>6, <1>7, <1>8, <1>9 DEF buf, n

\* What the search finds in one record, as it was sent.
Says2004(f, k) ==
    [protocol |-> "GAT2004", colour |-> f.records[k].colour,
     total |-> f.records[k].total, auto |-> f.auto, blink |-> FALSE,
     cmd |-> "none", refresh |-> TRUE]

LEMMA RecordSent2004 ==
    ASSUME NEW f, f.auto \in BOOLEAN, f.records \in Seq(Records2004),
           NEW k \in 0 .. Len(f.records) - 1
    PROVE  LET buf == Bytes2004(f) IN
           /\ Crc2004(buf, 5 * k) = At(buf, 5 * k + 4)
           /\ Channel2004(At(buf, 5 * k + 1)) = f.records[k + 1].addr
           /\ Record2004(buf, 5 * k) = Says2004(f, k + 1)
<1> DEFINE buf == Bytes2004(f)
           n   == Len(f.records)
           mm  == 5 * k
           r   == f.records[k + 1]
           b   == Five(f, r)
<1>1. k \in 0 .. n - 1 /\ k + 1 \in 1 .. n /\ mm \in Nat
  OBVIOUS
<1>2. /\ At(buf, 5 * k + 1) = b[1 + 1] /\ At(buf, 5 * k + 2) = b[2 + 1]
      /\ At(buf, 5 * k + 3) = b[3 + 1] /\ At(buf, 5 * k + 4) = b[4 + 1]
  BY <1>1, Sent2004
<1>3. r \in NationalRecord /\ r.addr <= 7
  BY <1>1 DEF Records2004
<1> HIDE DEF buf, n, r
<1>4. /\ \A j \in 1 .. 5 : b[j] \in Bytes8
      /\ b[5] = Xor(Xor(b[2], b[3]), b[4]) % 128
      /\ ColourOf(b[2] % 4) = r.colour /\ Channel2004(b[2]) = r.addr
      /\ (Bit(b[2], 5) = 1) = f.auto
      /\ Bcd(b[3], b[4]) = r.total
  BY <1>3, FiveBytes
<1> HIDE DEF b
<1>5. /\ At(buf, mm + 1) = b[2] /\ At(buf, mm + 2) = b[3]
      /\ At(buf, mm + 3) = b[4] /\ At(buf, mm + 4) = b[5]
  BY <1>2
<1> HIDE DEF mm
<1>6. XorOf(buf, mm + 1, mm + 3) = Xor(Xor(b[2], b[3]), b[4])
  BY <1>1, <1>4, <1>5, XorOfThree
<1>7. Crc2004(buf, mm) = At(buf, mm + 4)
  BY <1>4, <1>5, <1>6 DEF Crc2004
<1>8. Record2004(buf, mm)
          = [protocol |-> "GAT2004", colour |-> r.colour,
             total |-> r.total, auto |-> f.auto, blink |-> FALSE,
             cmd |-> "none", refresh |-> TRUE]
  BY <1>4, <1>5 DEF Record2004
<1>9. Channel2004(At(buf, mm + 1)) = r.addr
  BY <1>4, <1>5
<1> QED
  BY <1>7, <1>8, <1>9 DEF buf, mm, r, Says2004

\* And behind the last: a dark zero for the channel zero.
LEMMA ZerosBehind2004 ==
    ASSUME NEW f, f.auto \in BOOLEAN, f.records \in Seq(Records2004)
    PROVE  LET buf == Bytes2004(f)
               mm  == 5 * Len(f.records)
           IN /\ Crc2004(buf, mm) = At(buf, mm + 4)
              /\ Channel2004(At(buf, mm + 1)) = 0
              /\ Record2004(buf, mm).colour = "dark"
              /\ Record2004(buf, mm).total = 0
<1> DEFINE buf == Bytes2004(f)
           mm  == 5 * Len(f.records)
<1>1. mm \in Nat /\ \A i \in Nat : i >= mm => At(buf, i) = 0
  BY Sent2004
<1> HIDE DEF buf, mm
<1>2. /\ At(buf, mm + 1) = 0 /\ At(buf, mm + 2) = 0 /\ At(buf, mm + 3) = 0
      /\ At(buf, mm + 4) = 0
  BY <1>1
<1>3. 0 \in Bytes8
  BY DEF Bytes8
<1>4. XorOf(buf, mm + 1, mm + 3) = 0
  BY <1>1, <1>2, <1>3, XorOfThree, XorZero
<1>5. Crc2004(buf, mm) = At(buf, mm + 4)
  BY <1>2, <1>4 DEF Crc2004
<1>6. Channel2004(At(buf, mm + 1)) = 0
  BY <1>2 DEF Channel2004
<1>7. Record2004(buf, mm).colour = "dark"
  BY <1>2 DEF Record2004, ColourOf
<1>8. Record2004(buf, mm).total = 0
  BY <1>2 DEF Record2004, Bcd, High, Low
<1> QED
  BY <1>5, <1>6, <1>7, <1>8 DEF buf, mm

\* Every place that the search looks at is one of these.
LEMMA Places2004 ==
    ASSUME NEW f, f.auto \in BOOLEAN, f.records \in Seq(Records2004), NEW mm
    PROVE  mm \in Searched2004(Bytes2004(f))
               <=> \E k \in 0 .. Len(f.records) : mm = 5 * k
<1> DEFINE n == Len(f.records)
<1>1. Len(Bytes2004(f)) = 5 * n /\ n \in Nat
  BY Sent2004
<1> HIDE DEF n
<1>2. ASSUME NEW m \in 0 .. 5 * n, m % 5 = 0
      PROVE  \E k \in 0 .. n : m = 5 * k
  <2>1. m \div 5 \in 0 .. n /\ m = 5 * (m \div 5)
    BY <1>1, <1>2
  <2> QED
    BY <2>1
<1>3. ASSUME NEW k \in 0 .. n
      PROVE  5 * k \in 0 .. 5 * n /\ (5 * k) % 5 = 0
  BY <1>1
<1> QED
  BY <1>1, <1>2, <1>3 DEF Searched2004, n

LEMMA Searched ==
    ASSUME NEW f, f.auto \in BOOLEAN, f.records \in Seq(Records2004),
           NEW mm \in Searched2004(Bytes2004(f))
    PROVE  LET buf == Bytes2004(f) IN
           /\ Crc2004(buf, mm) = At(buf, mm + 4)
           /\ \/ /\ Record2004(buf, mm).colour = "dark"
                 /\ Record2004(buf, mm).total = 0
              \/ \E k \in 1 .. Len(f.records) :
                    /\ Channel2004(At(buf, mm + 1)) = f.records[k].addr
                    /\ Record2004(buf, mm) = Says2004(f, k)
<1> DEFINE n == Len(f.records)
<1>1. PICK k \in 0 .. n : mm = 5 * k
  BY Places2004
<1>2. n \in Nat
  OBVIOUS
<1>3. CASE k = n
  BY <1>1, <1>3, ZerosBehind2004
<1>4. CASE k # n
  <2>1. k \in 0 .. n - 1 /\ k + 1 \in 1 .. n
    BY <1>2, <1>4
  <2>2. LET buf == Bytes2004(f) IN
        /\ Crc2004(buf, 5 * k) = At(buf, 5 * k + 4)
        /\ Channel2004(At(buf, 5 * k + 1)) = f.records[k + 1].addr
        /\ Record2004(buf, 5 * k) = Says2004(f, k + 1)
    BY <2>1, RecordSent2004
  <2> QED
    BY <1>1, <2>1, <2>2
<1> QED
  BY <1>3, <1>4

-----------------------------------------------------------------------------
(***************************************************************************)
(* A buffer of GA/T 508-2014 as it is sent.                                *)
(***************************************************************************)
LEMMA TwoBytes ==
    ASSUME NEW r \in Records2014
    PROVE  \A j \in 1 .. 2 : Two(r)[j] \in Bytes8
<1>1. /\ r.addr \in 0 .. 31 /\ r.total \in 0 .. 255 /\ r.colour \in Colours
      /\ r.blink \in BOOLEAN
  <2>1. r \in NationalRecord /\ r.total <= 255
    BY DEF Records2014
  <2>2. /\ r.addr \in 0 .. 31 /\ r.total \in FourDigits /\ r.colour \in Colours
        /\ r.blink \in BOOLEAN
    BY <2>1, RecordFields
  <2> DEFINE t == r.total
  <2>3. t \in Nat /\ t <= 255
    BY <2>1, <2>2, FoursAreNumbers
  <2> HIDE DEF t
  <2>4. t \in 0 .. 255
    BY <2>3
  <2> QED
    BY <2>2, <2>4 DEF t
<1>2. Bits(r.colour) \in 0 .. 3
  BY <1>1 DEF Bits, Colours
<1> DEFINE x == IF r.blink THEN 4 ELSE 0
           a == 8 * r.addr + Bits(r.colour) + x
<1>3. x \in 0 .. 4
  OBVIOUS
<1> HIDE DEF x
<1>4. a \in Bytes8
  BY <1>1, <1>2, <1>3 DEF Bytes8
<1>5. Two(r) = <<a, r.total>>
  BY DEF Two, x
<1> HIDE DEF a
<1>6. r.total \in Bytes8
  BY <1>1 DEF Bytes8
<1> QED
  BY <1>4, <1>5, <1>6

\* Buffers that agree from..to have the same exclusive or there.
LEMMA SameXor ==
    ASSUME NEW b1, NEW b2, NEW from \in Int, NEW to \in Int,
           \A i \in from .. to : At(b1, i) = At(b2, i)
    PROVE  XorOf(b1, from, to) = XorOf(b2, from, to)
<1>1. \A k \in 0 .. 7 : Ones(b1, from, to, k) = Ones(b2, from, to, k)
  BY DEF Ones
<1>2. /\ XorOf(b1, from, to) \in Bytes8 /\ XorOf(b2, from, to) \in Bytes8
      /\ \A k \in 0 .. 7 : Bit(XorOf(b1, from, to), k) = Bit(XorOf(b2, from, to), k)
  BY <1>1, XorOfBits
<1> QED
  BY <1>2, SameBits

LEMMA Sent2014 ==
    ASSUME NEW f, f.records \in Seq(Records2014), Len(f.records) <= 255
    PROVE  LET buf == Bytes2014(f)
               n   == Len(f.records)
           IN /\ buf \in Seq(Bytes8) /\ Intact2014(buf)
              /\ At(buf, 0) = \h55 /\ At(buf, 1) = \haa
              /\ Len(buf) = 2 * n + 4 /\ At(buf, 2 * n + 4) = 0
              /\ \A k \in 0 .. n - 1 :
                    /\ At(buf, 2 * k + 3) = Two(f.records[k + 1])[1]
                    /\ At(buf, 2 * k + 4) = Two(f.records[k + 1])[2]
<1> DEFINE n     == Len(f.records)
           N     == 2 * n
           G(i)  == Two(f.records[((i - 1) \div 2) + 1])[((i - 1) % 2) + 1]
           rest  == [i \in 1 .. N |-> G(i)]
           front == <<\h55, \haa, n>> \o rest
           buf   == Bytes2014(f)
<1>1. n \in 0 .. 255 /\ N \in Nat
  <2>1. n \in Nat /\ n <= 255
    OBVIOUS
  <2>2. \A x \in Nat : x <= 255 => x \in 0 .. 255 /\ 2 * x \in Nat
    OBVIOUS
  <2> QED
    BY <2>1, <2>2
<1>2. Joined(f.records, 2, Two) = rest
  BY DEF Joined
<1>3. buf = Append(front, XorOf(front, 2, Len(front) - 1))
  BY <1>2 DEF Bytes2014
<1>4. \A i \in 1 .. N : G(i) \in Bytes8
  <2>1. \A k \in 1 .. n : f.records[k] \in Records2014
    OBVIOUS
  <2>2. \A k \in 1 .. n, j \in 1 .. 2 : Two(f.records[k])[j] \in Bytes8
    BY <2>1, TwoBytes
  <2> HIDE DEF n
  <2>3. \A i \in 1 .. N : ((i - 1) \div 2) + 1 \in 1 .. n /\ ((i - 1) % 2) + 1 \in 1 .. 2
    BY <1>1
  <2> QED
    BY <2>2, <2>3
<1>5. ASSUME NEW k \in 0 .. n - 1
       PROVE  /\ 2 * k + 1 \in 1 .. N /\ 2 * k + 2 \in 1 .. N
              /\ G(2 * k + 1) = Two(f.records[k + 1])[1]
              /\ G(2 * k + 2) = Two(f.records[k + 1])[2]
  <2> HIDE DEF n
  <2>1. /\ 2 * k + 1 \in 1 .. N /\ 2 * k + 2 \in 1 .. N
        /\ ((2 * k + 1) - 1) \div 2 = k /\ ((2 * k + 1) - 1) % 2 = 0
        /\ ((2 * k + 2) - 1) \div 2 = k /\ ((2 * k + 2) - 1) % 2 = 1
    BY <1>1
  <2>2. \A i : /\ (i - 1) \div 2 = k /\ (i - 1) % 2 = 0 =>
                     G(i) = Two(f.records[k + 1])[1]
               /\ (i - 1) \div 2 = k /\ (i - 1) % 2 = 1 =>
                     G(i) = Two(f.records[k + 1])[2]
    OBVIOUS
  <2> HIDE DEF G
  <2>3. G(2 * k + 1) = Two(f.records[k + 1])[1]
    BY <2>1, <2>2
  <2>4. G(2 * k + 2) = Two(f.records[k + 1])[2]
    BY <2>1, <2>2
  <2> QED
    BY <2>1, <2>3, <2>4
<1>6. \A i \in 1 .. N : rest[i] = G(i)
  OBVIOUS
<1> HIDE DEF G
<1>7. rest \in Seq(Bytes8) /\ Len(rest) = N
  BY <1>1, <1>4, SMTT(30)
<1> HIDE DEF rest
<1>8. \h55 \in Bytes8 /\ \haa \in Bytes8 /\ n \in Bytes8
  BY <1>1, SMTT(30) DEF Bytes8
<1> HIDE DEF n
<1>9. /\ front \in Seq(Bytes8) /\ Len(front) = N + 3
      /\ front[1] = \h55 /\ front[2] = \haa /\ front[3] = n
  BY <1>1, <1>7, <1>8
<1>10. \A i \in 1 .. N : front[i + 3] = rest[i]
  BY <1>1, <1>7
<1> HIDE DEF front
<1> DEFINE sum == XorOf(front, 2, N + 2)
<1>11. sum \in Bytes8
  BY <1>1, XorOfBits
<1>12. buf = Append(front, sum)
  BY <1>1, <1>3, <1>9
<1> HIDE DEF sum, buf
<1>13. /\ buf \in Seq(Bytes8) /\ Len(buf) = N + 4
       /\ \A i \in 1 .. N + 3 : buf[i] = front[i]
       /\ buf[N + 4] = sum
  BY <1>1, <1>9, <1>11, <1>12
<1>14. \A i \in 2 .. N + 2 : At(buf, i) = At(front, i)
  BY <1>1, <1>9, <1>13 DEF At
<1>15. At(buf, 0) = \h55 /\ At(buf, 1) = \haa /\ At(buf, 2) = n /\ At(buf, N + 3) = sum
  BY <1>1, <1>9, <1>13 DEF At
<1>16. XorOf(buf, 2, N + 2) = sum
  BY <1>1, <1>14, SameXor DEF sum
<1>17. Len(buf) = 2 * At(buf, 2) + 4 /\ Len(buf) - 2 = N + 2 /\ Len(buf) - 1 = N + 3
  BY <1>1, <1>13, <1>15
<1>18. Intact2014(buf)
  BY <1>15, <1>16, <1>17 DEF Intact2014
<1>19. ASSUME NEW k \in 0 .. n - 1
       PROVE  /\ At(buf, 2 * k + 3) = Two(f.records[k + 1])[1]
              /\ At(buf, 2 * k + 4) = Two(f.records[k + 1])[2]
  <2>1. /\ 2 * k + 1 \in 1 .. N /\ rest[2 * k + 1] = Two(f.records[k + 1])[1]
        /\ 2 * k + 2 \in 1 .. N /\ rest[2 * k + 2] = Two(f.records[k + 1])[2]
    BY <1>5, <1>6
  <2>2. \A i \in 1 .. N : i + 3 \in 1 .. N + 3 /\ i + 3 \in DOMAIN buf
    BY <1>1, <1>13
  <2>3. \A i \in 1 .. N : buf[i + 3] = rest[i]
    BY <1>13, <1>10, <2>2
  <2>4. \A i \in 1 .. N : At(buf, i + 2) = rest[i]
    <3>1. \A i \in 1 .. N : (i + 2) + 1 = i + 3
      OBVIOUS
    <3> QED
      BY <2>2, <2>3, <3>1 DEF At
  <2>5. (2 * k + 1) + 2 = 2 * k + 3 /\ (2 * k + 2) + 2 = 2 * k + 4
    BY <1>1
  <2> QED
    BY <2>1, <2>4, <2>5
<1>20. At(buf, N + 4) = 0
  BY <1>1, <1>13 DEF At
<1> QED
  BY <1>13, <1>15, <1>18, <1>19, <1>20 DEF buf, n

-----------------------------------------------------------------------------
(***************************************************************************)
(* From the line to the display: damage to a national frame.               *)
(***************************************************************************)

\* One sequence, put together, is itself.
LEMMA OneAlone ==
    ASSUME NEW x
    PROVE  FlattenSeq([k \in 1 .. 1 |-> x]) = x
<1> DEFINE s       == [k \in 1 .. 1 |-> x]
           Step(g) == [i \in 1 .. Len(s) |-> IF i = 1 THEN s[i] ELSE g[i - 1] \o s[i]]
           flatten == CHOOSE g : g = Step(g)
<1>1. Len(s) = 1 /\ s[1] = x
  OBVIOUS
<1>2. Step(s) = s
  BY <1>1
<1>3. flatten = Step(flatten)
  <2> HIDE DEF Step
  <2> QED
    BY <1>2
<1>4. flatten[1] = x
  BY <1>1, <1>3
<1>5. FlattenSeq(s) = flatten[Len(s)]
  BY <1>1 DEF FlattenSeq
<1> QED
  BY <1>1, <1>4, <1>5

\* One frame arrives as its bytes, one of them damaged.
LEMMA LineOfOne ==
    ASSUME NEW h \in Handed, Len(h[1]) = 1, Bytes(h[1][1]) \in Seq(Bytes8),
           h[2][1] \in 0 .. Len(Bytes(h[1][1])) - 1
    PROVE  LET buf == Bytes(h[1][1]) IN
           Line[h] = Damaged(buf, h[2][1], Xor(At(buf, h[2][1]), h[2][2]))
<1> DEFINE buf == Bytes(h[1][1])
           all == FlattenSeq([k \in 1 .. Len(h[1]) |-> Bytes(h[1][k])])
<1>1. Line[h] = [all EXCEPT ![h[2][1] + 1] = Xor(@, h[2][2])]
  BY DEF Line
<1>2. all = buf
  <2>1. [k \in 1 .. Len(h[1]) |-> Bytes(h[1][k])] = [k \in 1 .. 1 |-> buf]
    OBVIOUS
  <2> HIDE DEF buf
  <2> QED
    BY <2>1, OneAlone
<1>3. buf[h[2][1] + 1] = At(buf, h[2][1])
  <2> HIDE DEF buf
  <2>1. h[2][1] + 1 \in DOMAIN buf
    BY DEF buf
  <2> QED
    BY <2>1 DEF At
<1> HIDE DEF buf, all
<1>4. Line[h] = [buf EXCEPT ![h[2][1] + 1] = Xor(buf[h[2][1] + 1], h[2][2])]
  BY <1>1, <1>2
<1>5. Line[h] = Damaged(buf, h[2][1], Xor(At(buf, h[2][1]), h[2][2]))
  BY <1>3, <1>4 DEF Damaged
<1> QED
  BY <1>5 DEF buf

\* What arrives of it are bytes, as many as were sent.
LEMMA SomethingArrives ==
    ASSUME NEW h \in Handed, Exposed(h), Len(h[1]) = 1
    PROVE  Line[h] \in Seq(Bytes8) /\ Line[h] # <<>>
<1> DEFINE f     == h[1][1]
           buf   == Bytes(f)
           place == h[2][1]
           added == h[2][2]
           v     == Xor(At(buf, place), added)
<1>1. /\ f.protocol \in {"GAT2004", "GAT2014"} /\ "raw" \notin DOMAIN f
      /\ f.auto \in BOOLEAN /\ f.records \in Seq(NationalRecord)
      /\ place \in 0 .. Len(buf) - 1 /\ added \in 1 .. 255
  BY DEF Exposed
<1>2. buf \in Seq(Bytes8)
  <2>1. CASE f.protocol = "GAT2004"
    <3>1. \A k \in 1 .. Len(f.records) : f.records[k] \in Records2004
      BY <1>1, <2>1 DEF Exposed, Records2004
    <3>2. f.records \in Seq(Records2004)
      BY <1>1, <3>1, Narrowed
    <3>3. buf = Bytes2004(f)
      BY <1>1, <2>1 DEF Bytes
    <3> HIDE DEF f
    <3> QED
      BY <1>1, <3>2, <3>3, Sent2004
  <2>2. CASE f.protocol = "GAT2014"
    <3>1. \A k \in 1 .. Len(f.records) : f.records[k] \in Records2014
      BY <1>1, <2>2 DEF Exposed, Records2014
    <3>2. f.records \in Seq(Records2014) /\ Len(f.records) <= 255
      <4>1. f.records \in Seq(Records2014)
        BY <1>1, <3>1, Narrowed
      <4> QED
        BY <2>2, <4>1 DEF Exposed
    <3>3. buf = Bytes2014(f)
      BY <1>1, <2>2 DEF Bytes
    <3> HIDE DEF f
    <3> QED
      BY <3>2, <3>3, Sent2014
  <2> QED
    BY <1>1, <2>1, <2>2
<1>3. Line[h] = Damaged(buf, place, v)
  BY <1>1, <1>2, LineOfOne
<1> HIDE DEF buf, place, added
<1>4. At(buf, place) \in Bytes8
  <2>1. 0 \in Bytes8
    BY DEF Bytes8
  <2> QED
    BY <1>1, <1>2, <2>1, DamagedBytes
<1>5. v \in Bytes8
  BY <1>1, <1>4, XorChanges
<1> HIDE DEF v
<1>6. /\ Damaged(buf, place, v) \in Seq(Bytes8)
      /\ Len(Damaged(buf, place, v)) = Len(buf) /\ Len(buf) # 0
  BY <1>1, <1>2, <1>5, DamagedBytes
<1> QED
  BY <1>3, <1>6

\* What is posted of a frame of 2014 with a damaged byte: nothing.
LEMMA Harmless2014 ==
    ASSUME NEW h \in Handed, Exposed(h), Len(h[1]) = 1,
           h[1][1].protocol = "GAT2014", config_init.protocol # 1
    PROVE  Parsed(Line[h]) = <<>>
<1> DEFINE f     == h[1][1]
           buf   == Bytes(f)
           place == h[2][1]
           added == h[2][2]
           v     == Xor(At(buf, place), added)
<1>1. /\ "raw" \notin DOMAIN f /\ f.records \in Seq(NationalRecord)
      /\ place \in 0 .. Len(buf) - 1 /\ added \in 1 .. 255
      /\ \A k \in DOMAIN f.records : f.records[k].total <= 255
      /\ Len(f.records) <= 255
      /\ place = 0 => Xor(\h55, added) # \hfe
  BY DEF Exposed
<1>2. buf = Bytes2014(f)
  BY <1>1 DEF Bytes
<1>3. f.records \in Seq(Records2014)
  <2>1. \A k \in 1 .. Len(f.records) : f.records[k] \in Records2014
    BY <1>1 DEF Records2014
  <2> QED
    BY <1>1, <2>1, Narrowed
<1>4. /\ buf \in Seq(Bytes8) /\ Intact2014(buf)
      /\ At(buf, 0) = \h55 /\ At(buf, 1) = \haa
  BY <1>1, <1>2, <1>3, Sent2014
<1>5. Line[h] = Damaged(buf, place, v)
  BY <1>1, <1>4, LineOfOne
<1> HIDE DEF buf, place, added
<1>6. \h55 \in Bytes8
  BY DEF Bytes8
<1>7. At(buf, place) \in Bytes8
  BY <1>1, <1>4, <1>6, DamagedBytes
<1>8. v \in Bytes8 /\ v # At(buf, place)
  BY <1>1, <1>7, XorChanges
<1>9. place = 0 => v # \hfe
  BY <1>1, <1>4
<1> HIDE DEF v
<1>10. Parsed(Damaged(buf, place, v)) = <<>>
  BY <1>1, <1>4, <1>8, <1>9, Damaged2014Refused
<1> QED
  BY <1>5, <1>10

\* What an undamaged record of the channel of this sign says is what the frame
\* meant, if no sign is named twice.
LEMMA MeantByRecord ==
    ASSUME NEW f, f.protocol = "GAT2004", f.cmd = "none", f.refresh = TRUE,
           \A j, k \in DOMAIN f.records :
              j # k => f.records[j].addr # f.records[k].addr,
           NEW k \in DOMAIN f.records, DOMAIN f.records \in SUBSET Nat,
           f.records[k].blink = FALSE,
           f.records[k].addr = config_init.countdown_channel,
           Comm, config_init.protocol = 0
    PROVE  /\ Addressed(f)
           /\ Meant(f) = Says2004(f, k)
<1>1. Addresses(f) = {config_init.countdown_channel} /\ Speaks(f)
  BY DEF Addresses, Speaks
<1>2. ForMe(f) = {k}
  BY <1>1 DEF ForMe
<1>3. Min({k}) = k
  <2>1. {k} \in SUBSET Nat /\ {k} # {}
    OBVIOUS
  <2> QED
    BY <2>1, MinIsLeast
<1>4. Addressed(f)
  BY <1>1, <1>2 DEF Addressed
<1>5. Min(ForMe(f)) = k
  BY <1>2, <1>3
<1>6. Meant(f) = [protocol |-> f.protocol, colour |-> f.records[k].colour,
                  total |-> f.records[k].total, auto |-> f.auto,
                  blink |-> f.records[k].blink, cmd |-> f.cmd, refresh |-> f.refresh]
  BY <1>5, Zenon DEF Meant
<1> QED
  BY <1>4, <1>6 DEF Says2004

\* What is read from the zeros behind a frame of 2004.
DarkZero(r) == r.colour = "dark" /\ r.total = 0

\* Of a frame of 2004 with a damaged byte: nothing, what was meant, or, from
\* the zeros behind it, a dark zero.
LEMMA DamagedFrame2004 ==
    ASSUME NEW f, f.protocol = "GAT2004", f.cmd = "none", f.refresh = TRUE,
           f.auto \in BOOLEAN, f.records \in Seq(Records2004),
           \A j, k \in DOMAIN f.records :
              j # k => f.records[j].addr # f.records[k].addr,
           NEW i \in 0 .. Len(Bytes2004(f)) - 1, NEW v \in Bytes8,
           v % 128 # At(Bytes2004(f), i) % 128, config_init.protocol = 0
    PROVE  LET posted == Parsed(Damaged(Bytes2004(f), i, v)) IN
           \/ posted = <<>>
           \/ \E r : /\ posted = <<r>>
                     /\ DarkZero(r) \/ (Addressed(f) /\ r = Meant(f))
<1> DEFINE buf     == Bytes2004(f)
           d       == Damaged(buf, i, v)
           channel == config_init.countdown_channel
<1>1. /\ buf \in Seq(Bytes8) /\ Len(buf) = 5 * Len(f.records)
      /\ Len(f.records) # 0 => At(buf, 0) = \hfe /\ At(buf, 1) # \haa
  BY Sent2004
<1>2. Len(f.records) # 0
  <2>1. 5 * Len(f.records) - 1 >= 0
    BY <1>1
  <2> QED
    BY <2>1
<1>3. \A mm \in Searched2004(buf) :
         /\ Crc2004(buf, mm) = At(buf, mm + 4)
         /\ \/ DarkZero(Record2004(buf, mm))
            \/ \E k \in 1 .. Len(f.records) :
                  /\ Channel2004(At(buf, mm + 1)) = f.records[k].addr
                  /\ Record2004(buf, mm) = Says2004(f, k)
  BY Searched DEF DarkZero
<1>4. config_init.protocol # 1
  OBVIOUS
<1> HIDE DEF buf
<1>5. \/ Parsed(d) = <<>>
      \/ \E mm \in Searched2004(buf) :
            /\ Channel2004(At(buf, mm + 1)) = channel
            /\ Parsed(d) = <<Record2004(buf, mm)>>
  <2>1. i \in 0 .. Len(buf) - 1 /\ v % 128 # At(buf, i) % 128
    BY DEF buf
  <2>2. \A mm \in Searched2004(buf) : Crc2004(buf, mm) = At(buf, mm + 4)
    BY <1>3
  <2> QED
    BY <1>1, <1>2, <1>4, <2>1, <2>2, Damaged2004Refused
<1> HIDE DEF d
<1>6. SUFFICES ASSUME Parsed(d) # <<>>
               PROVE  \E r : /\ Parsed(d) = <<r>>
                             /\ DarkZero(r) \/ (Addressed(f) /\ r = Meant(f))
  BY DEF d, buf
<1>7. PICK mm \in Searched2004(buf) :
         /\ Channel2004(At(buf, mm + 1)) = channel
         /\ Parsed(d) = <<Record2004(buf, mm)>>
  BY <1>5, <1>6
<1>8. CASE DarkZero(Record2004(buf, mm))
  BY <1>7, <1>8
<1>9. CASE ~DarkZero(Record2004(buf, mm))
  <2>1. PICK k \in 1 .. Len(f.records) :
           /\ Channel2004(At(buf, mm + 1)) = f.records[k].addr
           /\ Record2004(buf, mm) = Says2004(f, k)
    BY <1>3, <1>9
  <2>2. Comm
    BY <1>6 DEF Parsed
  <2>3. k \in DOMAIN f.records /\ DOMAIN f.records \in SUBSET Nat
    OBVIOUS
  <2>4. f.records[k].blink = FALSE
    BY <2>1 DEF Records2004
  <2>5. f.records[k].addr = channel
    BY <1>7, <2>1
  <2>6. Addressed(f) /\ Meant(f) = Says2004(f, k)
    BY <2>2, <2>3, <2>4, <2>5, MeantByRecord
  <2> QED
    BY <1>7, <2>1, <2>6
<1> QED
  BY <1>8, <1>9

LEMMA Harmless2004 ==
    ASSUME NEW h \in Handed, Exposed(h), Len(h[1]) = 1,
           h[1][1].protocol = "GAT2004", config_init.protocol = 0
    PROVE  LET posted == Parsed(Line[h]) IN
           \/ posted = <<>>
           \/ \E r : /\ posted = <<r>>
                     /\ \/ DarkZero(r)
                        \/ Addressed(h[1][1]) /\ r = Meant(h[1][1])
<1> DEFINE f     == h[1][1]
           buf   == Bytes2004(f)
           place == h[2][1]
           added == h[2][2]
           v     == Xor(At(buf, place), added)
<1>1. /\ "raw" \notin DOMAIN f /\ f.records \in Seq(NationalRecord)
      /\ f.auto \in BOOLEAN /\ f.cmd = "none" /\ f.refresh = TRUE
      /\ \A j, k \in DOMAIN f.records :
            j # k => f.records[j].addr # f.records[k].addr
      /\ place \in 0 .. Len(Bytes(f)) - 1 /\ added \in 1 .. 255 /\ added # 128
      /\ \A k \in DOMAIN f.records :
            f.records[k].addr <= 7 /\ f.records[k].blink = FALSE
  BY DEF Exposed
<1>2. Bytes(f) = buf
  BY <1>1 DEF Bytes
<1>3. f.records \in Seq(Records2004)
  <2>1. \A k \in 1 .. Len(f.records) : f.records[k] \in Records2004
    BY <1>1 DEF Records2004
  <2> QED
    BY <1>1, <2>1, Narrowed
<1>4. f.protocol = "GAT2004"
  OBVIOUS
<1> HIDE DEF f
<1>5. buf \in Seq(Bytes8)
  BY <1>1, <1>3, Sent2004
<1>6. Line[h] = Damaged(buf, place, v)
  BY <1>1, <1>2, <1>5, LineOfOne DEF f
<1> HIDE DEF place, added
<1>7. place \in 0 .. Len(buf) - 1
  BY <1>1, <1>2
<1>8. At(buf, place) \in Bytes8
  <2> HIDE DEF buf
  <2>1. 0 \in Bytes8
    BY DEF Bytes8
  <2> QED
    BY <1>5, <1>7, <2>1, DamagedBytes
<1>9. v \in Bytes8 /\ v % 128 # At(buf, place) % 128
  BY <1>1, <1>8, XorChanges, SMTT(30)
<1> HIDE DEF v
<1>10. LET posted == Parsed(Damaged(buf, place, v)) IN
       \/ posted = <<>>
       \/ \E r : /\ posted = <<r>>
                 /\ DarkZero(r) \/ (Addressed(f) /\ r = Meant(f))
  BY <1>1, <1>3, <1>4, <1>7, <1>9, DamagedFrame2004
<1> HIDE DEF buf
<1> QED
  BY <1>6, <1>10 DEF f

\* A sign of the other protocol sees no head of a frame.
LEMMA NoHead ==
    ASSUME NEW buf, Heads(buf) = {}, config_init.protocol = 1
    PROVE  Parsed(buf) = <<>>
<1>1. ge_lin_wei_parse(buf, config_init) = <<>>
  <2> DEFINE Posted(i) == parse(FrameAt(buf, i), config_init)
             mine      == {i \in Heads(buf) : Posted(i) # <<>>}
             Nth(k)    == CHOOSE i \in mine : Cardinality(mine \cap 0 .. i) = k
  <2>1. mine = {}
    OBVIOUS
  <2>2. Cardinality(mine) = 0
    BY <2>1, FS_EmptySet
  <2>3. ge_lin_wei_parse(buf, config_init)
            = [k \in 1 .. Cardinality(mine) |-> Posted(Nth(k))[1]]
    BY DEF ge_lin_wei_parse
  <2> HIDE DEF mine, Posted, Nth
  <2>4. [k \in 1 .. 0 |-> Posted(Nth(k))[1]] = <<>>
    OBVIOUS
  <2> QED
    BY <2>2, <2>3, <2>4
<1> QED
  BY <1>1 DEF Parsed

\* The three together.
LEMMA Harmless ==
    ASSUME NEW h \in Handed, Exposed(h), Len(h[1]) = 1,
           config_init.protocol \in {0, 1}
    PROVE  \A k \in 1 .. Len(Parsed(Line[h])) :
              \/ DarkZero(Parsed(Line[h])[k])
              \/ Addressed(h[1][1]) /\ Parsed(Line[h])[k] = Meant(h[1][1])
<1> DEFINE posted == Parsed(Line[h])
<1>1. h[1][1].protocol \in {"GAT2004", "GAT2014"} /\ Heads(Line[h]) = {}
  BY DEF Exposed
<1>2. \/ posted = <<>>
      \/ \E r : /\ posted = <<r>>
                /\ DarkZero(r) \/ (Addressed(h[1][1]) /\ r = Meant(h[1][1]))
  BY <1>1, Harmless2004, Harmless2014, NoHead
<1> HIDE DEF posted
<1>3. CASE posted = <<>>
  BY <1>3 DEF posted
<1>4. ASSUME NEW r, posted = <<r>>,
             DarkZero(r) \/ (Addressed(h[1][1]) /\ r = Meant(h[1][1]))
      PROVE  \A k \in 1 .. Len(posted) :
                \/ DarkZero(posted[k])
                \/ Addressed(h[1][1]) /\ posted[k] = Meant(h[1][1])
  <2>1. Len(posted) = 1 /\ posted[1] = r
    BY <1>4
  <2>2. \A k \in 1 .. 1 : k = 1
    OBVIOUS
  <2> QED
    BY <1>4, <2>1, <2>2
<1>5. CASE posted # <<>>
  BY <1>2, <1>4, <1>5 DEF posted
<1> QED
  BY <1>3, <1>5

\* What is on the line, or has just been parsed, was handed over; the settings
\* are those it was parsed with.
WireInv ==
    sent # <<>> =>
        /\ dial = "done"
        /\ \E h \in Handed :
              /\ sent = h[1]
              /\ intact <=> h[2][2] = 0
              /\ \/ rx_buffer = Line[h]
                 \/ rx_buffer = <<>> /\ posts = Parsed(Line[h])

LEMMA WireStep == WireInv /\ [ProtoNext]_protoVars => WireInv'
<1> SUFFICES ASSUME WireInv, [ProtoNext]_protoVars PROVE WireInv'
  OBVIOUS
<1>1. CASE DialStep
  BY <1>1 DEF DialStep, WireInv, wire
<1>2. CASE Arrive
  <2>1. PICK h \in Handed :
           rx_buffer' = Line[h] /\ sent' = h[1] /\ intact' = (h[2][2] = 0)
    BY <1>2 DEF Arrive
  <2>2. intact' <=> h[2][2] = 0
    BY <2>1, Zenon
  <2>3. dial' = "done"
    BY <1>2 DEF Arrive, dialVars
  <2> QED
    BY <2>1, <2>2, <2>3 DEF WireInv
<1>3. CASE subpackage
  <2>1. /\ dial' = "done" /\ config_init' = config_init /\ rx_buffer # <<>>
        /\ posts' = Parsed(rx_buffer) /\ rx_buffer' = <<>>
        /\ sent' = sent /\ intact' = intact
    BY <1>3 DEF subpackage, dialVars
  <2>2. SUFFICES ASSUME sent # <<>> PROVE WireInv'
    BY <2>1 DEF WireInv
  <2>3. PICK h \in Handed :
           sent = h[1] /\ (intact <=> h[2][2] = 0) /\ rx_buffer = Line[h]
    BY <2>1, <2>2 DEF WireInv
  <2>4. posts' = Parsed(Line[h])'
    BY <2>1, <2>3 DEF Parsed, Comm
  <2> QED
    BY <2>1, <2>3, <2>4 DEF WireInv
<1>4. CASE Done
  BY <1>4 DEF Done, WireInv
<1>5. CASE UNCHANGED protoVars
  BY <1>5 DEF protoVars, dialVars, wire, WireInv, Parsed, Comm
<1> QED
  BY <1>1, <1>2, <1>3, <1>4, <1>5 DEF ProtoNext

\* The settings of a sign that is not being read name one of two protocols.
LEMMA TwoProtocols ==
    ASSUME DialObeyed, dial = "done", Comm
    PROVE  config_init.protocol \in {0, 1}
<1>1. config_init.protocol = Digit(accepted, 1)
  BY DEF DialObeyed, Comm
<1> QED
  BY <1>1 DEF Digit

LEMMA DamageShown == WireInv /\ DialObeyed => DamageHarmless
<1> SUFFICES ASSUME WireInv, DialObeyed, Parsing, ~intact, Len(sent) = 1,
                    sent[1].protocol # "GeLinWei",
                    NEW k \in 1 .. Len(posts)
             PROVE  \/ posts[k].colour = "dark"
                    \/ numbers[k] = 0
                    \/ Addressed(sent[1]) /\ posts[k] = Meant(sent[1])
  BY DEF DamageHarmless
<1>1. PICK h \in Handed :
         /\ sent = h[1] /\ h[2][2] # 0 /\ dial = "done"
         /\ \/ rx_buffer = Line[h]
            \/ rx_buffer = <<>> /\ posts = Parsed(Line[h])
  BY DEF WireInv, Parsing
<1>2. Exposed(h)
  BY <1>1, HandedAssumption
<1>3. posts = Parsed(Line[h])
  <2>1. Line[h] # <<>>
    BY <1>1, <1>2, SomethingArrives
  <2> QED
    BY <1>1, <2>1 DEF Parsing
<1>4. Comm
  <2>1. posts # <<>>
    OBVIOUS
  <2> QED
    BY <1>3, <2>1 DEF Parsed
<1>5. config_init.protocol \in {0, 1}
  BY <1>1, <1>4, TwoProtocols
<1>6. \A j \in 1 .. Len(Parsed(Line[h])) :
         \/ Parsed(Line[h])[j].colour = "dark"
         \/ Addressed(h[1][1]) /\ Parsed(Line[h])[j] = Meant(h[1][1])
  BY <1>1, <1>2, <1>5, Harmless DEF DarkZero
<1> QED
  BY <1>1, <1>3, <1>6

\* A national frame in which a byte has been damaged never shows a wrong
\* number, however many records it has, whatever they say, wherever the damage
\* is and whatever sign it reaches: nothing is posted, a dark face, or what the
\* frame meant (GAT_508_2004.c:11-37, GAT_508_2014.c:10-38, subpackage).
THEOREM DamageIsHarmless == ProtoSpec => []DamageHarmless
<1>1. ProtoInit => WireInv
  BY DEF ProtoInit, WireInv
<1>2. WireInv /\ [ProtoNext]_protoVars => WireInv'
  BY WireStep
<1>3. ProtoSpec => []WireInv
  BY <1>1, <1>2, PTL DEF ProtoSpec
<1> QED
  BY <1>3, SettingsAreSwitches, DamageShown, PTL

-----------------------------------------------------------------------------
(***************************************************************************)
(* From the line to the display: a whole frame of any number of records.   *)
(* The parsers' copies of 128 bytes, which the model leaves out, hold 25   *)
(* records of GA/T 508-2004, 62 of 2014 and 28 of GeLinWei.                *)
(***************************************************************************)
LEMMA LeastIs ==
    ASSUME NEW S \in SUBSET Nat, NEW m \in S, \A k \in S : m <= k
    PROVE  Min(S) = m
<1>1. Min(S) \in S /\ Min(S) <= m
  BY MinIsLeast
<1>2. \A a, b \in Nat : a <= b /\ b <= a => a = b
  OBVIOUS
<1> QED
  BY <1>1, <1>2

\* The first record for this sign.
LEMMA FirstForMe ==
    ASSUME NEW f, NEW S, f.records \in Seq(S), f.protocol # "GeLinWei",
           ForMe(f) # {}
    PROVE  LET m == Min(ForMe(f)) IN
           /\ m \in 1 .. Len(f.records)
           /\ f.records[m].addr = config_init.countdown_channel
           /\ \A k \in 1 .. Len(f.records) :
                 f.records[k].addr = config_init.countdown_channel => m <= k
<1>1. \A k : k \in ForMe(f) <=> /\ k \in 1 .. Len(f.records)
                                /\ f.records[k].addr = config_init.countdown_channel
  BY DEF ForMe, Addresses
<1>2. ForMe(f) \in SUBSET Nat
  BY <1>1
<1>3. Min(ForMe(f)) \in ForMe(f) /\ \A k \in ForMe(f) : Min(ForMe(f)) <= k
  BY <1>2, MinIsLeast
<1> QED
  BY <1>1, <1>3

\* A frame of GA/T 508-2004 with any number of records shows what its first
\* record for the channel of the sign says, and only that; a frame without one
\* shows at most the dark face of the zeros behind it (GAT_508_2004.c:11-37).
THEOREM AsSent2004 ==
    ASSUME NEW f, f.protocol = "GAT2004", f.cmd = "none", f.refresh = TRUE,
           f.auto \in BOOLEAN, f.records \in Seq(Records2004),
           config_init.protocol = 0, Comm
    PROVE  LET posted == Parsed(Bytes2004(f)) IN
           IF Addressed(f) THEN posted = <<Meant(f)>>
           ELSE posted = <<>> \/ \E r : /\ posted = <<r>>
                                        /\ r.colour = "dark" /\ r.total = 0
<1> DEFINE buf     == Bytes2004(f)
           n       == Len(f.records)
           channel == config_init.countdown_channel
           mine    == {mm \in Searched2004(buf) : Channel2004(At(buf, mm + 1)) = channel}
<1>1. /\ buf \in Seq(Bytes8) /\ Len(buf) = 5 * n /\ n \in Nat
      /\ n # 0 => At(buf, 0) = \hfe /\ At(buf, 1) # \haa
      /\ n = 0 => At(buf, 0) = 0
  BY Sent2004
<1>2. Addressed(f) <=> ForMe(f) # {}
  BY DEF Addressed, Speaks
<1>3. Parsed(buf) = IF At(buf, 0) = \hfe THEN gat_2004_parse(buf, channel) ELSE <<>>
  <2> HIDE DEF buf
  <2> QED
    BY <1>1 DEF Parsed
<1>4. gat_2004_parse(buf, channel)
          = IF mine # {} /\ Crc2004(buf, Min(mine)) = At(buf, Min(mine) + 4)
            THEN <<Record2004(buf, Min(mine))>> ELSE <<>>
  BY DEF gat_2004_parse
<1>5. \A mm : mm \in mine => \E k \in 0 .. n :
         /\ mm = 5 * k
         /\ k < n => k + 1 \in 1 .. n /\ f.records[k + 1].addr = channel
  <2> SUFFICES ASSUME NEW mm \in mine
               PROVE  \E k \in 0 .. n :
                         /\ mm = 5 * k
                         /\ k < n => k + 1 \in 1 .. n /\ f.records[k + 1].addr = channel
    OBVIOUS
  <2>1. PICK k \in 0 .. n : mm = 5 * k
    BY Places2004
  <2>2. ASSUME k < n PROVE k + 1 \in 1 .. n /\ f.records[k + 1].addr = channel
    <3>1. k \in 0 .. n - 1 /\ k + 1 \in 1 .. n
      BY <1>1, <2>2
    <3>2. Channel2004(At(buf, 5 * k + 1)) = f.records[k + 1].addr
      BY <3>1, RecordSent2004
    <3> QED
      BY <2>1, <3>1, <3>2
  <2> QED
    BY <2>1, <2>2
<1>6. CASE Addressed(f)
  <2> DEFINE m == Min(ForMe(f))
  <2>1. /\ m \in 1 .. n /\ f.records[m].addr = channel
        /\ \A k \in 1 .. n : f.records[k].addr = channel => m <= k
    BY <1>2, <1>6, FirstForMe
  <2>2. Meant(f) = Says2004(f, m)
    <3>1. f.records[m].blink = FALSE
      BY <2>1 DEF Records2004
    <3>2. Meant(f) = [protocol |-> f.protocol, colour |-> f.records[m].colour,
                      total |-> f.records[m].total, auto |-> f.auto,
                      blink |-> f.records[m].blink, cmd |-> f.cmd,
                      refresh |-> f.refresh]
      BY DEF Meant
    <3> HIDE DEF m
    <3> QED
      BY <3>1, <3>2 DEF Says2004
  <2> HIDE DEF m
  <2>3. PICK q \in 0 .. n - 1 : m = q + 1
    <3>1. m - 1 \in 0 .. n - 1 /\ m = (m - 1) + 1
      BY <1>1, <2>1
    <3> QED
      BY <3>1
  <2>4. /\ Crc2004(buf, 5 * q) = At(buf, 5 * q + 4)
        /\ Channel2004(At(buf, 5 * q + 1)) = channel
        /\ Record2004(buf, 5 * q) = Says2004(f, m)
    BY <2>1, <2>3, RecordSent2004
  <2>5. 5 * q \in mine
    <3>1. q \in 0 .. n
      BY <1>1
    <3>2. 5 * q \in Searched2004(buf)
      BY <3>1, Places2004
    <3> QED
      BY <2>4, <3>2
  <2>6. \A mm \in mine : mm \in Nat /\ 5 * q <= mm
    <3> SUFFICES ASSUME NEW mm \in mine PROVE mm \in Nat /\ 5 * q <= mm
      OBVIOUS
    <3>1. PICK k \in 0 .. n :
             /\ mm = 5 * k
             /\ k < n => k + 1 \in 1 .. n /\ f.records[k + 1].addr = channel
      BY <1>5
    <3>2. CASE k < n
      <4>1. q + 1 <= k + 1
        BY <2>1, <2>3, <3>1, <3>2
      <4> QED
        BY <1>1, <3>1, <4>1
    <3>3. CASE ~(k < n)
      BY <1>1, <3>1, <3>3
    <3> QED
      BY <3>2, <3>3
  <2> HIDE DEF mine, buf
  <2>7. Min(mine) = 5 * q
    <3>1. mine \in SUBSET Nat
      BY <2>6
    <3> QED
      BY <2>5, <2>6, <3>1, LeastIs
  <2>8. gat_2004_parse(buf, channel) = <<Meant(f)>>
    BY <1>4, <2>2, <2>4, <2>5, <2>7
  <2>9. n # 0
    BY <1>1, <2>1
  <2> QED
    BY <1>1, <1>3, <1>6, <2>8, <2>9 DEF buf
<1>7. CASE ~Addressed(f)
  <2>1. \A k \in 1 .. n : f.records[k].addr # channel
    BY <1>2, <1>7 DEF ForMe, Addresses
  <2>2. mine \in SUBSET {5 * n}
    <3> SUFFICES ASSUME NEW mm \in mine PROVE mm = 5 * n
      OBVIOUS
    <3>1. PICK k \in 0 .. n :
             /\ mm = 5 * k
             /\ k < n => k + 1 \in 1 .. n /\ f.records[k + 1].addr = channel
      BY <1>5
    <3>2. ~(k < n)
      BY <2>1, <3>1
    <3>3. k = n
      BY <1>1, <3>2
    <3> QED
      BY <3>1, <3>3
  <2>3. Record2004(buf, 5 * n).colour = "dark" /\ Record2004(buf, 5 * n).total = 0
    BY ZerosBehind2004
  <2> HIDE DEF mine, buf, n
  <2>4. mine # {} => Min(mine) = 5 * n
    <3>1. 5 * n \in Nat
      BY <1>1
    <3>2. mine \in SUBSET Nat
      BY <2>2, <3>1
    <3> QED
      BY <2>2, <3>2, MinIsLeast
  <2>5. Parsed(buf) = <<>> \/ Parsed(buf) = <<Record2004(buf, 5 * n)>>
    BY <1>3, <1>4, <2>4
  <2> QED
    BY <1>7, <2>3, <2>5 DEF buf
<1> QED
  BY <1>6, <1>7

\* The attribute of 2014, and its fields again.
LEMMA AttributeByte ==
    ASSUME NEW r \in Records2014
    PROVE  LET b == Two(r)[1] IN
           /\ ColourOf(b % 4) = r.colour /\ b \div 8 = r.addr
           /\ (Bit(b, 2) = 1) = r.blink
           /\ Two(r)[2] = r.total
<1>1. r.addr \in 0 .. 31 /\ r.colour \in Colours /\ r.blink \in BOOLEAN
  BY DEF Records2014, NationalRecord
<1>2. Bits(r.colour) \in 0 .. 3 /\ ColourOf(Bits(r.colour)) = r.colour
  BY <1>1 DEF Bits, ColourOf, Colours
<1>3. \A c \in 0 .. 3, a \in 0 .. 31, x \in {0, 4} :
         /\ (8 * a + c + x) % 4 = c /\ (8 * a + c + x) \div 8 = a
         /\ ((8 * a + c + x) \div 4) % 2 = 1 <=> x = 4
  OBVIOUS
<1> DEFINE x == IF r.blink THEN 4 ELSE 0
           c == Bits(r.colour)
           b == 8 * r.addr + c + x
<1>4. x \in {0, 4} /\ (x = 4 <=> r.blink)
  OBVIOUS
<1>5. Two(r) = <<b, r.total>>
  BY DEF Two
<1> HIDE DEF x, c
<1>6. b % 4 = c /\ b \div 8 = r.addr /\ ((b \div 4) % 2 = 1 <=> r.blink)
  BY <1>1, <1>2, <1>3, <1>4 DEF c
<1> HIDE DEF b
<1>7. Bit(b, 2) = (b \div 4) % 2
  BY DEF Bit, Weight
<1>8. /\ ColourOf(b % 4) = r.colour /\ b \div 8 = r.addr
      /\ (Bit(b, 2) = 1) = r.blink
  BY <1>1, <1>2, <1>6, <1>7 DEF c
<1> QED
  BY <1>5, <1>8

\* The same of GA/T 508-2014; the search takes the checksum for one attribute
\* more, with a number of zero (GAT_508_2014.c:10-38).
THEOREM AsSent2014 ==
    ASSUME NEW f, f.protocol = "GAT2014", f.cmd = "none", f.refresh = TRUE,
           f.auto = FALSE, f.records \in Seq(Records2014), Len(f.records) <= 255,
           config_init.protocol = 0, Comm
    PROVE  LET posted == Parsed(Bytes2014(f)) IN
           IF Addressed(f) THEN posted = <<Meant(f)>>
           ELSE posted = <<>> \/ \E r : posted = <<r>> /\ r.total = 0
<1> DEFINE buf     == Bytes2014(f)
           n       == Len(f.records)
           channel == config_init.countdown_channel
           mine    == {mm \in 0 .. Len(buf) - 4 :
                          mm % 2 = 0 /\ At(buf, mm + 3) \div 8 = channel}
<1>1. /\ Intact2014(buf) /\ n \in Nat
      /\ At(buf, 0) = \h55 /\ At(buf, 1) = \haa
      /\ Len(buf) = 2 * n + 4 /\ At(buf, 2 * n + 4) = 0
      /\ \A k \in 0 .. n - 1 :
            /\ At(buf, 2 * k + 3) = Two(f.records[k + 1])[1]
            /\ At(buf, 2 * k + 4) = Two(f.records[k + 1])[2]
  BY Sent2014
<1>2. Addressed(f) <=> ForMe(f) # {}
  BY DEF Addressed, Speaks
<1>3. Parsed(buf) = gat_2014_parse(buf, channel)
  <2> HIDE DEF buf
  <2> QED
    BY <1>1 DEF Parsed
<1>4. gat_2014_parse(buf, channel)
          = IF mine # {} THEN <<Record2014(buf, Min(mine))>> ELSE <<>>
  BY <1>1 DEF gat_2014_parse
<1>5. \A k \in 1 .. n : f.records[k] \in Records2014
  OBVIOUS
<1> HIDE DEF buf, n
<1>6. \A mm : mm \in mine => mm \in Nat /\ \E k \in 0 .. n :
         /\ mm = 2 * k
         /\ k < n => k + 1 \in 1 .. n /\ f.records[k + 1].addr = channel
  <2> SUFFICES ASSUME NEW mm \in mine
               PROVE  mm \in Nat /\ \E k \in 0 .. n :
                         /\ mm = 2 * k
                         /\ k < n => k + 1 \in 1 .. n /\ f.records[k + 1].addr = channel
    OBVIOUS
  <2>1. mm \in 0 .. 2 * n /\ mm % 2 = 0 /\ At(buf, mm + 3) \div 8 = channel
    BY <1>1
  <2>2. PICK k \in 0 .. n : mm = 2 * k
    <3>1. mm \div 2 \in 0 .. n /\ mm = 2 * (mm \div 2)
      BY <1>1, <2>1
    <3> QED
      BY <3>1
  <2>3. ASSUME k < n PROVE k + 1 \in 1 .. n /\ f.records[k + 1].addr = channel
    <3>1. k \in 0 .. n - 1 /\ k + 1 \in 1 .. n
      BY <1>1, <2>3
    <3>2. Two(f.records[k + 1])[1] \div 8 = f.records[k + 1].addr
      BY <1>5, <3>1, AttributeByte
    <3> QED
      BY <1>1, <2>1, <2>2, <3>1, <3>2
  <2> QED
    BY <2>1, <2>2, <2>3
<1>7. CASE Addressed(f)
  <2> DEFINE m == Min(ForMe(f))
  <2>1. /\ m \in 1 .. n /\ f.records[m].addr = channel
        /\ \A k \in 1 .. n : f.records[k].addr = channel => m <= k
    BY <1>2, <1>7, FirstForMe DEF n
  <2>2. Meant(f) = [protocol |-> f.protocol, colour |-> f.records[m].colour,
                    total |-> f.records[m].total, auto |-> f.auto,
                    blink |-> f.records[m].blink, cmd |-> f.cmd,
                    refresh |-> f.refresh]
    BY DEF Meant
  <2> HIDE DEF m
  <2>3. PICK q \in 0 .. n - 1 : m = q + 1
    <3>1. m - 1 \in 0 .. n - 1 /\ m = (m - 1) + 1
      BY <1>1, <2>1
    <3> QED
      BY <3>1
  <2> DEFINE r == f.records[m]
             b == Two(r)
  <2>4. At(buf, 2 * q + 3) = b[1] /\ At(buf, 2 * q + 4) = b[2]
    BY <1>1, <2>3
  <2>5. r \in Records2014
    BY <1>5, <2>1
  <2> HIDE DEF r
  <2>6. /\ ColourOf(b[1] % 4) = r.colour /\ b[1] \div 8 = r.addr
        /\ (Bit(b[1], 2) = 1) = r.blink /\ b[2] = r.total
    BY <2>5, AttributeByte
  <2> HIDE DEF b
  <2>7. Record2014(buf, 2 * q)
            = [protocol |-> "GAT2014", colour |-> r.colour, total |-> r.total,
               auto |-> FALSE, blink |-> r.blink, cmd |-> "none", refresh |-> TRUE]
    BY <2>4, <2>6 DEF Record2014
  <2>8. 2 * q \in mine
    <3>1. 2 * q \in 0 .. Len(buf) - 4 /\ (2 * q) % 2 = 0
      BY <1>1, SMTT(30)
    <3>2. At(buf, 2 * q + 3) \div 8 = channel
      BY <2>1, <2>4, <2>6 DEF r
    <3> QED
      BY <3>1, <3>2
  <2>9. \A mm \in mine : mm \in Nat /\ 2 * q <= mm
    <3> SUFFICES ASSUME NEW mm \in mine PROVE mm \in Nat /\ 2 * q <= mm
      OBVIOUS
    <3>1. mm \in Nat /\ \E k \in 0 .. n :
             /\ mm = 2 * k
             /\ k < n => k + 1 \in 1 .. n /\ f.records[k + 1].addr = channel
      BY <1>6
    <3>2. PICK k \in 0 .. n :
             /\ mm = 2 * k
             /\ k < n => k + 1 \in 1 .. n /\ f.records[k + 1].addr = channel
      BY <3>1
    <3>3. CASE k < n
      <4>1. q + 1 <= k + 1
        BY <2>1, <2>3, <3>2, <3>3
      <4> QED
        BY <1>1, <3>2, <4>1
    <3>4. CASE ~(k < n)
      BY <1>1, <3>2, <3>4
    <3> QED
      BY <3>3, <3>4
  <2> HIDE DEF mine
  <2>10. Min(mine) = 2 * q
    <3>1. mine \in SUBSET Nat
      BY <2>9
    <3> QED
      BY <2>8, <2>9, <3>1, LeastIs
  <2>11. Parsed(buf) = <<Record2014(buf, 2 * q)>>
    BY <1>3, <1>4, <2>8, <2>10
  <2>12. Record2014(buf, 2 * q) = Meant(f)
    BY <2>2, <2>7 DEF r
  <2> QED
    BY <1>7, <2>11, <2>12 DEF buf
<1>8. CASE ~Addressed(f)
  <2>1. \A k \in 1 .. n : f.records[k].addr # channel
    BY <1>2, <1>8 DEF ForMe, Addresses, n
  <2>2. mine \in SUBSET {2 * n}
    <3> SUFFICES ASSUME NEW mm \in mine PROVE mm = 2 * n
      OBVIOUS
    <3>1. mm \in Nat /\ \E k \in 0 .. n :
             /\ mm = 2 * k
             /\ k < n => k + 1 \in 1 .. n /\ f.records[k + 1].addr = channel
      BY <1>6
    <3>2. PICK k \in 0 .. n :
             /\ mm = 2 * k
             /\ k < n => k + 1 \in 1 .. n /\ f.records[k + 1].addr = channel
      BY <3>1
    <3>3. ~(k < n)
      BY <2>1, <3>2
    <3>4. k = n
      BY <1>1, <3>3
    <3> QED
      BY <3>2, <3>4
  <2>3. Record2014(buf, 2 * n).total = 0
    BY <1>1 DEF Record2014
  <2> HIDE DEF mine
  <2>4. mine # {} => Min(mine) = 2 * n
    <3>1. 2 * n \in Nat
      BY <1>1
    <3>2. mine \in SUBSET Nat
      BY <2>2, <3>1
    <3> QED
      BY <2>2, <3>2, MinIsLeast
  <2>5. Parsed(buf) = <<>> \/ Parsed(buf) = <<Record2014(buf, 2 * n)>>
    BY <1>3, <1>4, <2>4
  <2> QED
    BY <1>8, <2>3, <2>5 DEF buf
<1> QED
  BY <1>7, <1>8

-----------------------------------------------------------------------------
(***************************************************************************)
(* The same of GeLinWei.                                                   *)
(***************************************************************************)

\* What becomes of a total on the way (ge_lin_wei.c:138): the same below a
\* hundred, otherwise more than the panel can draw.
LEMMA TotalOf ==
    ASSUME NEW n \in TotalsGeLin
    PROVE  LET h == TwoDigits(n \div 100)
               l == TwoDigits(n % 100)
           IN /\ h \in Bytes8 /\ l \in Bytes8 /\ Total(h, l) \in Words16
              /\ SameNumber(Total(h, l), "GeLinWei", n)
<1> DEFINE q == n \div 100
           d == n % 100
           h == TwoDigits(q)
           l == TwoDigits(d)
<1>1. q \in 0 .. 63 /\ d \in 0 .. 99 /\ n = 100 * q + d /\ n \in Nat
  <2>1. \A x \in Nat : x <= 6399 => /\ x \div 100 \in Nat /\ x \div 100 <= 63
                                    /\ x % 100 \in 0 .. 99
                                    /\ x = 100 * (x \div 100) + (x % 100)
    OBVIOUS
  <2>2. n \in Nat /\ n <= 6399
    BY DEF TotalsGeLin
  <2>3. \A x \in Nat : x <= 63 => x \in 0 .. 63
    OBVIOUS
  <2> QED
    BY <2>1, <2>2, <2>3
<1>2. \A x \in 0 .. 99 : /\ TwoDigits(x) \in Bytes8
                         /\ 10 * High(TwoDigits(x)) + Low(TwoDigits(x)) = x
  BY DEF TwoDigits, High, Low, Bytes8
<1> HIDE DEF q, d
<1>3. /\ h \in Bytes8 /\ l \in Bytes8
      /\ 10 * High(h) + Low(h) = q /\ 10 * High(l) + Low(l) = d
  BY <1>1, <1>2
<1> HIDE DEF h, l
<1>4. High(h) \in 0 .. 15 /\ Low(h) \in 0 .. 15 /\ High(l) \in 0 .. 15 /\ Low(l) \in 0 .. 15
  BY <1>3, Halves
<1>5. Hundreds(h, l) = (100 * q) % 256
  <2>1. 1000 * High(h) + 100 * Low(h) = 100 * q
    BY <1>3, <1>4
  <2> QED
    BY <2>1 DEF Hundreds
<1>6. Total(h, l) = 256 * ((100 * q) % 256) + d
  <2>1. \A x \in 0 .. 255 : 256 * x + 10 * High(l) + Low(l) = 256 * x + d
    BY <1>1, <1>3, <1>4
  <2>2. (100 * q) % 256 \in 0 .. 255
    BY <1>1
  <2> QED
    BY <1>5, <2>1, <2>2 DEF Total
<1>7. CASE q = 0
  <2>1. n < 100 /\ n = d /\ Total(h, l) = d /\ d \in Nat /\ d <= 65535
    BY <1>1, <1>6, <1>7
  <2>2. d \in Words16
    BY <2>1, Word
  <2> QED
    BY <1>1, <1>3, <2>1, <2>2 DEF SameNumber, h, l, q, d
<1>8. CASE q # 0
  <2>1. (100 * q) % 256 # 0 /\ (100 * q) % 256 \in 0 .. 255
    BY <1>1, <1>8
  <2>2. \A x, y \in Nat : x >= 1 /\ x <= 255 /\ y <= 99 =>
           256 * x + y \in Nat /\ 256 * x + y > 199 /\ 256 * x + y <= 65535
    OBVIOUS
  <2>3. /\ (100 * q) % 256 \in Nat /\ (100 * q) % 256 >= 1 /\ (100 * q) % 256 <= 255
        /\ d \in Nat /\ d <= 99 /\ n >= 100
    BY <1>1, <1>8, <2>1
  <2>4. Total(h, l) \in Nat /\ Total(h, l) > 199 /\ Total(h, l) <= 65535
    BY <1>6, <2>2, <2>3, SMT
  <2>5. Total(h, l) \in Words16
    BY <2>4, Word
  <2> QED
    BY <1>3, <2>3, <2>4, <2>5 DEF SameNumber, h, l, q, d
<1> QED
  BY <1>7, <1>8

\* The four bytes of a record.
LEMMA FourBytes ==
    ASSUME NEW r \in RecordsGeLin
    PROVE  /\ \A j \in 1 .. 4 : Four(r)[j] \in Bytes8
           /\ Four(r)[1] = r.addr
           /\ ColourCode(Four(r)[2]) = r.colour
           /\ Total(Four(r)[3], Four(r)[4]) \in Words16
           /\ SameNumber(Total(Four(r)[3], Four(r)[4]), "GeLinWei", r.total)
<1> DEFINE b == \hd0 + Bits(r.colour)
           h == TwoDigits(r.total \div 100)
           l == TwoDigits(r.total % 100)
<1>1. r.addr \in Bytes8 /\ r.colour \in Colours /\ r.total \in TotalsGeLin
  BY DEF RecordsGeLin
<1>2. /\ h \in Bytes8 /\ l \in Bytes8 /\ Total(h, l) \in Words16
      /\ SameNumber(Total(h, l), "GeLinWei", r.total)
  BY <1>1, TotalOf
<1>3. Bits(r.colour) \in 0 .. 3 /\ ColourOf(Bits(r.colour)) = r.colour
  BY <1>1 DEF Bits, ColourOf, Colours
<1>4. \A x \in 0 .. 3 : /\ \hd0 + x \in Bytes8 /\ \hd0 + x \in \hd0 .. \hd3
                        /\ (\hd0 + x) - \hd0 = x
  BY DEF Bytes8
<1>5. b \in Bytes8 /\ ColourCode(b) = r.colour
  BY <1>3, <1>4 DEF ColourCode
<1>6. Four(r) = <<r.addr, b, h, l>>
  BY DEF Four
<1> HIDE DEF b, h, l
<1>7. \A j \in 1 .. 4 : <<r.addr, b, h, l>>[j] \in Bytes8
  BY <1>1, <1>2, <1>5
<1> QED
  BY <1>2, <1>5, <1>6, <1>7

\* The information: four bytes of the frame, four of each record, two more.
LEMMA InfoBytes ==
    ASSUME NEW f, f.dir \in Bytes8, f.cmd \in {"none", "off", "H"},
           f.auto \in BOOLEAN, f.refresh \in BOOLEAN, f.records \in Seq(RecordsGeLin)
    PROVE  LET org == Information(f)
               n   == Len(f.records)
           IN /\ org \in Seq(Bytes8) /\ Len(org) = 4 * n + 6
              /\ At(org, 0) = f.dir /\ CommandWord(At(org, 1)) = f.cmd
              /\ (At(org, 2) = \h7d) = f.auto /\ (At(org, 3) = \h05) = f.refresh
              /\ \A k \in 0 .. n - 1, j \in 0 .. 3 :
                    At(org, 4 * k + 4 + j) = Four(f.records[k + 1])[j + 1]
              /\ At(org, 4 * n + 4) = \h18 /\ At(org, 4 * n + 8) = 0
<1> DEFINE n    == Len(f.records)
           c    == CASE f.cmd = "none" -> \h1f [] f.cmd = "off" -> 1 [] f.cmd = "H" -> 2
           a    == IF f.auto THEN \h7d ELSE \h7c
           e    == IF f.refresh THEN 5 ELSE 3
           head == <<f.dir, c, a, e>>
           recs == Joined(f.records, 4, Four)
           tail == <<\h18, \h02>>
           hr   == head \o recs
           org  == hr \o tail
<1>1. n \in Nat /\ \A k \in 1 .. n : f.records[k] \in RecordsGeLin
  OBVIOUS
<1>2. c \in Bytes8 /\ a \in Bytes8 /\ e \in Bytes8 /\ \h18 \in Bytes8 /\ \h02 \in Bytes8
  <2>1. c \in {1, 2, \h1f}
    OBVIOUS
  <2>2. a \in {\h7c, \h7d} /\ e \in {3, 5}
    OBVIOUS
  <2>3. \A x \in {1, 2, 3, 5, \h18, \h1f, \h7c, \h7d} : x \in Bytes8
    BY DEF Bytes8
  <2> HIDE DEF c, a, e
  <2> QED
    BY <2>1, <2>2, <2>3
<1>3. CommandWord(c) = f.cmd /\ (a = \h7d) = f.auto /\ (e = \h05) = f.refresh
  <2>1. CommandWord(c) = f.cmd
    BY DEF CommandWord
  <2> HIDE DEF c
  <2>2. (a = \h7d) = f.auto
    <3>1. CASE f.auto = TRUE
      BY <3>1
    <3>2. CASE f.auto = FALSE
      BY <3>2
    <3> QED
      BY <3>1, <3>2
  <2>3. (e = \h05) = f.refresh
    <3>1. CASE f.refresh = TRUE
      BY <3>1
    <3>2. CASE f.refresh = FALSE
      BY <3>2
    <3> QED
      BY <3>1, <3>2
  <2> QED
    BY <2>1, <2>2, <2>3
<1>4. org = Information(f)
  BY DEF Information
<1> HIDE DEF c, a, e
<1>5. /\ head \in Seq(Bytes8) /\ Len(head) = 4
      /\ head[1] = f.dir /\ head[2] = c /\ head[3] = a /\ head[4] = e
  BY <1>2
<1>6. tail \in Seq(Bytes8) /\ Len(tail) = 2 /\ tail[1] = \h18
  BY <1>2
<1>7. recs = [i \in 1 .. 4 * n |-> Four(f.records[((i - 1) \div 4) + 1])[((i - 1) % 4) + 1]]
  BY DEF Joined
<1> HIDE DEF head, tail, recs, n
<1>8. recs \in Seq(Bytes8) /\ Len(recs) = 4 * n
  <2>1. \A i \in 1 .. 4 * n : /\ ((i - 1) \div 4) + 1 \in 1 .. n
                              /\ ((i - 1) % 4) + 1 \in 1 .. 4
    BY <1>1
  <2>2. \A i \in 1 .. 4 * n :
           Four(f.records[((i - 1) \div 4) + 1])[((i - 1) % 4) + 1] \in Bytes8
    BY <1>1, <2>1, FourBytes
  <2>3. 4 * n \in Nat
    BY <1>1
  <2> QED
    BY <1>7, <2>2, <2>3
<1>9. ASSUME NEW k \in 0 .. n - 1, NEW j \in 0 .. 3
      PROVE  4 * k + j + 1 \in 1 .. 4 * n /\ recs[4 * k + j + 1] = Four(f.records[k + 1])[j + 1]
  <2> DEFINE i == 4 * k + j + 1
  <2>1. i \in 1 .. 4 * n
    BY <1>1
  <2>2. (i - 1) \div 4 = k /\ (i - 1) % 4 = j
    BY <1>1
  <2> HIDE DEF i
  <2>3. recs[i] = Four(f.records[((i - 1) \div 4) + 1])[((i - 1) % 4) + 1]
    BY <1>7, <2>1
  <2> QED
    BY <2>1, <2>2, <2>3 DEF i
<1>10. \A s, t \in Seq(Bytes8) :
          /\ s \o t \in Seq(Bytes8) /\ Len(s \o t) = Len(s) + Len(t)
          /\ \A i \in 1 .. Len(s) : (s \o t)[i] = s[i]
          /\ \A i \in 1 .. Len(t) : (s \o t)[i + Len(s)] = t[i]
  OBVIOUS
<1>11. /\ hr \in Seq(Bytes8) /\ Len(hr) = 4 * n + 4
       /\ \A i \in 1 .. 4 : hr[i] = head[i]
       /\ \A i \in 1 .. 4 * n : hr[i + 4] = recs[i]
  <2>1. /\ hr \in Seq(Bytes8) /\ Len(hr) = Len(head) + Len(recs)
        /\ \A i \in 1 .. Len(head) : hr[i] = head[i]
        /\ \A i \in 1 .. Len(recs) : hr[i + Len(head)] = recs[i]
    BY <1>5, <1>8, <1>10, Zenon
  <2> HIDE DEF hr
  <2>2. Len(hr) = 4 * n + 4
    BY <1>1, <1>5, <1>8, <2>1
  <2> QED
    BY <1>5, <1>8, <2>1, <2>2
<1> HIDE DEF hr
<1>12. /\ org \in Seq(Bytes8) /\ Len(org) = 4 * n + 6
       /\ \A i \in 1 .. 4 * n + 4 : org[i] = hr[i]
       /\ org[4 * n + 5] = \h18
  <2>1. /\ org \in Seq(Bytes8) /\ Len(org) = Len(hr) + Len(tail)
        /\ \A i \in 1 .. Len(hr) : org[i] = hr[i]
        /\ \A i \in 1 .. Len(tail) : org[i + Len(hr)] = tail[i]
    BY <1>6, <1>10, <1>11, Zenon
  <2> HIDE DEF org
  <2>2. org[1 + Len(hr)] = tail[1]
    BY <1>6, <2>1
  <2>3. 1 + Len(hr) = 4 * n + 5
    BY <1>1, <1>11
  <2> QED
    BY <1>1, <1>6, <1>11, <2>1, <2>2, <2>3
<1> HIDE DEF org
<1>13. \A i \in 0 .. 4 * n + 5 : At(org, i) = org[i + 1]
  BY <1>1, <1>12 DEF At
<1>14. At(org, 4 * n + 8) = 0
  BY <1>1, <1>12 DEF At
<1>15. /\ At(org, 0) = f.dir /\ At(org, 1) = c /\ At(org, 2) = a /\ At(org, 3) = e
  <2>1. \A i \in 0 .. 3 : i \in 0 .. 4 * n + 5 /\ i + 1 \in 1 .. 4 * n + 4 /\ i + 1 \in 1 .. 4
    BY <1>1
  <2>2. \A i \in 0 .. 3 : At(org, i) = head[i + 1]
    BY <1>11, <1>12, <1>13, <2>1
  <2>3. At(org, 0) = head[0 + 1] /\ At(org, 1) = head[1 + 1]
        /\ At(org, 2) = head[2 + 1] /\ At(org, 3) = head[3 + 1]
    BY <2>2
  <2> QED
    BY <1>5, <2>3
<1>16. ASSUME NEW k \in 0 .. n - 1, NEW j \in 0 .. 3
       PROVE  At(org, 4 * k + 4 + j) = Four(f.records[k + 1])[j + 1]
  <2> DEFINE i == 4 * k + j + 1
  <2>1. i \in 1 .. 4 * n /\ recs[i] = Four(f.records[k + 1])[j + 1]
    BY <1>9
  <2>2. 4 * k + 4 + j = i + 3
    BY <1>1
  <2> HIDE DEF i
  <2>3. /\ i + 3 \in 0 .. 4 * n + 5 /\ (i + 3) + 1 = i + 4
        /\ i + 4 \in 1 .. 4 * n + 4
    BY <1>1, <2>1
  <2>4. At(org, i + 3) = recs[i]
    BY <1>11, <1>12, <1>13, <2>1, <2>3, SMTT(30)
  <2> QED
    BY <2>1, <2>2, <2>4
<1>17. At(org, 4 * n + 4) = \h18
  <2>1. 4 * n + 4 \in 0 .. 4 * n + 5 /\ (4 * n + 4) + 1 = 4 * n + 5
    BY <1>1
  <2> QED
    BY <1>12, <1>13, <2>1
<1> QED
  BY <1>3, <1>4, <1>12, <1>14, <1>15, <1>16, <1>17 DEF n

\* A buffer with one head, at its start, is one frame.
LEMMA OneHead ==
    ASSUME NEW buf \in Seq(Nat), NEW config, Heads(buf) = {0},
           Len(buf) > 9, Len(buf) = At(buf, 4) + 5,
           \E msg : parse(buf, config) = <<>> \/ parse(buf, config) = <<msg>>
    PROVE  ge_lin_wei_parse(buf, config) = parse(buf, config)
<1> DEFINE Posted(i) == parse(FrameAt(buf, i), config)
           mine      == {i \in Heads(buf) : Posted(i) # <<>>}
           Nth(k)    == CHOOSE i \in mine : Cardinality(mine \cap 0 .. i) = k
           long      == {j \in Heads(buf) : j <= 0 /\ Len(buf) - j > 9}
<1>1. Len(buf) \in Nat
  OBVIOUS
<1>2. Counter(buf, 0) = Len(buf)
  <2>1. long = {0}
    BY <1>1
  <2>2. Max({0}) = 0
    <3>1. \A x \in {0} : (\A y \in {0} : x >= y) <=> x = 0
      OBVIOUS
    <3>2. Max({0}) = CHOOSE x \in {0} : \A y \in {0} : x >= y
      BY DEF Max
    <3> QED
      BY <3>1, <3>2
  <2>3. Counter(buf, 0) = IF long = {} THEN Len(buf) ELSE At(buf, Max(long) + 4) + 5
    BY DEF Counter
  <2> HIDE DEF long
  <2>4. Max(long) + 4 = 4 /\ long # {}
    BY <2>1, <2>2
  <2>5. Counter(buf, 0) = At(buf, 4) + 5
    BY <2>3, <2>4
  <2> QED
    BY <2>5
<1>3. FrameAt(buf, 0) = buf
  <2>1. FrameAt(buf, 0) = [k \in 1 .. Len(buf) |-> At(buf, 0 + k - 1)]
    BY <1>2 DEF FrameAt
  <2>2. \A k \in 1 .. Len(buf) : At(buf, 0 + k - 1) = buf[k]
    <3> SUFFICES ASSUME NEW k \in 1 .. Len(buf) PROVE At(buf, 0 + k - 1) = buf[k]
      OBVIOUS
    <3>1. (0 + k - 1) + 1 = k /\ k \in DOMAIN buf
      OBVIOUS
    <3> QED
      BY <3>1 DEF At
  <2>3. buf = [k \in 1 .. Len(buf) |-> buf[k]]
    OBVIOUS
  <2> QED
    BY <2>1, <2>2, <2>3
<1>4. Posted(0) = parse(buf, config)
  BY <1>3
<1>5. ge_lin_wei_parse(buf, config) = [k \in 1 .. Cardinality(mine) |-> Posted(Nth(k))[1]]
  BY DEF ge_lin_wei_parse
<1>6. CASE parse(buf, config) = <<>>
  <2>1. mine = {}
    BY <1>4, <1>6
  <2> HIDE DEF mine, Posted, Nth
  <2>2. Cardinality(mine) = 0
    BY <2>1, FS_EmptySet
  <2>3. [k \in 1 .. Cardinality(mine) |-> Posted(Nth(k))[1]] = <<>>
    BY <2>2
  <2> QED
    BY <1>5, <1>6, <2>3
<1>7. CASE parse(buf, config) # <<>>
  <2>1. mine = {0}
    BY <1>4, <1>7
  <2>2. Cardinality({0}) = 1
    BY FS_Singleton
  <2>3. Nth(1) = 0
    <3>1. {0} \cap 0 .. 0 = {0}
      OBVIOUS
    <3>2. \A i \in {0} : Cardinality({0} \cap 0 .. i) = 1
      BY <2>2, <3>1
    <3>3. Nth(1) = CHOOSE i \in {0} : Cardinality({0} \cap 0 .. i) = 1
      BY <2>1
    <3> HIDE DEF Nth
    <3> QED
      BY <3>2, <3>3
  <2>4. PICK msg : parse(buf, config) = <<msg>>
    BY <1>7
  <2>5. Posted(Nth(1))[1] = msg
    <3>1. Posted(Nth(1)) = <<msg>>
      BY <1>4, <2>3, <2>4
    <3> HIDE DEF Posted
    <3> QED
      BY <3>1
  <2> HIDE DEF mine, Posted, Nth
  <2>6. [k \in 1 .. Cardinality(mine) |-> Posted(Nth(k))[1]] = <<msg>>
    <3>1. Cardinality(mine) = 1
      BY <2>1, <2>2
    <3>2. \A k \in 1 .. 1 : k = 1
      OBVIOUS
    <3>3. [k \in 1 .. 1 |-> Posted(Nth(k))[1]] = [k \in 1 .. 1 |-> msg]
      BY <2>5, <3>2
    <3>4. [k \in 1 .. 1 |-> msg] = <<msg>>
      OBVIOUS
    <3> QED
      BY <3>1, <3>3, <3>4
  <2> QED
    BY <1>5, <2>4, <2>6
<1> QED
  BY <1>6, <1>7

\* The first record for this sign; no sign has the address of the bytes behind
\* the records.
LEMMA MineGeLin ==
    ASSUME NEW f, f.protocol = "GeLinWei", f.dir \in Bytes8,
           f.cmd \in {"none", "off", "H"}, f.auto \in BOOLEAN, f.refresh \in BOOLEAN,
           f.records \in Seq(RecordsGeLin),
           config_init.singal_direction \in \hc0 .. \hcf
    PROVE  LET org  == Information(f)
               mine == Mine(org, config_init)
           IN /\ mine # {} <=> ForMe(f) # {}
              /\ mine # {} =>
                    \E q \in 0 .. Len(f.records) - 1 :
                        Min(mine) = 4 * q /\ Min(ForMe(f)) = q + 1
<1> DEFINE org  == Information(f)
           n    == Len(f.records)
           ours == Addresses(f)
           mine == Mine(org, config_init)
<1>1. /\ org \in Seq(Bytes8) /\ Len(org) = 4 * n + 6 /\ n \in Nat
      /\ \A k \in 0 .. n - 1, j \in 0 .. 3 :
            At(org, 4 * k + 4 + j) = Four(f.records[k + 1])[j + 1]
      /\ At(org, 4 * n + 4) = \h18 /\ At(org, 4 * n + 8) = 0
  BY InfoBytes
<1>2. ours = {config_init.singal_direction, mux_detection(config_init.singal_direction)}
  BY DEF Addresses
<1>3. 0 \notin ours /\ \h18 \notin ours
  BY <1>2, SMTT(30) DEF mux_detection
<1>4. mine = {mm \in 0 .. Len(org) : mm % 4 = 0 /\ At(org, mm + 4) \in ours}
  BY <1>2 DEF Mine
<1>5. \A k \in 1 .. n : Four(f.records[k])[1] = f.records[k].addr
  BY FourBytes
<1>6. \A k \in 0 .. n - 1 : At(org, 4 * k + 4) = f.records[k + 1].addr
  <2> SUFFICES ASSUME NEW k \in 0 .. n - 1
               PROVE  At(org, 4 * k + 4) = f.records[k + 1].addr
    OBVIOUS
  <2>1. At(org, 4 * k + 4 + 0) = Four(f.records[k + 1])[0 + 1]
    BY <1>1
  <2>2. 4 * k + 4 + 0 = 4 * k + 4 /\ 0 + 1 = 1 /\ k + 1 \in 1 .. n
    BY <1>1
  <2> QED
    BY <1>5, <2>1, <2>2
<1>7. \A k : k \in ForMe(f) <=> k \in 1 .. n /\ f.records[k].addr \in ours
  BY DEF ForMe
<1> HIDE DEF org, n, ours, mine
<1>8. ASSUME NEW mm \in mine
      PROVE  \E k \in 0 .. n - 1 : mm = 4 * k /\ k + 1 \in ForMe(f)
  <2>1. mm \in 0 .. 4 * n + 6 /\ mm % 4 = 0 /\ At(org, mm + 4) \in ours
    BY <1>1, <1>4
  <2>2. PICK k \in 0 .. n + 1 : mm = 4 * k
    <3>1. mm \div 4 \in 0 .. n + 1 /\ mm = 4 * (mm \div 4)
      BY <1>1, <2>1
    <3> QED
      BY <3>1
  <2>3. k # n
    BY <1>1, <1>3, <2>1, <2>2
  <2>4. k # n + 1
    <3>1. 4 * (n + 1) + 4 = 4 * n + 8
      BY <1>1
    <3> QED
      BY <1>1, <1>3, <2>1, <2>2, <3>1
  <2>5. k \in 0 .. n - 1 /\ k + 1 \in 1 .. n
    BY <1>1, <2>3, <2>4
  <2> QED
    BY <1>6, <1>7, <2>1, <2>2, <2>5
<1>9. ASSUME NEW k \in 0 .. n - 1, k + 1 \in ForMe(f)
      PROVE  4 * k \in mine
  <2>1. 4 * k \in 0 .. Len(org) /\ (4 * k) % 4 = 0
    BY <1>1
  <2> QED
    BY <1>4, <1>6, <1>7, <1>9, <2>1
<1>10. \A k \in ForMe(f) : k - 1 \in 0 .. n - 1 /\ k = (k - 1) + 1
  BY <1>1, <1>7
<1>11. mine # {} <=> ForMe(f) # {}
  BY <1>8, <1>9, <1>10
<1>12. ASSUME mine # {}
       PROVE  \E q \in 0 .. n - 1 : Min(mine) = 4 * q /\ Min(ForMe(f)) = q + 1
  <2> DEFINE m == Min(ForMe(f))
  <2>1. ForMe(f) \in SUBSET Nat /\ ForMe(f) # {}
    BY <1>1, <1>7, <1>11, <1>12
  <2>2. m \in ForMe(f) /\ \A k \in ForMe(f) : m <= k
    BY <2>1, MinIsLeast
  <2> HIDE DEF m
  <2>3. PICK q \in 0 .. n - 1 : m = q + 1
    BY <1>10, <2>2
  <2>4. 4 * q \in mine
    BY <1>9, <2>2, <2>3
  <2>5. \A mm \in mine : mm \in Nat /\ 4 * q <= mm
    <3> SUFFICES ASSUME NEW mm \in mine PROVE mm \in Nat /\ 4 * q <= mm
      OBVIOUS
    <3>1. PICK k \in 0 .. n - 1 : mm = 4 * k /\ k + 1 \in ForMe(f)
      BY <1>8
    <3>2. q + 1 <= k + 1
      BY <2>2, <2>3, <3>1
    <3> QED
      BY <1>1, <3>1, <3>2
  <2>6. mine \in SUBSET Nat
    BY <2>5
  <2>7. Min(mine) = 4 * q
    BY <2>4, <2>5, <2>6, LeastIs
  <2> QED
    BY <2>3, <2>7 DEF m
<1> QED
  BY <1>11, <1>12 DEF org, n, mine

\* A message that keeps what was meant, its number as far as the panel can
\* tell.
Keeps(m, meant) ==
    /\ m.total \in Words16
    /\ m = [meant EXCEPT !.total = m.total]
    /\ IF meant.refresh THEN SameNumber(m.total, meant.protocol, meant.total)
       ELSE m.total = 0

\* Such a frame says where it begins and how long it is; deciphered, its first
\* record for this sign is what is posted.
LEMMA FrameParsed ==
    ASSUME NEW f, IsGeLin(f), config_init.singal_direction \in \hc0 .. \hcf
    PROVE  LET F == BytesGeLin(f) IN
           /\ F \in Seq(Nat) /\ Len(F) = At(F, 4) + 5 /\ Len(F) > 9
           /\ \A i \in 0 .. 3 : At(F, i) = \h2c
           /\ IF f.dir = config_init.countdown_direction /\ ForMe(f) # {}
              THEN \E m : parse(F, config_init) = <<m>> /\ Keeps(m, Meant(f))
              ELSE parse(F, config_init) = <<>>
<1> DEFINE F    == BytesGeLin(f)
           org  == Information(f)
           n    == Len(f.records)
           mine == Mine(org, config_init)
           Mine1 == f.dir = config_init.countdown_direction /\ ForMe(f) # {}
<1>0. /\ f.protocol = "GeLinWei" /\ ~f.clear
      /\ f.dir \in Bytes8 /\ f.cmd \in {"none", "off", "H"}
      /\ f.auto \in BOOLEAN /\ f.refresh \in BOOLEAN
      /\ f.records \in Seq(RecordsGeLin) /\ Len(f.records) >= 1
      /\ f.keyB \in Bytes8 /\ f.keyC \in Bytes8
  BY DEF IsGeLin
<1>1. /\ org \in Seq(Bytes8) /\ Len(org) = 4 * n + 6
      /\ At(org, 0) = f.dir /\ CommandWord(At(org, 1)) = f.cmd
      /\ (At(org, 2) = \h7d) = f.auto /\ (At(org, 3) = \h05) = f.refresh
      /\ \A k \in 0 .. n - 1, j \in 0 .. 3 :
            At(org, 4 * k + 4 + j) = Four(f.records[k + 1])[j + 1]
  BY <1>0, InfoBytes
<1>2. n \in Nat /\ n >= 1 /\ Len(org) >= 7
  <2>1. n \in Nat /\ n >= 1
    BY <1>0
  <2> HIDE DEF n, org
  <2> QED
    BY <1>1, <2>1
<1>3. /\ org_data(F) = org /\ F \in Seq(Nat)
      /\ Len(F) = At(F, 4) + 5 /\ Len(F) > 9
      /\ \A i \in 0 .. 3 : At(F, i) = \h2c
  BY <1>0, <1>1, <1>2, Deciphered
<1>4. parse(F, config_init)
          = IF At(org, 0) = config_init.countdown_direction /\ mine # {}
            THEN <<Post(org, Min(mine))>> ELSE <<>>
  BY <1>0, <1>1, <1>2, CipherTransparent
<1>5. /\ mine # {} <=> ForMe(f) # {}
      /\ mine # {} =>
            \E q \in 0 .. Len(f.records) - 1 :
                Min(mine) = 4 * q /\ Min(ForMe(f)) = q + 1
  BY <1>0, MineGeLin
<1> HIDE DEF F, org, mine
<1>6. CASE Mine1
  <2>1. PICK q \in 0 .. n - 1 : Min(mine) = 4 * q /\ Min(ForMe(f)) = q + 1
    BY <1>5, <1>6
  <2> DEFINE r == f.records[q + 1]
             b == Four(r)
  <2>2. q + 1 \in 1 .. n /\ r \in RecordsGeLin
    BY <1>0, <1>2
  <2>3. parse(F, config_init) = <<Post(org, 4 * q)>>
    BY <1>1, <1>4, <1>5, <1>6, <2>1
  <2>4. Meant(f) = [protocol |-> f.protocol, colour |-> r.colour,
                    total |-> r.total, auto |-> f.auto,
                    blink |-> r.blink, cmd |-> f.cmd, refresh |-> f.refresh]
    BY <2>1 DEF Meant
  <2>5. /\ ColourCode(b[2]) = r.colour /\ Total(b[3], b[4]) \in Words16
        /\ SameNumber(Total(b[3], b[4]), "GeLinWei", r.total)
    BY <2>2, FourBytes
  <2>6. /\ At(org, 4 * q + 5) = b[2] /\ At(org, 4 * q + 6) = b[3]
        /\ At(org, 4 * q + 7) = b[4]
    <3>1. \A j \in 0 .. 3 : At(org, 4 * q + 4 + j) = b[j + 1]
      BY <1>1, Zenon
    <3>2. At(org, 4 * q + 4 + 1) = b[1 + 1] /\ At(org, 4 * q + 4 + 2) = b[2 + 1]
          /\ At(org, 4 * q + 4 + 3) = b[3 + 1]
      BY <3>1
    <3>3. 4 * q + 4 + 1 = 4 * q + 5 /\ 4 * q + 4 + 2 = 4 * q + 6
          /\ 4 * q + 4 + 3 = 4 * q + 7
      BY <1>2
    <3> QED
      BY <3>2, <3>3
  <2>7. r.blink = FALSE
    BY <2>2 DEF RecordsGeLin
  <2> HIDE DEF r, b
  <2> DEFINE t == IF f.refresh THEN Total(b[3], b[4]) ELSE 0
             m == Post(org, 4 * q)
             meant == Meant(f)
  <2>8. m = [protocol |-> "GeLinWei", colour |-> r.colour, total |-> t,
             auto |-> f.auto, blink |-> FALSE, cmd |-> f.cmd,
             refresh |-> f.refresh]
    BY <1>1, <2>5, <2>6 DEF Post
  <2>9. t \in Words16 /\ IF f.refresh THEN SameNumber(t, "GeLinWei", r.total) ELSE t = 0
    <3>1. 0 \in Words16
      BY Word
    <3> QED
      BY <2>5, <3>1
  <2> HIDE DEF t, m
  <2>10. m = [meant EXCEPT !.total = t]
    <3> DEFINE w == [protocol |-> f.protocol, colour |-> r.colour,
                     total |-> r.total, auto |-> f.auto,
                     blink |-> r.blink, cmd |-> f.cmd, refresh |-> f.refresh]
    <3>1. [w EXCEPT !.total = t]
              = [protocol |-> f.protocol, colour |-> r.colour, total |-> t,
                 auto |-> f.auto, blink |-> r.blink, cmd |-> f.cmd,
                 refresh |-> f.refresh]
      OBVIOUS
    <3>2. meant = w
      BY <2>4, Zenon
    <3> HIDE DEF w, meant
    <3>3. [meant EXCEPT !.total = t] = [w EXCEPT !.total = t]
      BY <3>2, Zenon
    <3>4. m = [protocol |-> f.protocol, colour |-> r.colour, total |-> t,
               auto |-> f.auto, blink |-> r.blink, cmd |-> f.cmd,
               refresh |-> f.refresh]
      BY <1>0, <2>7, <2>8, Zenon
    <3> QED
      BY <3>1, <3>3, <3>4, Zenon
  <2>11. meant.total = r.total /\ meant.refresh = f.refresh /\ meant.protocol = "GeLinWei"
    BY <1>0, <2>4
  <2>12. m.total = t
    BY <2>8
  <2> HIDE DEF meant
  <2>13. Keeps(m, meant)
    BY <2>9, <2>10, <2>11, <2>12, Zenon DEF Keeps
  <2> QED
    BY <1>3, <1>6, <2>3, <2>13 DEF F, m, meant
<1>7. CASE ~Mine1
  BY <1>1, <1>3, <1>4, <1>5, <1>7 DEF F
<1> QED
  BY <1>6, <1>7

\* An enciphered frame of any number of records, whatever the keys, is posted
\* as its first record for this sign says, and only that; a number from a
\* hundred on becomes one the panel cannot draw, and a frame that refreshes
\* none is posted with none.  One without such a record, or for another
\* direction, posts nothing (ge_lin_wei.c:121-180).
THEOREM AsSentGeLin ==
    ASSUME NEW f, IsGeLin(f), Heads(BytesGeLin(f)) = {0},
           config_init.singal_direction \in \hc0 .. \hcf,
           config_init.protocol = 1, Comm
    PROVE  LET posted == Parsed(BytesGeLin(f)) IN
           IF Addressed(f)
           THEN \E m : posted = <<m>> /\ Keeps(m, Meant(f))
           ELSE posted = <<>>
<1> DEFINE F == BytesGeLin(f)
<1>1. /\ F \in Seq(Nat) /\ Len(F) = At(F, 4) + 5 /\ Len(F) > 9
      /\ IF f.dir = config_init.countdown_direction /\ ForMe(f) # {}
         THEN \E m : parse(F, config_init) = <<m>> /\ Keeps(m, Meant(f))
         ELSE parse(F, config_init) = <<>>
  BY FrameParsed
<1>2. Addressed(f) <=> f.dir = config_init.countdown_direction /\ ForMe(f) # {}
  BY DEF Addressed, Speaks, IsGeLin
<1>3. Heads(F) = {0}
  OBVIOUS
<1> HIDE DEF F
<1>4. \E m : parse(F, config_init) = <<>> \/ parse(F, config_init) = <<m>>
  BY <1>1
<1>5. ge_lin_wei_parse(F, config_init) = parse(F, config_init)
  BY <1>1, <1>3, <1>4, OneHead
<1>6. Parsed(F) = parse(F, config_init)
  BY <1>5 DEF Parsed
<1> QED
  BY <1>1, <1>2, <1>6 DEF F
\* Two sequences, one behind the other.
LEMMA Concat ==
    ASSUME NEW S, NEW a \in Seq(S), NEW b \in Seq(S)
    PROVE  /\ a \o b \in Seq(S)
           /\ Len(a) \in Nat /\ Len(b) \in Nat
           /\ Len(a \o b) = Len(a) + Len(b)
           /\ Len(a \o b) - Len(b) = Len(a)
           /\ \A j \in 1 .. Len(a) : (a \o b)[j] = a[j]
           /\ \A j \in 1 .. Len(b) : (a \o b)[Len(a) + j] = b[j]
<1> DEFINE c == a \o b
<1>1. /\ c \in Seq(S)
         /\ Len(c) = Len(a) + Len(b)
         /\ \A i \in 1 .. Len(a) + Len(b) : c[i] =
                     IF i <= Len(a) THEN a[i] ELSE b[i - Len(a)]
  BY ConcatProperties
<1>2. Len(a) \in Nat /\ Len(b) \in Nat
  OBVIOUS
<1> DEFINE la == Len(a)  lb == Len(b)
<1> HIDE DEF c, la, lb
<1>3. /\ c \in Seq(S)
         /\ Len(c) = la + lb
         /\ \A i \in 1 .. la + lb : c[i] =
                     IF i <= la THEN a[i] ELSE b[i - la]
  BY <1>1 DEF la, lb
<1>4. la \in Nat /\ lb \in Nat
  BY <1>2 DEF la, lb
<1>5. (la + lb) - lb = la
  BY <1>4
<1>6. \A j \in 1 .. la : c[j] = a[j]
  BY <1>3, <1>4
<1>7. ASSUME NEW j \in 1 .. lb PROVE c[la + j] = b[j]
  <2>1. la + j \in 1 .. la + lb /\ ~(la + j <= la) /\ (la + j) - la = j
    BY <1>4
  <2> QED
    BY <1>3, <2>1
<1>8. Len(c) - lb = la
  BY <1>3, <1>5
<1> QED
  BY <1>3, <1>4, <1>6, <1>7, <1>8 DEF c, la, lb

\* F[k] is the first k of the sequences, one behind the other.
Behind(s, F) ==
    F = [i \in 1 .. Len(s) |-> IF i = 1 THEN s[i] ELSE F[i - 1] \o s[i]]

LEMMA SomeBehind ==
    ASSUME NEW s, Len(s) \in Nat
    PROVE  \E F : Behind(s, F)
<1> DEFINE n       == Len(s)
           Rec(m, F) == F = [i \in 1 .. m |-> IF i = 1 THEN s[i] ELSE F[i - 1] \o s[i]]
           Bad     == {m \in 0 .. n : ~\E F : Rec(m, F)}
<1> HIDE DEF n
<1>1. n \in Nat
  BY DEF n
<1>2. SUFFICES ASSUME Bad # {} PROVE FALSE
  <2>1. Bad = {} => \E F : Rec(n, F)
    <3>1. n \in 0 .. n
      BY <1>1
    <3> QED
      BY <3>1
  <2> QED
    BY <2>1 DEF Behind, n
<1> DEFINE m == Min(Bad)
<1>3. m \in Bad /\ \A k \in Bad : m <= k
  <2> HIDE DEF Rec
  <2>1. Bad \in SUBSET Nat
    BY <1>1
  <2> HIDE DEF Bad
  <2> QED
    BY <1>2, <2>1, MinIsLeast
<1>4. m \in 0 .. n /\ ~\E F : Rec(m, F)
  BY <1>3
<1> HIDE DEF m
<1>5. m # 0
  <2> DEFINE F == [i \in 1 .. 0 |-> s[i]]
  <2>1. F = [i \in 1 .. 0 |-> F[i]] /\ \A i \in 1 .. 0 : FALSE
    OBVIOUS
  <2> HIDE DEF F
  <2>2. Rec(0, F)
    BY <2>1
  <2> QED
    BY <1>4, <2>2
<1>6. PICK G : Rec(m - 1, G)
  <2>1. m - 1 \in 0 .. n /\ ~(m <= m - 1)
    BY <1>1, <1>4, <1>5
  <2>2. m - 1 \notin Bad
    BY <1>3, <2>1
  <2> QED
    BY <2>1, <2>2
<1> DEFINE joined == IF m = 1 THEN s[m] ELSE G[m - 1] \o s[m]
           F    == [i \in 1 .. m |-> IF i = m THEN joined ELSE G[i]]
<1>7. ASSUME NEW i \in 1 .. m
      PROVE  F[i] = IF i = 1 THEN s[i] ELSE F[i - 1] \o s[i]
  <2>1. CASE i = m
    <3>1. m # 1 => m - 1 \in 1 .. m /\ m - 1 # m
      BY <1>4, <1>5
    <3> QED
      BY <2>1, <3>1
  <2>2. CASE i # m
    <3>1. /\ i \in 1 .. m - 1
          /\ i # 1 => i - 1 \in 1 .. m - 1 /\ i - 1 \in 1 .. m /\ i - 1 # m
      BY <1>4, <2>2
    <3>2. G[i] = IF i = 1 THEN s[i] ELSE G[i - 1] \o s[i]
      BY <1>6, <3>1
    <3>3. F[i] = G[i] /\ (i # 1 => F[i - 1] = G[i - 1])
      BY <2>2, <3>1
    <3> HIDE DEF F
    <3> QED
      BY <3>2, <3>3
  <2> QED
    BY <2>1, <2>2
<1>8. Rec(m, F)
  <2>1. F = [i \in 1 .. m |-> F[i]]
    OBVIOUS
  <2> HIDE DEF F
  <2> QED
    BY <1>7, <2>1
<1> QED
  BY <1>4, <1>8

\* FlattenSeq is the last of them.
LEMMA FlattenIs ==
    ASSUME NEW s, Len(s) \in Nat, Len(s) >= 1
    PROVE  \E F : Behind(s, F) /\ FlattenSeq(s) = F[Len(s)]
<1> DEFINE flatten == CHOOSE F : Behind(s, F)
<1>1. Behind(s, flatten)
  BY SomeBehind
<1>2. FlattenSeq(s) = flatten[Len(s)]
  <2>1. Len(s) # 0
    OBVIOUS
  <2> QED
    BY <2>1 DEF FlattenSeq, Behind
<1> QED
  BY <1>1, <1>2

\* What stands where in them.
Laid(s, F) ==
    /\ \A k \in 1 .. Len(s) :
          /\ F[k] \in Seq(Nat) /\ Len(s[k]) <= Len(F[k])
          /\ \A j \in 1 .. Len(s[k]) :
                F[k][Len(F[k]) - Len(s[k]) + j] = s[k][j]
    /\ \A k \in 2 .. Len(s) : Len(F[k]) = Len(F[k - 1]) + Len(s[k])
    /\ \A m \in 1 .. Len(s) : \A k \in 1 .. m :
          /\ Len(F[k]) <= Len(F[m])
          /\ \A j \in 1 .. Len(F[k]) : F[m][j] = F[k][j]

LEMMA Behinds ==
    ASSUME NEW s \in Seq(Seq(Nat)), NEW F, Behind(s, F)
    PROVE  Laid(s, F)
<1> DEFINE n == Len(s)
<1>1. n \in Nat /\ \A k \in 1 .. n : s[k] \in Seq(Nat)
  OBVIOUS
<1>2. /\ 1 <= n => F[1] = s[1]
      /\ \A k \in 2 .. n : F[k] = F[k - 1] \o s[k]
  <2>1. F = [i \in 1 .. n |-> IF i = 1 THEN s[i] ELSE F[i - 1] \o s[i]]
    BY DEF Behind
  <2>2. \A k \in 1 .. n : F[k] = IF k = 1 THEN s[k] ELSE F[k - 1] \o s[k]
    BY <2>1
  <2>3. \A k \in 2 .. n : k \in 1 .. n /\ k # 1
    OBVIOUS
  <2>4. 1 <= n => 1 \in 1 .. n
    BY <1>1
  <2> QED
    BY <2>2, <2>3, <2>4
<1> HIDE DEF n
<1>3. \A k \in 1 .. n : F[k] \in Seq(Nat)
  <2> DEFINE Bad == {k \in 1 .. n : F[k] \notin Seq(Nat)}
             m   == Min(Bad)
  <2>1. SUFFICES ASSUME Bad # {} PROVE FALSE
    OBVIOUS
  <2>2. m \in Bad /\ \A k \in Bad : m <= k
    <3>1. Bad \in SUBSET Nat
      BY <1>1
    <3> HIDE DEF Bad
    <3> QED
      BY <2>1, <3>1, MinIsLeast
  <2>3. m \in 1 .. n /\ F[m] \notin Seq(Nat)
    BY <2>2
  <2> HIDE DEF m
  <2>4. CASE m = 1
    BY <1>1, <1>2, <2>3, <2>4
  <2>5. CASE m # 1
    <3>1. m - 1 \in 1 .. n /\ m \in 2 .. n /\ ~(m <= m - 1)
      BY <1>1, <2>3, <2>5
    <3>2. F[m - 1] \in Seq(Nat)
      BY <2>2, <3>1
    <3>3. F[m] = F[m - 1] \o s[m] /\ s[m] \in Seq(Nat)
      BY <1>1, <1>2, <2>3, <3>1
    <3>4. F[m] \in Seq(Nat)
      BY <3>2, <3>3
    <3> QED
      BY <2>3, <3>4
  <2> QED
    BY <2>4, <2>5
<1> DEFINE L(k) == Len(F[k])
           l(k) == Len(s[k])
<1>4. \A k \in 1 .. n : L(k) \in Nat /\ l(k) \in Nat
  BY <1>1, <1>3
<1>5. ASSUME NEW k \in 2 .. n
      PROVE  /\ k - 1 \in 1 .. n /\ k \in 1 .. n
             /\ L(k) = L(k - 1) + l(k) /\ L(k) - l(k) = L(k - 1)
             /\ \A j \in 1 .. L(k - 1) : F[k][j] = F[k - 1][j]
             /\ \A j \in 1 .. l(k) : F[k][L(k - 1) + j] = s[k][j]
  <2> DEFINE a == F[k - 1]
             b == s[k]
  <2>1. k - 1 \in 1 .. n /\ k \in 1 .. n
    BY <1>1
  <2>2. a \in Seq(Nat) /\ b \in Seq(Nat) /\ F[k] = a \o b
    BY <1>1, <1>2, <1>3, <2>1
  <2> HIDE DEF a, b
  <2>3. /\ Len(F[k]) = Len(a) + Len(b) /\ Len(F[k]) - Len(b) = Len(a)
        /\ \A j \in 1 .. Len(a) : F[k][j] = a[j]
        /\ \A j \in 1 .. Len(b) : F[k][Len(a) + j] = b[j]
    BY <2>2, Concat
  <2> QED
    BY <2>1, <2>3 DEF a, b
<1> HIDE DEF L, l
<1>6. ASSUME NEW k \in 1 .. n
      PROVE  /\ l(k) <= L(k)
             /\ \A j \in 1 .. l(k) : F[k][L(k) - l(k) + j] = s[k][j]
  <2>1. CASE k = 1
    <3>1. F[k] = s[k] /\ L(k) = l(k)
      BY <1>1, <1>2, <2>1 DEF L, l
    <3>2. \A j \in 1 .. l(k) : l(k) - l(k) + j = j
      BY <1>4
    <3> QED
      BY <1>4, <3>1, <3>2
  <2>2. CASE k # 1
    <3>1. k \in 2 .. n
      BY <1>1, <2>2
    <3>2. k - 1 \in 1 .. n /\ L(k) = L(k - 1) + l(k) /\ L(k) - l(k) = L(k - 1)
          /\ \A j \in 1 .. l(k) : F[k][L(k - 1) + j] = s[k][j]
      BY <1>5, <3>1
    <3>3. l(k) <= L(k)
      BY <1>4, <3>2
    <3> QED
      BY <3>2, <3>3
  <2> QED
    BY <2>1, <2>2
<1>7. ASSUME NEW k \in 1 .. n
      PROVE  \A m \in k .. n : /\ L(k) <= L(m)
                               /\ \A j \in 1 .. L(k) : F[m][j] = F[k][j]
  <2> DEFINE Good(m) == /\ L(k) <= L(m)
                        /\ \A j \in 1 .. L(k) : F[m][j] = F[k][j]
             Bad == {m \in k .. n : ~Good(m)}
             m   == Min(Bad)
  <2>1. SUFFICES ASSUME Bad # {} PROVE FALSE
    OBVIOUS
  <2>2. m \in Bad /\ \A i \in Bad : m <= i
    <3>1. Bad \in SUBSET Nat
      BY <1>1
    <3> HIDE DEF Bad
    <3> QED
      BY <2>1, <3>1, MinIsLeast
  <2>3. m \in k .. n /\ ~Good(m)
    BY <2>2
  <2> HIDE DEF m
  <2>4. L(k) \in Nat
    BY <1>4
  <2>5. m # k
    <3>1. Good(k)
      BY <2>4
    <3> QED
      BY <2>3, <3>1
  <2>6. m - 1 \in k .. n /\ m \in 2 .. n /\ ~(m <= m - 1)
    BY <1>1, <2>3, <2>5
  <2>7. Good(m - 1)
    <3> HIDE DEF Good
    <3> QED
      BY <2>2, <2>6
  <2>8. /\ m - 1 \in 1 .. n /\ m \in 1 .. n
        /\ L(m) = L(m - 1) + l(m)
        /\ \A j \in 1 .. L(m - 1) : F[m][j] = F[m - 1][j]
    BY <1>5, <2>6
  <2>9. L(m - 1) \in Nat /\ l(m) \in Nat
    BY <1>4, <2>8
  <2>10. Good(m)
    <3>1. L(k) <= L(m)
      BY <2>4, <2>7, <2>8, <2>9
    <3>2. \A j \in 1 .. L(k) : j \in 1 .. L(m - 1)
      BY <2>4, <2>7, <2>9
    <3>3. \A j \in 1 .. L(k) : F[m][j] = F[k][j]
      BY <2>7, <2>8, <3>2
    <3> QED
      BY <3>1, <3>3
  <2> QED
    BY <2>3, <2>10
<1>8. ASSUME NEW m \in 1 .. n, NEW k \in 1 .. m
      PROVE  L(k) <= L(m) /\ \A j \in 1 .. L(k) : F[m][j] = F[k][j]
  <2>1. k \in 1 .. n /\ m \in k .. n
    BY <1>1
  <2> QED
    BY <1>7, <2>1
<1>9. \A k \in 2 .. n : L(k) = L(k - 1) + l(k)
  BY <1>5
<1> QED
  BY <1>3, <1>6, <1>8, <1>9 DEF n, L, l, Laid
\* The k-th of a set of numbers is the one with k of them up to it.
RankIn(S, x) == Cardinality(S \cap 0 .. x)
NthIn(S, i)  == CHOOSE x \in S : RankIn(S, x) = i

LEMMA Ranked ==
    ASSUME NEW S \in SUBSET Nat, IsFiniteSet(S)
    PROVE  /\ Cardinality(S) \in Nat
           /\ \A x \in S : RankIn(S, x) \in 1 .. Cardinality(S)
           /\ \A x, y \in S : x < y => RankIn(S, x) < RankIn(S, y)
           /\ \A i \in 1 .. Cardinality(S) : \E x \in S : RankIn(S, x) = i
<1> DEFINE n    == Cardinality(S)
           U(x) == S \cap 0 .. x
<1>1. n \in Nat
  BY FS_CardinalityType
<1>2. ASSUME NEW x \in S
      PROVE  /\ IsFiniteSet(U(x)) /\ RankIn(S, x) = Cardinality(U(x))
             /\ RankIn(S, x) \in 1 .. n
  <2>1. U(x) \in SUBSET S
    OBVIOUS
  <2>2. IsFiniteSet(U(x)) /\ Cardinality(U(x)) <= n
    BY <2>1, FS_Subset
  <2>3. Cardinality(U(x)) \in Nat
    BY <2>2, FS_CardinalityType
  <2>4. Cardinality(U(x)) # 0
    <3>1. x \in U(x)
      OBVIOUS
    <3> HIDE DEF U
    <3> QED
      BY <2>2, <3>1, FS_EmptySet
  <2>5. RankIn(S, x) = Cardinality(U(x))
    BY DEF RankIn
  <2> HIDE DEF U, n
  <2> QED
    BY <1>1, <2>2, <2>3, <2>4, <2>5
<1>3. ASSUME NEW x \in S, NEW y \in S, x < y
      PROVE  RankIn(S, x) < RankIn(S, y)
  <2>1. U(x) \in SUBSET U(y) /\ y \in U(y) /\ y \notin U(x)
    BY <1>3
  <2>2. /\ IsFiniteSet(U(y))
        /\ RankIn(S, x) = Cardinality(U(x)) /\ RankIn(S, y) = Cardinality(U(y))
        /\ RankIn(S, x) \in 1 .. n /\ RankIn(S, y) \in 1 .. n
    BY <1>2
  <2> HIDE DEF U, n
  <2>3. /\ Cardinality(U(x)) <= Cardinality(U(y))
        /\ Cardinality(U(y)) = Cardinality(U(x)) => U(y) = U(x)
    BY <2>1, <2>2, FS_Subset
  <2>4. Cardinality(U(x)) # Cardinality(U(y))
    BY <2>1, <2>3
  <2> QED
    BY <1>1, <2>2, <2>3, <2>4
<1>4. \A i \in 1 .. n : \E x \in S : RankIn(S, x) = i
  <2> DEFINE f == [x \in S |-> RankIn(S, x)]
             T == 1 .. n
  <2>1. f \in [S -> T]
    BY <1>2
  <2>2. \A x, y \in S : f[x] = f[y] => x = y
    <3> SUFFICES ASSUME NEW x \in S, NEW y \in S, x # y PROVE f[x] # f[y]
      OBVIOUS
    <3>1. x \in Nat /\ y \in Nat
      OBVIOUS
    <3>2. /\ RankIn(S, x) \in Nat /\ RankIn(S, y) \in Nat
          /\ x < y => RankIn(S, x) < RankIn(S, y)
          /\ y < x => RankIn(S, y) < RankIn(S, x)
      <4>1. RankIn(S, x) \in 1 .. n /\ RankIn(S, y) \in 1 .. n
        BY <1>2
      <4>2. x < y => RankIn(S, x) < RankIn(S, y)
        BY <1>3
      <4>3. y < x => RankIn(S, y) < RankIn(S, x)
        BY <1>3
      <4> HIDE DEF n
      <4> QED
        BY <1>1, <4>1, <4>2, <4>3
    <3>3. x < y \/ y < x
      BY <3>1
    <3>4. f[x] = RankIn(S, x) /\ f[y] = RankIn(S, y)
      OBVIOUS
    <3> HIDE DEF f
    <3> QED
      BY <3>2, <3>3, <3>4
  <2>3. IsFiniteSet(T) /\ Cardinality(T) = n
    <3>1. 1 \in Int /\ n \in Int /\ (1 > n => n = 0) /\ n - 1 + 1 = n
      BY <1>1
    <3> HIDE DEF n
    <3> QED
      BY <3>1, FS_Interval
  <2>4. f \in Injection(S, T)
    <3> HIDE DEF f, T
    <3> QED
      BY <2>1, <2>2, Zenon DEF Injection, IsInjective
  <2>5. f \in Surjection(S, T)
    <3> HIDE DEF f, T
    <3>1. Cardinality(S) = Cardinality(T)
      BY <2>3
    <3> QED
      BY <2>3, <2>4, <3>1, FS_Injection
  <2>6. \A i \in T : \E x \in S : f[x] = i
    <3> HIDE DEF f, T
    <3> QED
      BY <2>5 DEF Surjection
  <2> QED
    BY <2>6
<1> QED
  BY <1>1, <1>2, <1>3, <1>4

\* Numbered in order, the elements of a set keep their numbers in an
\* increasing image of it.
SameNth(S, T, st) ==
    /\ Cardinality(T) = Cardinality(S)
    /\ \A i \in 1 .. Cardinality(S) :
          /\ NthIn(S, i) \in S /\ RankIn(S, NthIn(S, i)) = i
          /\ NthIn(T, i) = st[NthIn(S, i)]

LEMMA SameRanks ==
    ASSUME NEW S \in SUBSET Nat, IsFiniteSet(S), NEW st, NEW T,
           T = {st[k] : k \in S}, \A k \in S : st[k] \in Nat,
           \A j, k \in S : j < k => st[j] < st[k]
    PROVE  SameNth(S, T, st)
<1> DEFINE n == Cardinality(S)
<1>1. T \in SUBSET Nat
  OBVIOUS
<1>2. ASSUME NEW A \in SUBSET S
      PROVE  /\ IsFiniteSet({st[k] : k \in A})
             /\ Cardinality({st[k] : k \in A}) = Cardinality(A)
  <2> DEFINE B == {st[k] : k \in A}
             f == [k \in A |-> st[k]]
  <2>1. IsFiniteSet(A)
    BY FS_Subset
  <2>2. f \in [A -> B] /\ \A b \in B : \E k \in A : f[k] = b
    OBVIOUS
  <2>3. \A j, k \in A : f[j] = f[k] => j = k
    <3> SUFFICES ASSUME NEW j \in A, NEW k \in A, j # k PROVE f[j] # f[k]
      OBVIOUS
    <3>1. /\ j \in S /\ k \in S /\ j \in Nat /\ k \in Nat
          /\ f[j] = st[j] /\ f[k] = st[k] /\ st[j] \in Nat /\ st[k] \in Nat
      OBVIOUS
    <3> HIDE DEF f
    <3>2. j < k \/ k < j
      BY <3>1
    <3>3. st[j] < st[k] \/ st[k] < st[j]
      BY <3>1, <3>2
    <3> QED
      BY <3>1, <3>3
  <2>4. f \in Bijection(A, B)
    <3> HIDE DEF f, B
    <3> QED
      BY <2>2, <2>3, Zenon DEF Bijection, Injection, IsInjective, Surjection
  <2>5. ExistsBijection(A, B)
    <3> HIDE DEF f, B
    <3> QED
      BY <2>4 DEF ExistsBijection
  <2> HIDE DEF B
  <2> QED
    BY <2>1, <2>5, FS_Bijection DEF B
<1>3. Cardinality(T) = n /\ IsFiniteSet(T)
  BY <1>2
<1>4. ASSUME NEW x \in S
      PROVE  RankIn(T, st[x]) = RankIn(S, x)
  <2> DEFINE A == S \cap 0 .. x
  <2>1. T \cap 0 .. st[x] = {st[k] : k \in A}
    <3>1. ASSUME NEW k \in S
          PROVE  st[k] \in 0 .. st[x] <=> k \in 0 .. x
      <4>1. /\ k \in Nat /\ x \in Nat /\ st[k] \in Nat /\ st[x] \in Nat
            /\ k < x => st[k] < st[x]
            /\ x < k => st[x] < st[k]
        OBVIOUS
      <4>2. k = x => st[k] = st[x]
        OBVIOUS
      <4> QED
        BY <4>1, <4>2
    <3> QED
      BY <3>1
  <2>2. Cardinality({st[k] : k \in A}) = Cardinality(A)
    BY <1>2
  <2> QED
    BY <2>1, <2>2 DEF RankIn
<1>5. ASSUME NEW i \in 1 .. n
      PROVE  /\ NthIn(S, i) \in S /\ RankIn(S, NthIn(S, i)) = i
             /\ NthIn(T, i) = st[NthIn(S, i)]
  <2> DEFINE k == NthIn(S, i)
             y == NthIn(T, i)
  <2>1. k \in S /\ RankIn(S, k) = i
    <3>1. \E x \in S : RankIn(S, x) = i
      BY Ranked
    <3> QED
      BY <3>1 DEF NthIn
  <2> HIDE DEF k
  <2>2. st[k] \in T /\ RankIn(T, st[k]) = i
    BY <1>4, <2>1
  <2>3. y \in T /\ RankIn(T, y) = i
    BY <2>2 DEF NthIn
  <2> HIDE DEF y
  <2>4. \A x, z \in T : /\ RankIn(T, x) \in Nat /\ RankIn(T, z) \in Nat
                        /\ x < z => RankIn(T, x) < RankIn(T, z)
    <3>1. Cardinality(T) \in Nat
      BY <1>1, <1>3, Ranked
    <3>2. /\ \A x \in T : RankIn(T, x) \in 1 .. Cardinality(T)
          /\ \A x, z \in T : x < z => RankIn(T, x) < RankIn(T, z)
      BY <1>1, <1>3, Ranked
    <3> QED
      BY <3>1, <3>2
  <2>5. ~(y < st[k]) /\ ~(st[k] < y)
    <3>1. \A a \in Nat : ~(a < a)
      OBVIOUS
    <3> QED
      BY <2>2, <2>3, <2>4, <3>1
  <2>6. y \in Nat /\ st[k] \in Nat
    BY <1>1, <2>2, <2>3
  <2>7. y = st[k]
    BY <2>5, <2>6
  <2> QED
    BY <2>1, <2>7 DEF k, y
<1> QED
  BY <1>3, <1>5 DEF SameNth

\* A frame says where it begins and how long it is.
Framed(x) == /\ Len(x) = At(x, 4) + 5 /\ Len(x) > 9
             /\ \A i \in 0 .. 3 : At(x, i) = \h2c

\* The starts of the frames are all the heads the parser finds, and from each
\* it takes the frame that was sent.
Starts(s, F) == [k \in 1 .. Len(s) |-> Len(F[k]) - Len(s[k])]

Found(buf, s, start) ==
    /\ \A k \in 1 .. Len(s) : start[k] \in Nat
    /\ \A j, k \in 1 .. Len(s) : j < k => start[j] < start[k]
    /\ Heads(buf) = {start[k] : k \in 1 .. Len(s)}
    /\ \A k \in 1 .. Len(s) : FrameAt(buf, start[k]) = s[k]

LEMMA FramesFound ==
    ASSUME NEW s \in Seq(Seq(Nat)), Len(s) >= 1, NEW F, Behind(s, F),
           \A k \in 1 .. Len(s) : Framed(s[k]),
           Cardinality(Heads(F[Len(s)])) = Len(s)
    PROVE  Found(F[Len(s)], s, Starts(s, F))
<1> DEFINE n     == Len(s)
           buf   == F[n]
           L(k)  == Len(F[k])
           l(k)  == Len(s[k])
           start == Starts(s, F)
           starts == {start[k] : k \in 1 .. n}
<1>1. /\ \A k \in 1 .. n :
            /\ F[k] \in Seq(Nat) /\ l(k) <= L(k)
            /\ \A j \in 1 .. l(k) : F[k][L(k) - l(k) + j] = s[k][j]
      /\ \A k \in 2 .. n : L(k) = L(k - 1) + l(k)
      /\ \A m \in 1 .. n : \A k \in 1 .. m :
            L(k) <= L(m) /\ \A j \in 1 .. L(k) : F[m][j] = F[k][j]
  <2>1. Laid(s, F)
    BY Behinds
  <2> QED
    BY <2>1 DEF Laid
<1>2. n \in Nat /\ n >= 1 /\ \A k \in 1 .. n : s[k] \in Seq(Nat)
  OBVIOUS
<1>3. \A k \in 1 .. n : L(k) \in Nat /\ l(k) \in Nat
  BY <1>1, <1>2
<1>4. \A k \in 1 .. n : /\ l(k) = At(s[k], 4) + 5 /\ l(k) > 9
                        /\ \A i \in 0 .. 3 : At(s[k], i) = \h2c
  BY DEF Framed
<1>5. \A k \in 1 .. n : start[k] = L(k) - l(k)
  BY DEF Starts
<1>6. Len(buf) = L(n) /\ n \in 1 .. n /\ DOMAIN buf = 1 .. L(n)
  <2>1. n \in 1 .. n
    BY <1>2
  <2>2. buf \in Seq(Nat)
    BY <1>1, <2>1
  <2> QED
    BY <2>1, <2>2
<1>7. \A k \in 1 .. n : s[k] = [i \in 1 .. l(k) |-> s[k][i]] /\ DOMAIN s[k] = 1 .. l(k)
  BY <1>2
<1> HIDE DEF L, l, start, n, buf
<1>8. ASSUME NEW k \in 1 .. n
      PROVE  /\ start[k] \in Nat /\ start[k] + l(k) = L(k)
             /\ L(k) <= L(n) /\ start[k] + l(k) <= L(n)
             /\ \A j \in 1 .. L(k) : buf[j] = F[k][j]
  <2>1. k \in 1 .. n /\ n \in 1 .. n
    BY <1>6
  <2>2. L(k) <= L(n) /\ \A j \in 1 .. L(k) : F[n][j] = F[k][j]
    BY <1>1, <2>1
  <2>3. l(k) <= L(k) /\ L(k) \in Nat /\ l(k) \in Nat /\ start[k] = L(k) - l(k)
    BY <1>1, <1>3, <1>5
  <2>4. start[k] \in Nat /\ start[k] + l(k) = L(k)
    BY <2>3
  <2> QED
    BY <2>2, <2>4 DEF buf
<1>9. ASSUME NEW k \in 1 .. n, NEW j \in 1 .. l(k)
      PROVE  At(buf, start[k] + j - 1) = s[k][j]
  <2>1. /\ start[k] \in Nat /\ l(k) \in Nat /\ L(n) \in Nat /\ L(k) \in Nat
        /\ start[k] + l(k) = L(k) /\ L(k) <= L(n)
    BY <1>3, <1>6, <1>8
  <2>2. /\ (start[k] + j - 1) + 1 = start[k] + j
        /\ start[k] + j \in 1 .. L(k) /\ start[k] + j \in 1 .. L(n)
    BY <2>1, SMTT(30)
  <2>3. At(buf, start[k] + j - 1) = buf[start[k] + j]
    BY <1>6, <2>2 DEF At
  <2>4. buf[start[k] + j] = F[k][start[k] + j]
    BY <1>8, <2>2
  <2>5. F[k][start[k] + j] = s[k][j]
    BY <1>1, <1>5
  <2> QED
    BY <2>3, <2>4, <2>5
<1>10. ASSUME NEW k \in 1 .. n, NEW i \in 0 .. 4
       PROVE  At(buf, start[k] + i) = At(s[k], i)
  <2>1. i + 1 \in 1 .. l(k)
    BY <1>3, <1>4
  <2>2. At(s[k], i) = s[k][i + 1]
    BY <1>7, <2>1 DEF At
  <2>3. start[k] + (i + 1) - 1 = start[k] + i
    BY <1>8
  <2> QED
    BY <1>9, <2>1, <2>2, <2>3
<1>11. ASSUME NEW j \in 1 .. n, NEW k \in 1 .. n, j < k
       PROVE  start[j] < start[k]
  <2>1. k \in 2 .. n /\ k - 1 \in 1 .. n /\ j \in 1 .. k - 1
    BY <1>2, <1>11 DEF n
  <2>2. L(k) = L(k - 1) + l(k) /\ L(j) <= L(k - 1)
    BY <1>1, <2>1
  <2>3. /\ start[j] \in Nat /\ start[j] + l(j) = L(j)
        /\ start[k] \in Nat /\ start[k] + l(k) = L(k)
        /\ l(j) \in Nat /\ l(k) \in Nat /\ l(j) > 9
        /\ L(j) \in Nat /\ L(k) \in Nat /\ L(k - 1) \in Nat
    BY <1>3, <1>4, <1>8, <2>1
  <2> QED
    BY <2>2, <2>3, SMTT(30)
<1>12. Heads(buf) = {i \in 0 .. L(n) - 1 : \A k \in 0 .. 3 : At(buf, i + k) = \h2c}
  BY <1>6 DEF Heads
<1>13. starts \in SUBSET Heads(buf)
  <2> SUFFICES ASSUME NEW k \in 1 .. n PROVE start[k] \in Heads(buf)
    OBVIOUS
  <2>1. /\ start[k] \in Nat /\ start[k] + l(k) <= L(n)
        /\ l(k) \in Nat /\ l(k) > 9 /\ L(n) \in Nat
    BY <1>3, <1>4, <1>6, <1>8
  <2>2. start[k] \in 0 .. L(n) - 1
    BY <2>1
  <2>3. \A i \in 0 .. 3 : At(buf, start[k] + i) = \h2c
    <3> SUFFICES ASSUME NEW i \in 0 .. 3 PROVE At(buf, start[k] + i) = \h2c
      OBVIOUS
    <3>1. i \in 0 .. 4
      OBVIOUS
    <3> QED
      BY <1>4, <1>10, <3>1
  <2> QED
    BY <1>12, <2>2, <2>3
<1>14. Heads(buf) = starts
  <2>1. IsFiniteSet(Heads(buf))
    <3>1. Heads(buf) \in SUBSET (0 .. L(n) - 1)
      BY <1>12
    <3>2. IsFiniteSet(0 .. L(n) - 1)
      <4>1. 0 \in Int /\ L(n) - 1 \in Int
        BY <1>3, <1>6
      <4> QED
        BY <4>1, FS_Interval
    <3> QED
      BY <3>1, <3>2, FS_Subset
  <2>2. IsFiniteSet(1 .. n) /\ Cardinality(1 .. n) = n
    <3>1. 1 \in Int /\ n \in Int /\ ~(1 > n) /\ n - 1 + 1 = n
      BY <1>2 DEF n
    <3> QED
      BY <3>1, FS_Interval
  <2>3. Cardinality(starts) = Cardinality(1 .. n)
    <3>1. \A k \in 1 .. n : start[k] \in Nat
      BY <1>8
    <3>2. 1 .. n \in SUBSET Nat
      OBVIOUS
    <3>3. SameNth(1 .. n, starts, start)
      BY <1>11, <2>2, <3>1, <3>2, SameRanks
    <3> QED
      BY <3>3 DEF SameNth
  <2>4. Cardinality(Heads(buf)) = n
    BY DEF buf, n
  <2> HIDE DEF starts
  <2> QED
    BY <1>13, <2>1, <2>2, <2>3, <2>4, FS_Subset
<1>15. ASSUME NEW k \in 1 .. n
       PROVE  FrameAt(buf, start[k]) = s[k]
  <2> DEFINE i    == start[k]
             long == {j \in Heads(buf) : j <= i /\ Len(buf) - j > 9}
  <2>1. /\ i \in Nat /\ i + l(k) <= L(n)
        /\ l(k) \in Nat /\ l(k) > 9 /\ L(n) \in Nat
    BY <1>3, <1>4, <1>6, <1>8
  <2>2. i \in Heads(buf)
    BY <1>13
  <2> HIDE DEF i
  <2>3. i \in long /\ \A j \in long : i >= j
    BY <1>6, <2>1, <2>2
  <2>4. Max(long) = i
    <3>1. \A x \in long : (\A y \in long : x >= y) => x = i
      <4> SUFFICES ASSUME NEW x \in long, \A y \in long : x >= y PROVE x = i
        OBVIOUS
      <4>1. x \in Nat
        BY <1>12, <2>1
      <4>2. x >= i /\ i >= x
        BY <2>3
      <4> QED
        BY <2>1, <4>1, <4>2
    <3> HIDE DEF long
    <3> QED
      BY <2>3, <3>1 DEF Max
  <2>5. Counter(buf, i) = IF long = {} THEN Len(buf) ELSE At(buf, Max(long) + 4) + 5
    BY DEF Counter
  <2> HIDE DEF long
  <2>6. Counter(buf, i) = l(k)
    <3>1. At(buf, i + 4) = At(s[k], 4)
      BY <1>10 DEF i
    <3> QED
      BY <1>4, <2>3, <2>4, <2>5, <3>1
  <2>7. FrameAt(buf, i) = [j \in 1 .. l(k) |-> At(buf, i + j - 1)]
    BY <2>6 DEF FrameAt
  <2>8. \A j \in 1 .. l(k) : At(buf, i + j - 1) = s[k][j]
    BY <1>9 DEF i
  <2>9. FrameAt(buf, i) = [j \in 1 .. l(k) |-> s[k][j]]
    BY <2>7, <2>8
  <2> QED
    BY <1>7, <2>9 DEF i
<1>16. \A k \in 1 .. n : start[k] \in Nat
  BY <1>8
<1> QED
  BY <1>11, <1>14, <1>15, <1>16 DEF n, start, buf, Found

\* What is posted keeps what was meant, message by message.
AllKept(ms, meant) ==
    /\ Len(ms) = Len(meant) /\ ms = [k \in 1 .. Len(meant) |-> ms[k]]
    /\ \A k \in 1 .. Len(ms) : Keeps(ms[k], meant[k])

\* What is meant is meant by one of the frames.
MineIn(fs) == {k \in 1 .. Len(fs) : Addressed(fs[k])}

LEMMA MeantBySome ==
    ASSUME NEW R, NEW fs \in Seq(R)
    PROVE  /\ IsFiniteSet(MineIn(fs)) /\ MineIn(fs) \in SUBSET Nat
           /\ Len(MeantAll(fs)) = Cardinality(MineIn(fs))
           /\ Len(MeantAll(fs)) \in Nat
           /\ \A i \in 1 .. Len(MeantAll(fs)) :
                 /\ NthIn(MineIn(fs), i) \in MineIn(fs)
                 /\ MeantAll(fs)[i] = Meant(fs[NthIn(MineIn(fs), i)])
<1> DEFINE mine  == MineIn(fs)
           Nth(i) == NthIn(mine, i)
           meant == [i \in 1 .. Cardinality(mine) |-> Meant(fs[Nth(i)])]
<1>1. MeantAll(fs) = meant
  <2>1. DOMAIN fs = 1 .. Len(fs)
    OBVIOUS
  <2> QED
    BY <2>1 DEF MeantAll, MineIn, NthIn, RankIn
<1>2. mine \in SUBSET (1 .. Len(fs)) /\ mine \in SUBSET Nat
  BY DEF MineIn
<1>3. IsFiniteSet(mine)
  <2>1. 1 \in Int /\ Len(fs) \in Int
    OBVIOUS
  <2>2. IsFiniteSet(1 .. Len(fs))
    BY <2>1, FS_Interval
  <2> HIDE DEF mine
  <2> QED
    BY <1>2, <2>2, FS_Subset
<1> HIDE DEF mine
<1>4. Cardinality(mine) \in Nat /\ \A i \in 1 .. Cardinality(mine) : Nth(i) \in mine
  <2>1. /\ Cardinality(mine) \in Nat
        /\ \A i \in 1 .. Cardinality(mine) : \E x \in mine : RankIn(mine, x) = i
    BY <1>2, <1>3, Ranked
  <2> QED
    BY <2>1 DEF NthIn
<1> HIDE DEF Nth
<1>5. /\ Len(meant) = Cardinality(mine)
      /\ \A i \in 1 .. Cardinality(mine) : meant[i] = Meant(fs[Nth(i)])
  BY <1>4
<1> QED
  BY <1>1, <1>2, <1>3, <1>4, <1>5 DEF mine, Nth

\* The frames that have been run together are posted one by one, as they were
\* meant.
LEMMA BurstParsed ==
    ASSUME NEW R, NEW fs \in Seq(R), Len(fs) >= 1,
           \A k \in 1 .. Len(fs) : IsGeLin(fs[k]),
           NEW F, Behind([k \in 1 .. Len(fs) |-> BytesGeLin(fs[k])], F),
           Cardinality(Heads(F[Len(fs)])) = Len(fs),
           Comm, config_init.protocol = 1,
           config_init.singal_direction \in \hc0 .. \hcf
    PROVE  AllKept(Parsed(F[Len(fs)]), MeantAll(fs))
<1> DEFINE n     == Len(fs)
           s     == [k \in 1 .. n |-> BytesGeLin(fs[k])]
           buf   == F[n]
           start == Starts(s, F)
           mine  == MineIn(fs)
           Posted(i) == parse(FrameAt(buf, i), config_init)
           heads == {i \in Heads(buf) : Posted(i) # <<>>}
<1>1. n \in Nat /\ n >= 1 /\ \A k \in 1 .. n : IsGeLin(fs[k])
  OBVIOUS
<1>2. \A f : IsGeLin(f) =>
         /\ BytesGeLin(f) \in Seq(Nat) /\ Framed(BytesGeLin(f))
         /\ IF Addressed(f)
            THEN \E m : parse(BytesGeLin(f), config_init) = <<m>> /\ Keeps(m, Meant(f))
            ELSE parse(BytesGeLin(f), config_init) = <<>>
  <2> SUFFICES ASSUME NEW f, IsGeLin(f)
               PROVE  /\ BytesGeLin(f) \in Seq(Nat) /\ Framed(BytesGeLin(f))
                      /\ IF Addressed(f)
                         THEN \E m : /\ parse(BytesGeLin(f), config_init) = <<m>>
                                     /\ Keeps(m, Meant(f))
                         ELSE parse(BytesGeLin(f), config_init) = <<>>
    OBVIOUS
  <2>1. Addressed(f) <=> f.dir = config_init.countdown_direction /\ ForMe(f) # {}
    BY DEF Addressed, Speaks, IsGeLin
  <2> QED
    BY <2>1, FrameParsed DEF Framed
<1>3. /\ \A k \in 1 .. n : s[k] \in Seq(Nat) /\ Framed(s[k])
      /\ \A k \in 1 .. n :
            IF k \in mine
            THEN \E m : parse(s[k], config_init) = <<m>> /\ Keeps(m, Meant(fs[k]))
            ELSE parse(s[k], config_init) = <<>>
  BY <1>1, <1>2 DEF MineIn
<1>4. s \in Seq(Seq(Nat)) /\ Len(s) = n
  BY <1>1, <1>3
<1>5. Behind(s, F) /\ Cardinality(Heads(F[n])) = n
  OBVIOUS
<1> HIDE DEF s, n
<1>6. /\ \A k \in 1 .. n : start[k] \in Nat
      /\ \A j, k \in 1 .. n : j < k => start[j] < start[k]
      /\ Heads(buf) = {start[k] : k \in 1 .. n}
      /\ \A k \in 1 .. n : FrameAt(buf, start[k]) = s[k]
  <2>1. Found(F[Len(s)], s, Starts(s, F))
    BY <1>1, <1>3, <1>4, <1>5, FramesFound
  <2> QED
    BY <1>4, <2>1 DEF Found
<1>7. /\ IsFiniteSet(mine) /\ mine \in SUBSET Nat /\ mine \in SUBSET (1 .. n)
      /\ Len(MeantAll(fs)) = Cardinality(mine)
      /\ Len(MeantAll(fs)) \in Nat
      /\ \A i \in 1 .. Len(MeantAll(fs)) :
            NthIn(mine, i) \in mine /\ MeantAll(fs)[i] = Meant(fs[NthIn(mine, i)])
  BY MeantBySome DEF n, MineIn
<1>8. ge_lin_wei_parse(buf, config_init)
          = [i \in 1 .. Cardinality(heads) |-> Posted(NthIn(heads, i))[1]]
  BY DEF ge_lin_wei_parse, NthIn, RankIn
<1>9. Parsed(buf) = ge_lin_wei_parse(buf, config_init)
  BY DEF Parsed
<1> HIDE DEF start, buf
<1>10. \A k \in 1 .. n : Posted(start[k]) = parse(s[k], config_init)
  BY <1>6
<1>11. heads = {start[k] : k \in mine}
  <2>1. ASSUME NEW k \in 1 .. n
        PROVE  Posted(start[k]) # <<>> <=> k \in mine
    <3>1. \A m : <<m>> # <<>>
      OBVIOUS
    <3>2. Posted(start[k]) = parse(s[k], config_init)
      BY <1>10
    <3> HIDE DEF Posted, mine
    <3>3. CASE k \in mine
      <4>1. \E m : parse(s[k], config_init) = <<m>>
        BY <1>3, <3>3
      <4> QED
        BY <3>1, <3>2, <3>3, <4>1
    <3>4. CASE k \notin mine
      <4>1. parse(s[k], config_init) = <<>>
        BY <1>3, <3>4
      <4> QED
        BY <3>2, <3>4, <4>1
    <3> QED
      BY <3>3, <3>4
  <2> HIDE DEF Posted, mine
  <2>2. \A k \in mine : k \in 1 .. n
    BY <1>7
  <2> QED
    BY <1>6, <2>1, <2>2
<1> HIDE DEF heads, mine, Posted
<1>12. /\ Cardinality(heads) = Cardinality(mine)
       /\ \A i \in 1 .. Cardinality(mine) :
             NthIn(mine, i) \in mine /\ NthIn(heads, i) = start[NthIn(mine, i)]
  <2>1. /\ \A k \in mine : start[k] \in Nat
        /\ \A j, k \in mine : j < k => start[j] < start[k]
    BY <1>6, <1>7
  <2>2. SameNth(mine, heads, start)
    BY <1>7, <1>11, <2>1, SameRanks
  <2> QED
    BY <2>2 DEF SameNth
<1> DEFINE c  == Cardinality(mine)
           ms == [i \in 1 .. c |-> Posted(NthIn(heads, i))[1]]
<1>13. Parsed(buf) = ms
  BY <1>8, <1>9, <1>12
<1>14. ASSUME NEW i \in 1 .. c
       PROVE  Keeps(Posted(NthIn(heads, i))[1], MeantAll(fs)[i])
  <2>1. NthIn(mine, i) \in mine /\ NthIn(mine, i) \in 1 .. n /\ NthIn(heads, i) = start[NthIn(mine, i)]
    BY <1>7, <1>12
  <2>2. PICK m : parse(s[NthIn(mine, i)], config_init) = <<m>> /\ Keeps(m, Meant(fs[NthIn(mine, i)]))
    BY <1>3, <2>1
  <2>3. Posted(NthIn(heads, i)) = <<m>>
    BY <1>10, <2>1, <2>2
  <2>4. MeantAll(fs)[i] = Meant(fs[NthIn(mine, i)])
    BY <1>7
  <2> QED
    BY <2>2, <2>3, <2>4
<1>15. c \in Nat /\ Len(MeantAll(fs)) = c
  BY <1>7
<1> HIDE DEF c
<1>16. /\ Len(ms) = c /\ \A i \in 1 .. c : ms[i] = Posted(NthIn(heads, i))[1]
       /\ ms = [i \in 1 .. c |-> ms[i]]
  BY <1>15
<1> HIDE DEF ms
<1>17. AllKept(ms, MeantAll(fs))
  BY <1>14, <1>15, <1>16 DEF AllKept
<1> QED
  BY <1>13, <1>17 DEF buf, n
-----------------------------------------------------------------------------
(***************************************************************************)
(* From the line to the display: what is shown of whole bursts.            *)
(***************************************************************************)

\* The settings of a communication sign.
Settled ==
    Comm => /\ config_init.protocol \in {0, 1}
            /\ config_init.protocol = 1 => config_init.singal_direction \in \hc0 .. \hcf

LEMMA SettledWhenDone == DialObeyed /\ dial = "done" => Settled
<1> SUFFICES ASSUME DialObeyed, dial = "done", Comm
             PROVE  /\ config_init.protocol \in {0, 1}
                    /\ config_init.protocol = 1 =>
                          config_init.singal_direction \in \hc0 .. \hcf
  BY DEF Settled
<1>1. /\ config_init.protocol = Digit(accepted, 1)
      /\ config_init.protocol = 1 =>
            config_init.singal_direction = \hc0 + Row4(accepted)
  BY DEF DialObeyed, Comm
<1>2. Row4(accepted) \in 0 .. 15
  <2>1. \A k \in 0 .. 15 : Digit(accepted, k) \in {0, 1}
    BY DEF Digit
  <2> QED
    BY <2>1 DEF Row4
<1>3. Digit(accepted, 1) \in {0, 1}
  BY DEF Digit
<1> QED
  BY <1>1, <1>2, <1>3

\* Nothing is added to a byte that is not damaged.
LEMMA NothingAdded ==
    ASSUME NEW all \in Seq(Nat), Len(all) >= 1, all[1] \in Bytes8
    PROVE  [all EXCEPT ![0 + 1] = Xor(@, 0)] = all
<1> DEFINE x == all[1]
<1>1. 0 \in Bytes8
  BY DEF Bytes8
<1>2. Xor(x, 0) \in Bytes8
  BY <1>1, XorBits
<1>3. ASSUME NEW k \in 0 .. 7
      PROVE  Bit(Xor(x, 0), k) = Bit(x, k)
  <2>1. Bit(Xor(x, 0), k) = (Bit(x, k) + 0) % 2
    BY <1>1, NoBits, XorBits
  <2>2. Bit(x, k) \in {0, 1}
    BY BitType
  <2> QED
    BY <2>1, <2>2
<1>4. Xor(x, 0) = x
  BY <1>2, <1>3, SameBits
<1>5. [all EXCEPT ![0 + 1] = Xor(@, 0)] = [all EXCEPT ![1] = Xor(all[1], 0)]
  OBVIOUS
<1>6. all = [i \in 1 .. Len(all) |-> all[i]] /\ DOMAIN all = 1 .. Len(all)
  OBVIOUS
<1>7. [all EXCEPT ![1] = Xor(all[1], 0)]
          = [i \in 1 .. Len(all) |-> IF i = 1 THEN Xor(all[1], 0) ELSE all[i]]
  BY <1>6
<1>8. \A i \in 1 .. Len(all) : (IF i = 1 THEN Xor(all[1], 0) ELSE all[i]) = all[i]
  BY <1>4
<1>9. [i \in 1 .. Len(all) |-> IF i = 1 THEN Xor(all[1], 0) ELSE all[i]]
          = [i \in 1 .. Len(all) |-> all[i]]
  BY <1>8
<1> QED
  BY <1>5, <1>6, <1>7, <1>9, Zenon

\* The line carries what was sent, one frame behind the other.
LEMMA WholeLine ==
    ASSUME NEW h \in Handed, h[2] = <<0, 0>>, NEW S, h[1] \in Seq(S), Len(h[1]) >= 1,
           \A k \in 1 .. Len(h[1]) : Bytes(h[1][k]) \in Seq(Nat),
           Len(Bytes(h[1][1])) >= 1, Bytes(h[1][1])[1] \in Bytes8
    PROVE  LET s == [k \in 1 .. Len(h[1]) |-> Bytes(h[1][k])] IN
           \E F : Behind(s, F) /\ Line[h] = F[Len(h[1])]
<1> DEFINE n == Len(h[1])
           s == [k \in 1 .. n |-> Bytes(h[1][k])]
           all == FlattenSeq(s)
<1>1. n \in Nat /\ n >= 1 /\ Len(s) = n /\ s[1] = Bytes(h[1][1])
  OBVIOUS
<1>2. s \in Seq(Seq(Nat))
  BY <1>1
<1>3. Line[h] = [all EXCEPT ![0 + 1] = Xor(@, 0)]
  <2>1. Line[h] = [all EXCEPT ![h[2][1] + 1] = Xor(@, h[2][2])]
    BY DEF Line
  <2>2. h[2][1] = 0 /\ h[2][2] = 0
    OBVIOUS
  <2> HIDE DEF all
  <2> QED
    BY <2>1, <2>2
<1> HIDE DEF s, n
<1>4. PICK F : Behind(s, F) /\ all = F[n]
  BY <1>1, FlattenIs
<1>5. Laid(s, F)
  BY <1>2, <1>4, Behinds
<1>6. /\ F[1] \in Seq(Nat) /\ F[n] \in Seq(Nat) /\ Len(F[1]) <= Len(F[n])
      /\ \A j \in 1 .. Len(F[1]) : F[n][j] = F[1][j]
  <2>1. 1 \in 1 .. n /\ n \in 1 .. n
    BY <1>1
  <2> QED
    BY <1>1, <1>5, <2>1 DEF Laid
<1>7. F[1] = s[1]
  <2>1. F = [i \in 1 .. n |-> IF i = 1 THEN s[i] ELSE F[i - 1] \o s[i]]
    BY <1>1, <1>4 DEF Behind
  <2>2. 1 \in 1 .. n
    BY <1>1
  <2> QED
    BY <2>1, <2>2
<1>8. Len(F[1]) >= 1 /\ F[1][1] \in Bytes8
  BY <1>1, <1>7
<1>9. all \in Seq(Nat) /\ Len(all) >= 1 /\ all[1] \in Bytes8
  <2>1. Len(F[1]) \in Nat /\ Len(F[n]) \in Nat
    BY <1>6
  <2>2. 1 \in 1 .. Len(F[1]) /\ Len(F[n]) >= 1
    BY <1>6, <1>8, <2>1
  <2>3. F[n][1] = F[1][1]
    BY <1>6, <2>2
  <2>4. F[n] \in Seq(Nat) /\ Len(F[n]) >= 1 /\ F[n][1] \in Bytes8
    BY <1>6, <1>8, <2>2, <2>3
  <2> QED
    BY <1>4, <2>4
<1> HIDE DEF all
<1>10. Line[h] = all
  BY <1>3, <1>9, NothingAdded
<1> QED
  BY <1>4, <1>10 DEF s, n
\* The largest of a bounded set of numbers.
LEMMA MaxIsLargest ==
    ASSUME NEW k \in Nat, NEW S \in SUBSET (1 .. k), S # {}
    PROVE  Max(S) \in S /\ \A x \in S : x <= Max(S)
<1> DEFINE T == {k - x : x \in S}
<1>1. T \in SUBSET Nat /\ T # {}
  <2>1. \A x \in S : x \in 1 .. k
    OBVIOUS
  <2>2. \A x \in 1 .. k : k - x \in Nat
    OBVIOUS
  <2> QED
    BY <2>1, <2>2
<1>2. Min(T) \in T /\ \A t \in T : Min(T) <= t
  BY <1>1, MinIsLeast
<1>3. PICK m \in S : Min(T) = k - m
  BY <1>2
<1>4. \A x \in S : m >= x
  <2> SUFFICES ASSUME NEW x \in S PROVE m >= x
    OBVIOUS
  <2>1. k - m <= k - x
    BY <1>2, <1>3
  <2> QED
    BY <2>1
<1>5. Max(S) \in S /\ \A x \in S : Max(S) >= x
  BY <1>4 DEF Max
<1>6. \A x \in S : x \in Int
  OBVIOUS
<1> QED
  BY <1>5, <1>6

\* cur_tmp behind the first k messages is the total of the last of them that
\* had one, if there was one.
LEMMA CarriedIs ==
    ASSUME NEW ms, Len(ms) \in Nat, NEW before, NEW k \in 0 .. Len(ms)
    PROVE  \/ /\ \A j \in 1 .. k : ~ms[j].refresh
              /\ Carried(ms, before)[k] = before
           \/ \E j \in 1 .. k :
                 /\ ms[j].refresh /\ \A i \in 1 .. k : ms[i].refresh => i <= j
                 /\ Carried(ms, before)[k] = ms[j].total
<1> DEFINE fresh == {j \in 1 .. k : ms[j].refresh}
<1>1. Carried(ms, before)[k] = IF fresh = {} THEN before ELSE ms[Max(fresh)].total
  BY DEF Carried
<1>2. k \in Nat /\ fresh \in SUBSET (1 .. k)
  OBVIOUS
<1>3. CASE fresh = {}
  BY <1>1, <1>3
<1>4. CASE fresh # {}
  <2>1. Max(fresh) \in fresh /\ \A x \in fresh : x <= Max(fresh)
    BY <1>2, <1>4, MaxIsLargest
  <2> QED
    BY <1>1, <1>4, <2>1
<1> QED
  BY <1>3, <1>4

\* A message with a total of its own is posted with that.
LEMMA CarriedFresh ==
    ASSUME NEW ms, Len(ms) \in Nat, NEW before, NEW k \in 1 .. Len(ms),
           ms[k].refresh
    PROVE  Carried(ms, before)[k] = ms[k].total
<1>1. k \in 0 .. Len(ms) /\ k \in 1 .. k
  OBVIOUS
<1>2. \E j \in 1 .. k :
         /\ ms[j].refresh /\ \A i \in 1 .. k : ms[i].refresh => i <= j
         /\ Carried(ms, before)[k] = ms[j].total
  BY <1>1, CarriedIs
<1>3. PICK j \in 1 .. k : j = k /\ Carried(ms, before)[k] = ms[j].total
  BY <1>1, <1>2
<1> QED
  BY <1>3

\* Fields of what is meant, and of what keeps it.
LEMMA KeptFields ==
    ASSUME NEW f, NEW m, Keeps(m, Meant(f))
    PROVE  LET w == Meant(f) IN
           /\ m = [protocol |-> w.protocol, colour |-> w.colour,
                   total |-> m.total, auto |-> w.auto, blink |-> w.blink,
                   cmd |-> w.cmd, refresh |-> w.refresh]
           /\ m.total \in Words16 /\ m.refresh = w.refresh
           /\ \A field \in {"protocol", "colour", "auto", "blink", "cmd"} :
                 m[field] = w[field]
           /\ w.refresh => SameNumber(m.total, w.protocol, w.total)
           /\ w.refresh = f.refresh /\ w.protocol = f.protocol
<1> DEFINE r == f.records[Min(ForMe(f))]
           w == [protocol |-> f.protocol, colour |-> r.colour, total |-> r.total,
                 auto |-> f.auto, blink |-> r.blink, cmd |-> f.cmd,
                 refresh |-> f.refresh]
           t == m.total
           x == [protocol |-> w.protocol, colour |-> w.colour, total |-> t,
                 auto |-> w.auto, blink |-> w.blink, cmd |-> w.cmd,
                 refresh |-> w.refresh]
<1>1. Meant(f) = w
  BY DEF Meant
<1> HIDE DEF r
<1>2. t \in Words16 /\ m = [w EXCEPT !.total = t]
      /\ (w.refresh => SameNumber(t, w.protocol, w.total))
  <2> HIDE DEF w
  <2> QED
    BY <1>1, Zenon DEF Keeps
<1> HIDE DEF t
<1>3. [w EXCEPT !.total = t] = x
  OBVIOUS
<1>4. m = x
  BY <1>2, <1>3, Zenon
<1>5. /\ x.refresh = w.refresh
      /\ \A field \in {"protocol", "colour", "auto", "blink", "cmd"} :
            x[field] = w[field]
      /\ w.refresh = f.refresh /\ w.protocol = f.protocol
  OBVIOUS
<1> HIDE DEF w
<1> QED
  BY <1>1, <1>2, <1>4, <1>5, Zenon DEF t

LEMMA MeantFields ==
    ASSUME NEW f
    PROVE  LET w == Meant(f)
               r == f.records[Min(ForMe(f))]
           IN /\ w.protocol = f.protocol /\ w.colour = r.colour
              /\ w.total = r.total /\ w.auto = f.auto /\ w.blink = r.blink
              /\ w.cmd = f.cmd /\ w.refresh = f.refresh
  BY DEF Meant

LEMMA MeantNone ==
    ASSUME NEW R, NEW fs \in Seq(R)
    PROVE  MeantAll(fs) = <<>> <=> Len(MeantAll(fs)) = 0
<1> DEFINE c == Cardinality(MineIn(fs))
           F == [i \in 1 .. c |-> Meant(fs[NthIn(MineIn(fs), i)])]
<1>1. MeantAll(fs) = F
  <2>1. DOMAIN fs = 1 .. Len(fs)
    OBVIOUS
  <2> QED
    BY <2>1 DEF MeantAll, MineIn, NthIn, RankIn
<1>2. c \in Nat
  BY MeantBySome
<1> HIDE DEF c
<1>3. F = <<>> <=> Len(F) = 0
  BY <1>2
<1> QED
  BY <1>1, <1>3

LEMMA MeantOfOne ==
    ASSUME NEW R, NEW fs \in Seq(R), Len(fs) = 1
    PROVE  IF Addressed(fs[1])
           THEN Len(MeantAll(fs)) = 1 /\ MeantAll(fs)[1] = Meant(fs[1])
           ELSE MeantAll(fs) = <<>>
<1>1. /\ Len(MeantAll(fs)) = Cardinality(MineIn(fs))
      /\ \A i \in 1 .. Len(MeantAll(fs)) :
            /\ NthIn(MineIn(fs), i) \in MineIn(fs)
            /\ MeantAll(fs)[i] = Meant(fs[NthIn(MineIn(fs), i)])
  BY MeantBySome
<1>2. CASE Addressed(fs[1])
  <2>1. MineIn(fs) = {1}
    BY <1>2 DEF MineIn
  <2>2. Len(MeantAll(fs)) = 1
    BY <1>1, <2>1, FS_Singleton
  <2>3. 1 \in 1 .. Len(MeantAll(fs))
    BY <2>2
  <2>4. NthIn(MineIn(fs), 1) = 1
    BY <1>1, <2>1, <2>3
  <2> QED
    BY <1>1, <1>2, <2>2, <2>3, <2>4
<1>3. CASE ~Addressed(fs[1])
  <2>1. MineIn(fs) = {}
    BY <1>3 DEF MineIn
  <2>2. Len(MeantAll(fs)) = 0
    BY <1>1, <2>1, FS_EmptySet
  <2> QED
    BY <1>3, <2>2, MeantNone
<1> QED
  BY <1>2, <1>3

\* Nothing is meant if no frame is for this sign, and something if all are.
LEMMA MeantIfMine ==
    ASSUME NEW R, NEW fs \in Seq(R)
    PROVE  /\ (\A k \in 1 .. Len(fs) : ~Addressed(fs[k])) => MeantAll(fs) = <<>>
           /\ (Len(fs) >= 1 /\ \A k \in 1 .. Len(fs) : Addressed(fs[k]))
                 => MeantAll(fs) # <<>>
<1>1. IsFiniteSet(MineIn(fs)) /\ Len(MeantAll(fs)) = Cardinality(MineIn(fs))
  BY MeantBySome
<1>2. Cardinality(MineIn(fs)) = 0 <=> MineIn(fs) = {}
  BY <1>1, FS_EmptySet
<1>3. MeantAll(fs) = <<>> <=> MineIn(fs) = {}
  BY <1>1, <1>2, MeantNone
<1>4. Len(fs) >= 1 => 1 \in 1 .. Len(fs)
  OBVIOUS
<1> QED
  BY <1>3, <1>4 DEF MineIn

\* What every message posted here is like.
Shown(r) ==
    /\ r \in Messages /\ r.total \in Words16
    /\ r.protocol = "GAT2014" => ~r.auto
    /\ r.protocol # "GeLinWei" => r.cmd = "none" /\ r.refresh

\* Whatever the bytes are.
LEMMA FieldsOfBytes ==
    /\ \A x \in Bytes8 : ColourOf(x % 4) \in Colours
    /\ \A h, l \in Bytes8 : Bcd(h, l) \in Words16 /\ Bcd(h, l) \in Nat
    /\ \A x \in Bytes8 : x \in Words16 /\ x \in Nat
<1>1. \A x \in Bytes8 : ColourOf(x % 4) \in Colours
  <2> SUFFICES ASSUME NEW x \in Bytes8 PROVE ColourOf(x % 4) \in Colours
    OBVIOUS
  <2>1. x % 4 = 0 \/ x % 4 = 1 \/ x % 4 = 2 \/ x % 4 = 3
    BY DEF Bytes8
  <2> DEFINE c == x % 4
  <2> HIDE DEF c
  <2>2. c = 0 \/ c = 1 \/ c = 2 \/ c = 3
    BY <2>1 DEF c
  <2>3. ColourOf(c) \in Colours
    BY <2>2 DEF ColourOf, Colours
  <2> QED
    BY <2>3 DEF c
<1>2. \A h, l \in Bytes8 : Bcd(h, l) \in Words16 /\ Bcd(h, l) \in Nat
  <2> SUFFICES ASSUME NEW h \in Bytes8, NEW l \in Bytes8
               PROVE  Bcd(h, l) \in Words16 /\ Bcd(h, l) \in Nat
    OBVIOUS
  <2> DEFINE a == High(h)
             b == Low(h)
             c == High(l)
             d == Low(l)
             t == Bcd(h, l)
  <2>1. a \in 0 .. 15 /\ b \in 0 .. 15 /\ c \in 0 .. 15 /\ d \in 0 .. 15
    BY Halves
  <2>2. t = 1000 * a + 100 * b + 10 * c + d
    BY DEF Bcd
  <2> HIDE DEF a, b, c, d, t
  <2>3. t \in Nat /\ t <= 65535
    BY <2>1, <2>2
  <2> HIDE DEF t
  <2>4. t \in Words16
    BY <2>3, Word
  <2> QED
    BY <2>3, <2>4 DEF t
<1>3. \A x \in Bytes8 : x \in Words16 /\ x \in Nat
  BY BytesAreWords, BytesAreNumbers, Zenon
<1> QED
  BY <1>1, <1>2, <1>3

\* A parser of the national protocols posts at most one message, of its own
\* protocol and with a total.
LEMMA NationalPosts ==
    ASSUME NEW buf \in Seq(Bytes8), config_init.protocol # 1
    PROVE  \/ Parsed(buf) = <<>>
           \/ \E r : Parsed(buf) = <<r>> /\ Shown(r) /\ r.refresh
<1> DEFINE channel == config_init.countdown_channel
<1>1. \A i : At(buf, i) \in Bytes8
  <2> SUFFICES ASSUME NEW i PROVE At(buf, i) \in Bytes8
    OBVIOUS
  <2>1. 0 \in Bytes8
    BY DEF Bytes8
  <2>2. \A j \in DOMAIN buf : buf[j] \in Bytes8
    OBVIOUS
  <2> QED
    BY <2>1, <2>2 DEF At
<1>2. ASSUME NEW mm PROVE Shown(Record2004(buf, mm)) /\ Record2004(buf, mm).refresh
  <2> DEFINE ctl == At(buf, mm + 1)
             t   == Bcd(At(buf, mm + 2), At(buf, mm + 3))
             c   == ColourOf(ctl % 4)
             a   == Bit(ctl, 5) = 1
  <2>1. c \in Colours /\ t \in Words16 /\ t \in Nat /\ a \in BOOLEAN
    BY <1>1, FieldsOfBytes
  <2>2. Record2004(buf, mm) =
           [protocol |-> "GAT2004", colour |-> c, total |-> t, auto |-> a,
            blink |-> FALSE, cmd |-> "none", refresh |-> TRUE]
    BY DEF Record2004
  <2> HIDE DEF c, t, a
  <2> QED
    BY <2>1, <2>2 DEF Shown, Messages
<1>3. ASSUME NEW mm PROVE Shown(Record2014(buf, mm)) /\ Record2014(buf, mm).refresh
  <2> DEFINE attr == At(buf, mm + 3)
             t   == At(buf, mm + 4)
             c   == ColourOf(attr % 4)
             a   == Bit(attr, 2) = 1
  <2>1. c \in Colours /\ t \in Words16 /\ t \in Nat /\ a \in BOOLEAN
    BY <1>1, FieldsOfBytes
  <2>2. Record2014(buf, mm) =
           [protocol |-> "GAT2014", colour |-> c, total |-> t, auto |-> FALSE,
            blink |-> a, cmd |-> "none", refresh |-> TRUE]
    BY DEF Record2014
  <2> HIDE DEF c, t, a
  <2> QED
    BY <2>1, <2>2 DEF Shown, Messages
<1>4. \/ gat_2004_parse(buf, channel) = <<>>
      \/ \E mm : gat_2004_parse(buf, channel) = <<Record2004(buf, mm)>>
  BY DEF gat_2004_parse
<1>5. \/ gat_2014_parse(buf, channel) = <<>>
      \/ \E mm : gat_2014_parse(buf, channel) = <<Record2014(buf, mm)>>
  BY DEF gat_2014_parse
<1>6. \/ Parsed(buf) = <<>>
      \/ Parsed(buf) = gat_2004_parse(buf, channel)
      \/ Parsed(buf) = gat_2014_parse(buf, channel)
  BY DEF Parsed
<1> QED
  BY <1>2, <1>3, <1>4, <1>5, <1>6

\* What is posted is right for what was meant: message by message, or one
\* zero where nothing was meant.
Right(ms, fs) ==
    \/ AllKept(ms, MeantAll(fs))
    \/ /\ MeantAll(fs) = <<>> /\ 0 \in Strays(fs)
       /\ \E r : ms = <<r>> /\ r.refresh /\ r.total = 0

\* What may come of a frame that was damaged or meant for another sign.
Loose(ms, fs) ==
    ms = <<>> \/ \E r : ms = <<r>> /\ r.refresh /\ r.total \in Strays(fs)

LEMMA StraysOfOne ==
    ASSUME NEW S, NEW fs \in Seq(S), Len(fs) = 1, fs[1].protocol # "GeLinWei",
           Comm, config_init.protocol = 0
    PROVE  /\ 0 \in Strays(fs)
           /\ Addressed(fs[1]) => Meant(fs[1]).total \in Strays(fs)
<1>1. 1 \in DOMAIN fs /\ Speaks(fs[1])
  BY DEF Speaks
<1> QED
  BY <1>1, Zenon DEF Strays

Sensible(ms, fs) ==
    /\ Len(ms) \in Nat /\ Len(ms) <= Len(fs)
    /\ ms \in Seq(Messages) /\ \A k \in 1 .. Len(ms) : Shown(ms[k])

\* Nothing, or one message.
LEMMA PostedFew ==
    ASSUME NEW fs, Len(fs) \in Nat, Len(fs) >= 1
    PROVE  /\ Sensible(<<>>, fs)
           /\ \A r : Shown(r) => Sensible(<<r>>, fs)
<1>1. Sensible(<<>>, fs)
  BY DEF Sensible
<1>2. ASSUME NEW r, Shown(r) PROVE Sensible(<<r>>, fs)
  <2>1. r \in Messages
    BY <1>2 DEF Shown
  <2> HIDE DEF Messages
  <2>2. <<r>> \in Seq(Messages) /\ Len(<<r>>) = 1 /\ <<r>>[1] = r
    BY <2>1
  <2>3. \A k \in 1 .. 1 : k = 1
    OBVIOUS
  <2> QED
    BY <1>2, <2>2, <2>3 DEF Sensible
<1> QED
  BY <1>1, <1>2

LEMMA RightNothing ==
    ASSUME NEW fs, MeantAll(fs) = <<>>
    PROVE  Right(<<>>, fs)
  BY DEF Right, AllKept

\* The first record for this sign is one of the records.
LEMMA RecordMeant ==
    ASSUME NEW f, NEW R, f.records \in Seq(R), Addressed(f)
    PROVE  f.records[Min(ForMe(f))] \in R
<1>1. ForMe(f) # {} /\ ForMe(f) \in SUBSET (DOMAIN f.records)
  BY DEF Addressed, ForMe
<1>2. DOMAIN f.records \in SUBSET Nat
  OBVIOUS
<1>3. Min(ForMe(f)) \in ForMe(f)
  BY <1>1, <1>2, MinIsLeast
<1>4. Min(ForMe(f)) \in DOMAIN f.records
  BY <1>1, <1>3
<1> QED
  BY <1>4

\* What keeps a message is one.
LEMMA KeptShown ==
    ASSUME NEW f, IsGeLin(f), Addressed(f), NEW m, Keeps(m, Meant(f))
    PROVE  Shown(m)
<1> DEFINE w == Meant(f)
           r == f.records[Min(ForMe(f))]
<1>1. f.records \in Seq(RecordsGeLin)
  BY DEF IsGeLin
<1>2. r \in RecordsGeLin
  BY <1>1, RecordMeant
<1>3. r.colour \in Colours /\ r.blink \in BOOLEAN
  BY <1>2 DEF RecordsGeLin
<1>4. /\ w.protocol = "GeLinWei" /\ w.colour = r.colour /\ w.blink = r.blink
      /\ w.auto \in BOOLEAN /\ w.cmd \in {"none", "off", "H"} /\ w.refresh \in BOOLEAN
  BY MeantFields DEF IsGeLin
<1> HIDE DEF r, w
<1>5. /\ m = [protocol |-> w.protocol, colour |-> w.colour, total |-> m.total,
              auto |-> w.auto, blink |-> w.blink, cmd |-> w.cmd,
              refresh |-> w.refresh]
      /\ m.total \in Words16
  BY KeptFields DEF w
<1>6. m.total \in Nat
  BY <1>5, WordsAreNumbers
<1>7. m \in Messages
  BY <1>3, <1>4, <1>5, <1>6 DEF Messages
<1>8. m.protocol = "GeLinWei"
  BY <1>4, <1>5
<1> QED
  BY <1>5, <1>7, <1>8 DEF Shown

\* A frame of a national protocol means a number of its own.
LEMMA NationalKept ==
    ASSUME NEW f, IsNational(f), Addressed(f)
    PROVE  Keeps(Meant(f), Meant(f))
<1> DEFINE w == Meant(f)
           r == f.records[Min(ForMe(f))]
           t == w.total
           x == [protocol |-> f.protocol, colour |-> r.colour, total |-> r.total,
                 auto |-> f.auto, blink |-> r.blink, cmd |-> f.cmd,
                 refresh |-> f.refresh]
<1>1. f.records \in Seq(NationalRecord)
  BY DEF IsNational, Records2004, Records2014
<1>2. r \in NationalRecord
  BY <1>1, RecordMeant
<1>3. r.total \in Words16
  <2> HIDE DEF r
  <2> DEFINE y == r.total
  <2>1. y \in FourDigits
    BY <1>2, RecordFields
  <2> HIDE DEF y
  <2>2. y \in Words16
    BY <2>1, FoursAreWords, Zenon
  <2> QED
    BY <2>2 DEF y
<1>4. w = x
  BY DEF Meant
<1> HIDE DEF r, w
<1>5. /\ w.total = r.total /\ w.refresh = TRUE /\ w.protocol = f.protocol
      /\ w.protocol # "GeLinWei"
  BY <1>4 DEF IsNational
<1>6. t \in Words16
  BY <1>3, <1>5
<1>7. w = [w EXCEPT !.total = t]
  <2>1. [x EXCEPT !.total = x.total] = x
    OBVIOUS
  <2> HIDE DEF x
  <2> QED
    BY <1>4, <2>1, Zenon
<1>8. SameNumber(t, w.protocol, w.total)
  BY <1>5 DEF SameNumber
<1> HIDE DEF t
<1>9. t = w.total
  BY DEF t
<1> QED
  BY <1>5, <1>6, <1>7, <1>8, <1>9, Zenon DEF Keeps, w

\* What a national frame becomes on the line.
LEMMA NationalBytes ==
    ASSUME NEW f, IsNational(f)
    PROVE  Bytes(f) \in Seq(Bytes8) /\ Len(Bytes(f)) >= 4
<1>1. CASE f.protocol = "GAT2004"
  <2>1. /\ f.auto \in BOOLEAN /\ f.records \in Seq(Records2004)
        /\ Len(f.records) >= 1 /\ "raw" \notin DOMAIN f
    BY <1>1 DEF IsNational
  <2>2. Bytes(f) = Bytes2004(f)
    BY <1>1, <2>1 DEF Bytes
  <2>3. Bytes2004(f) \in Seq(Bytes8) /\ Len(Bytes2004(f)) = 5 * Len(f.records)
    BY <2>1, Sent2004
  <2>4. Len(f.records) \in Nat
    BY <2>1
  <2> QED
    BY <2>1, <2>2, <2>3, <2>4
<1>2. CASE f.protocol = "GAT2014"
  <2>1. /\ f.records \in Seq(Records2014) /\ Len(f.records) <= 255
        /\ "raw" \notin DOMAIN f
    BY <1>2 DEF IsNational
  <2>2. Bytes(f) = Bytes2014(f)
    BY <1>2, <2>1 DEF Bytes
  <2>3. Bytes2014(f) \in Seq(Bytes8) /\ Len(Bytes2014(f)) = 2 * Len(f.records) + 4
    BY <2>1, Sent2014
  <2>4. Len(f.records) \in Nat
    BY <2>1
  <2> QED
    BY <2>2, <2>3, <2>4
<1> QED
  BY <1>1, <1>2 DEF IsNational

\* One whole national frame.
LEMMA WholeNational ==
    ASSUME NEW h \in Handed, h[2] = <<0, 0>>, NEW S, h[1] \in Seq(S), Len(h[1]) = 1,
           IsNational(h[1][1]), Heads(Line[h]) = {}, Settled
    PROVE  /\ Line[h] # <<>>
           /\ Sensible(Parsed(Line[h]), h[1])
           /\ Right(Parsed(Line[h]), h[1])
<1> DEFINE f     == h[1][1]
           buf   == Bytes(f)
           fs    == h[1]
           ms    == Parsed(Line[h])
           meant == MeantAll(fs)
<1>1. buf \in Seq(Bytes8) /\ Len(buf) >= 4
  BY NationalBytes
<1>2. Line[h] = buf
  <2> DEFINE s == [k \in 1 .. Len(h[1]) |-> Bytes(h[1][k])]
  <2>1. /\ \A k \in 1 .. Len(h[1]) : Bytes(h[1][k]) \in Seq(Nat)
        /\ Len(Bytes(h[1][1])) >= 1 /\ Bytes(h[1][1])[1] \in Bytes8
    <3>1. \A k \in 1 .. Len(h[1]) : k = 1
      OBVIOUS
    <3>2. buf \in Seq(Nat) /\ Len(buf) >= 1 /\ buf[1] \in Bytes8
      BY <1>1, BytesAreNumbers
    <3> QED
      BY <3>1, <3>2
  <2>2. Len(h[1]) >= 1
    OBVIOUS
  <2>3. PICK F : Behind(s, F) /\ Line[h] = F[Len(h[1])]
    BY <2>1, <2>2, WholeLine
  <2>4. F = [i \in 1 .. Len(s) |-> IF i = 1 THEN s[i] ELSE F[i - 1] \o s[i]]
    BY <2>3 DEF Behind
  <2>5. Len(s) = 1 /\ s[1] = buf
    OBVIOUS
  <2> HIDE DEF s, buf
  <2>6. F[1] = s[1]
    BY <2>4, <2>5
  <2> QED
    BY <2>3, <2>5, <2>6
<1>3. Len(fs) = 1 /\ fs \in Seq(S) /\ fs[1] = f
  OBVIOUS
<1>4. /\ meant = IF Addressed(f) THEN meant ELSE <<>>
      /\ Addressed(f) => Len(meant) = 1 /\ meant[1] = Meant(f)
  BY <1>3, MeantOfOne
<1>5. f.protocol # "GeLinWei"
  BY DEF IsNational
<1>6. ASSUME ms = <<>>, ~Addressed(f)
      PROVE  Sensible(ms, fs) /\ Right(ms, fs)
  <2>1. meant = <<>>
    BY <1>4, <1>6
  <2> HIDE DEF ms, fs, f
  <2> QED
    BY <1>3, <1>6, <2>1, PostedFew, RightNothing
<1>7. CASE ~Comm
  <2>1. ms = <<>> /\ ~Addressed(f)
    BY <1>7 DEF Parsed, Addressed
  <2> QED
    BY <1>1, <1>2, <1>6, <2>1
<1>8. CASE Comm /\ config_init.protocol = 1
  <2>1. ms = <<>>
    BY <1>8, NoHead
  <2>2. ~Addressed(f)
    BY <1>8 DEF Addressed, Speaks, IsNational
  <2> QED
    BY <1>1, <1>2, <1>6, <2>1, <2>2
<1>9. CASE Comm /\ config_init.protocol = 0
  <2>1. IF Addressed(f) THEN ms = <<Meant(f)>>
        ELSE ms = <<>> \/ \E r : ms = <<r>> /\ r.total = 0
    <3>1. CASE f.protocol = "GAT2004"
      <4>1. /\ f.auto \in BOOLEAN /\ f.records \in Seq(Records2004)
            /\ f.cmd = "none" /\ f.refresh = TRUE /\ "raw" \notin DOMAIN f
        BY <3>1 DEF IsNational
      <4>2. buf = Bytes2004(f)
        BY <3>1, <4>1 DEF Bytes
      <4> HIDE DEF f
      <4>3. LET posted == Parsed(Bytes2004(f)) IN
            IF Addressed(f) THEN posted = <<Meant(f)>>
            ELSE posted = <<>> \/ \E r : posted = <<r>> /\ r.colour = "dark" /\ r.total = 0
        BY <1>9, <3>1, <4>1, AsSent2004
      <4> HIDE DEF buf
      <4> QED
        BY <1>2, <4>2, <4>3
    <3>2. CASE f.protocol = "GAT2014"
      <4>1. /\ f.auto = FALSE /\ f.records \in Seq(Records2014) /\ Len(f.records) <= 255
            /\ f.cmd = "none" /\ f.refresh = TRUE /\ "raw" \notin DOMAIN f
        BY <3>2 DEF IsNational
      <4>2. buf = Bytes2014(f)
        BY <3>2, <4>1 DEF Bytes
      <4> HIDE DEF f
      <4>3. LET posted == Parsed(Bytes2014(f)) IN
            IF Addressed(f) THEN posted = <<Meant(f)>>
            ELSE posted = <<>> \/ \E r : posted = <<r>> /\ r.total = 0
        BY <1>9, <3>2, <4>1, AsSent2014
      <4> HIDE DEF buf
      <4> QED
        BY <1>2, <4>2, <4>3
    <3> QED
      BY <3>1, <3>2 DEF IsNational
  <2>2. ms = <<>> \/ \E r : ms = <<r>> /\ Shown(r) /\ r.refresh
    <3>1. config_init.protocol # 1
      BY <1>9
    <3> HIDE DEF buf
    <3> QED
      BY <1>1, <1>2, <3>1, NationalPosts
  <2>3. CASE Addressed(f)
    <3>1. ms = <<Meant(f)>> /\ Len(meant) = 1 /\ meant[1] = Meant(f)
      BY <1>4, <2>1, <2>3
    <3>2. Keeps(Meant(f), Meant(f))
      BY <2>3, NationalKept
    <3> HIDE DEF ms, meant, f, fs
    <3>3. Len(ms) = 1 /\ ms[1] = Meant(f)
      BY <3>1
    <3>4. \A k \in 1 .. 1 : k = 1
      OBVIOUS
    <3>5. AllKept(ms, meant)
      <4>1. ms = [k \in 1 .. 1 |-> ms[k]]
        BY <3>1
      <4> QED
        BY <3>1, <3>2, <3>3, <3>4, <4>1 DEF AllKept
    <3>6. PICK r : ms = <<r>> /\ Shown(r)
      BY <2>2, <3>3
    <3>7. Sensible(ms, fs)
      BY <1>3, <3>6, PostedFew
    <3> QED
      BY <1>1, <1>2, <3>5, <3>7 DEF Right, ms, meant, fs
  <2>4. CASE ~Addressed(f) /\ ms # <<>>
    <3>1. meant = <<>>
      BY <1>4, <2>4
    <3>2. PICK r : ms = <<r>> /\ r.total = 0
      BY <2>1, <2>4
    <3>3. PICK q : ms = <<q>> /\ Shown(q) /\ q.refresh
      BY <2>2, <2>4
    <3>7. 0 \in Strays(fs)
      BY <1>3, <1>5, <1>9, StraysOfOne
    <3> HIDE DEF ms, meant, f, fs
    <3>4. r = q
      BY <3>2, <3>3
    <3>5. Sensible(ms, fs)
      BY <1>3, <3>3, PostedFew
    <3>6. Right(ms, fs)
      BY <3>1, <3>2, <3>3, <3>4, <3>7 DEF Right, meant
    <3> QED
      BY <1>1, <1>2, <3>5, <3>6 DEF ms, meant, fs
  <2> QED
    BY <1>1, <1>2, <1>6, <2>3, <2>4
<1> QED
  BY <1>7, <1>8, <1>9 DEF Settled

\* What a frame of GeLinWei becomes on the line.
LEMMA GeLinBytes ==
    ASSUME NEW f, IsGeLin(f)
    PROVE  /\ Bytes(f) = BytesGeLin(f)
           /\ Bytes(f) \in Seq(Nat) /\ Len(Bytes(f)) > 9 /\ Bytes(f)[1] = \h2c
<1> DEFINE F   == BytesGeLin(f)
           org == Information(f)
           n   == Len(f.records)
<1>0. /\ f.protocol = "GeLinWei" /\ ~f.clear /\ "raw" \notin DOMAIN f
      /\ f.dir \in Bytes8 /\ f.cmd \in {"none", "off", "H"}
      /\ f.auto \in BOOLEAN /\ f.refresh \in BOOLEAN
      /\ f.records \in Seq(RecordsGeLin) /\ Len(f.records) >= 1
      /\ f.keyB \in Bytes8 /\ f.keyC \in Bytes8
  BY DEF IsGeLin
<1>1. org \in Seq(Bytes8) /\ Len(org) = 4 * n + 6
  BY <1>0, InfoBytes
<1>2. Len(org) >= 7
  <2>1. n \in Nat /\ n >= 1
    BY <1>0
  <2> HIDE DEF n, org
  <2> QED
    BY <1>1, <2>1
<1>3. F \in Seq(Nat) /\ Len(F) > 9 /\ \A i \in 0 .. 3 : At(F, i) = \h2c
  BY <1>0, <1>1, <1>2, Deciphered
<1>4. Bytes(f) = F
  BY <1>0 DEF Bytes
<1> HIDE DEF F
<1>5. F[1] = \h2c
  <2>1. At(F, 0) = \h2c
    BY <1>3
  <2>2. Len(F) \in Nat /\ DOMAIN F = 1 .. Len(F)
    BY <1>3
  <2>3. 0 + 1 = 1 /\ 1 \in DOMAIN F
    BY <1>3, <2>2
  <2> QED
    BY <2>1, <2>3 DEF At
<1> QED
  BY <1>3, <1>4, <1>5 DEF F

\* Frames of GeLinWei, one behind the other.
LEMMA WholeGeLin ==
    ASSUME NEW h \in Handed, h[2] = <<0, 0>>, NEW S, h[1] \in Seq(S), Len(h[1]) >= 1,
           \A k \in 1 .. Len(h[1]) : IsGeLin(h[1][k]),
           Cardinality(Heads(Line[h])) = Len(h[1]), Settled
    PROVE  /\ Line[h] # <<>>
           /\ Sensible(Parsed(Line[h]), h[1])
           /\ Right(Parsed(Line[h]), h[1])
<1> DEFINE fs    == h[1]
           n     == Len(fs)
           s     == [k \in 1 .. n |-> BytesGeLin(fs[k])]
           buf   == Line[h]
           ms    == Parsed(buf)
           meant == MeantAll(fs)
<1>1. n \in Nat /\ n >= 1 /\ fs \in Seq(S) /\ \A k \in 1 .. n : IsGeLin(fs[k])
  OBVIOUS
<1>2. \A k \in 1 .. n : /\ Bytes(fs[k]) = BytesGeLin(fs[k]) /\ Bytes(fs[k]) \in Seq(Nat)
                        /\ Len(Bytes(fs[k])) > 9 /\ Bytes(fs[k])[1] = \h2c
  <2> HIDE DEF n, fs
  <2> QED
    BY <1>1, GeLinBytes
<1>3. \E F : Behind(s, F) /\ buf = F[n]
  <2>1. 1 \in 1 .. n /\ \h2c \in Bytes8
    BY <1>1 DEF Bytes8
  <2>2. \A L \in Nat : L > 9 => L >= 1
    OBVIOUS
  <2>3. Len(Bytes(fs[1])) \in Nat /\ Len(Bytes(fs[1])) > 9 /\ Bytes(fs[1])[1] \in Bytes8
    BY <1>2, <2>1
  <2>4. [k \in 1 .. n |-> Bytes(fs[k])] = s
    BY <1>2
  <2>5. LET t == [k \in 1 .. Len(h[1]) |-> Bytes(h[1][k])] IN
        \E F : Behind(t, F) /\ Line[h] = F[Len(h[1])]
    BY <1>1, <1>2, <2>2, <2>3, WholeLine
  <2> HIDE DEF s
  <2> QED
    BY <2>4, <2>5
<1>4. PICK F : Behind(s, F) /\ buf = F[n]
  BY <1>3
<1>5. /\ Len(s) = n /\ s \in Seq(Seq(Nat))
      /\ Len(s[1]) > 9 /\ s[1][1] = \h2c
  BY <1>1, <1>2
<1> HIDE DEF s, n
<1>6. Len(buf) \in Nat /\ Len(buf) > 9 /\ buf[1] = \h2c /\ buf \in Seq(Nat)
  <2>1. Laid(s, F)
    BY <1>4, <1>5, Behinds
  <2>2. 1 \in 1 .. n /\ n \in 1 .. n
    BY <1>1
  <2>3. /\ F[1] \in Seq(Nat) /\ F[n] \in Seq(Nat) /\ Len(F[1]) <= Len(F[n])
        /\ \A j \in 1 .. Len(F[1]) : F[n][j] = F[1][j]
    BY <1>5, <2>1, <2>2 DEF Laid
  <2>4. F[1] = s[1]
    <3>1. F = [i \in 1 .. n |-> IF i = 1 THEN s[i] ELSE F[i - 1] \o s[i]]
      BY <1>4, <1>5 DEF Behind
    <3> QED
      BY <2>2, <3>1
  <2>5. Len(F[1]) \in Nat /\ Len(F[n]) \in Nat /\ Len(F[1]) > 9
    BY <1>5, <2>3, <2>4, SMTT(30)
  <2>6. Len(F[n]) > 9 /\ 1 \in 1 .. Len(F[1])
    BY <2>3, <2>5
  <2>7. F[n][1] = F[1][1]
    BY <2>3, <2>6
  <2> HIDE DEF buf
  <2> QED
    BY <1>4, <1>5, <2>3, <2>4, <2>5, <2>6, <2>7
<1> HIDE DEF buf
<1>7. buf # <<>>
  BY <1>6
<1>8. At(buf, 0) = \h2c
  <2>1. DOMAIN buf = 1 .. Len(buf) /\ 0 + 1 = 1 /\ 1 \in 1 .. Len(buf)
    BY <1>6
  <2> QED
    BY <1>6, <2>1 DEF At
<1>9. \A k \in 1 .. n : fs[k].protocol = "GeLinWei"
  BY <1>1 DEF IsGeLin
<1>10. ASSUME ms = <<>>, \A k \in 1 .. n : ~Addressed(fs[k])
       PROVE  Sensible(ms, fs) /\ Right(ms, fs)
  <2>1. meant = <<>>
    BY <1>1, <1>10, MeantIfMine DEF n
  <2> HIDE DEF ms, fs
  <2> QED
    BY <1>1, <1>10, <2>1, PostedFew, RightNothing DEF n
<1>11. CASE ~Comm
  <2>1. ms = <<>> /\ \A k \in 1 .. n : ~Addressed(fs[k])
    BY <1>11 DEF Parsed, Addressed
  <2> QED
    BY <1>7, <1>10, <2>1 DEF buf
<1>12. CASE Comm /\ config_init.protocol = 0
  <2>1. ms = <<>>
    BY <1>8, <1>12 DEF Parsed
  <2>2. \A k \in 1 .. n : ~Addressed(fs[k])
    BY <1>9, <1>12 DEF Addressed, Speaks
  <2> QED
    BY <1>7, <1>10, <2>1, <2>2 DEF buf
<1>13. CASE Comm /\ config_init.protocol = 1
  <2>1. AllKept(ms, meant)
    <3>1. config_init.singal_direction \in \hc0 .. \hcf
      BY <1>13 DEF Settled
    <3>2. Cardinality(Heads(F[Len(fs)])) = Len(fs)
      BY <1>4 DEF n, buf
    <3>3. Behind([k \in 1 .. Len(fs) |-> BytesGeLin(fs[k])], F)
      BY <1>4 DEF s, n
    <3>4. AllKept(Parsed(F[Len(fs)]), MeantAll(fs))
      <4>1. fs \in Seq(S) /\ Len(fs) >= 1 /\ \A k \in 1 .. Len(fs) : IsGeLin(fs[k])
        BY <1>1 DEF n
      <4> HIDE DEF fs, ms, meant
      <4> QED
        BY <1>13, <3>1, <3>2, <3>3, <4>1, BurstParsed
    <3> QED
      BY <1>4, <3>4 DEF n
  <2>2. /\ IsFiniteSet(MineIn(fs)) /\ Len(meant) = Cardinality(MineIn(fs)) /\ Len(meant) \in Nat
        /\ \A i \in 1 .. Len(meant) :
              /\ NthIn(MineIn(fs), i) \in MineIn(fs)
              /\ meant[i] = Meant(fs[NthIn(MineIn(fs), i)])
    BY <1>1, MeantBySome
  <2>3. Len(meant) <= n
    <3>1. MineIn(fs) \in SUBSET (1 .. n)
      BY DEF MineIn, n
    <3>2. IsFiniteSet(1 .. n) /\ Cardinality(1 .. n) = n
      <4>1. 1 \in Int /\ n \in Int
        BY <1>1
      <4>2. IsFiniteSet(1 .. n) /\ Cardinality(1 .. n) = IF 1 > n THEN 0 ELSE n - 1 + 1
        BY <4>1, FS_Interval
      <4> QED
        BY <1>1, <4>2
    <3>3. Cardinality(MineIn(fs)) <= Cardinality(1 .. n)
      BY <3>1, <3>2, FS_Subset
    <3> QED
      BY <2>2, <3>2, <3>3
  <2> HIDE DEF ms, meant
  <2>4. /\ Len(ms) = Len(meant) /\ ms = [k \in 1 .. Len(meant) |-> ms[k]]
        /\ \A k \in 1 .. Len(ms) : Keeps(ms[k], meant[k])
    BY <2>1 DEF AllKept
  <2>5. ASSUME NEW k \in 1 .. Len(ms) PROVE Shown(ms[k])
    <3>1. k \in 1 .. Len(meant) /\ Keeps(ms[k], meant[k])
      BY <2>4
    <3>2. PICK i \in MineIn(fs) : meant[k] = Meant(fs[i])
      BY <2>2, <3>1
    <3>3. IsGeLin(fs[i]) /\ Addressed(fs[i])
      BY <1>1, <3>2 DEF MineIn, n
    <3> HIDE DEF fs
    <3> QED
      BY <3>1, <3>2, <3>3, KeptShown
  <2>6. ms \in Seq(Messages)
    <3>1. \A k \in 1 .. Len(meant) : ms[k] \in Messages
      BY <2>4, <2>5 DEF Shown
    <3>2. [k \in 1 .. Len(meant) |-> ms[k]] \in Seq(Messages)
      <4> HIDE DEF Messages
      <4> QED
        BY <2>2, <3>1
    <3> QED
      BY <2>4, <3>2
  <2>7. Sensible(ms, fs)
    BY <1>1, <2>2, <2>3, <2>4, <2>5, <2>6 DEF Sensible, n
  <2>8. Right(ms, fs)
    BY <2>1 DEF Right, meant
  <2> QED
    BY <1>7, <2>7, <2>8 DEF buf, ms, meant
<1> QED
  BY <1>11, <1>12, <1>13 DEF Settled

\* A national frame with a damaged byte.
LEMMA HurtPosts ==
    ASSUME NEW h \in Handed, h[2][2] # 0, NEW S, h[1] \in Seq(S), Len(h[1]) = 1,
           h[1][1].protocol # "GeLinWei", Settled
    PROVE  /\ Line[h] # <<>>
           /\ Sensible(Parsed(Line[h]), h[1])
           /\ Loose(Parsed(Line[h]), h[1])
<1> DEFINE fs == h[1]
           ms == Parsed(Line[h])
<1>1. Exposed(h) /\ Heads(Line[h]) = {}
  <2>1. Exposed(h)
    BY HandedAssumption
  <2> QED
    BY <2>1 DEF Exposed
<1>2. Line[h] \in Seq(Bytes8) /\ Line[h] # <<>>
  BY <1>1, SomethingArrives
<1>3. ms = <<>> \/ \E r : ms = <<r>> /\ Shown(r) /\ r.refresh /\ r.total \in Strays(fs)
  <2>1. CASE ~Comm
    BY <2>1 DEF Parsed
  <2>2. CASE Comm /\ config_init.protocol = 1
    BY <1>1, <2>2, NoHead
  <2>3. CASE Comm /\ config_init.protocol = 0
    <3>1. config_init.protocol # 1
      BY <2>3
    <3>2. ms = <<>> \/ \E r : ms = <<r>> /\ Shown(r) /\ r.refresh
      BY <1>2, <3>1, NationalPosts
    <3>3. \A k \in 1 .. Len(ms) :
             DarkZero(ms[k]) \/ (Addressed(fs[1]) /\ ms[k] = Meant(fs[1]))
      BY <1>1, <2>3, Harmless
    <3>4. 0 \in Strays(fs) /\ (Addressed(fs[1]) => Meant(fs[1]).total \in Strays(fs))
      BY <2>3, StraysOfOne
    <3> HIDE DEF ms, fs
    <3>5. ASSUME NEW r, ms = <<r>> PROVE r.total \in Strays(fs)
      <4>1. 1 \in 1 .. Len(ms) /\ ms[1] = r
        BY <3>5
      <4> QED
        BY <3>3, <3>4, <4>1 DEF DarkZero
    <3> QED
      BY <3>2, <3>5
  <2> QED
    BY <2>1, <2>2, <2>3 DEF Settled
<1>4. Len(fs) \in Nat /\ Len(fs) >= 1
  OBVIOUS
<1> HIDE DEF ms, fs
<1>5. Sensible(ms, fs)
  BY <1>3, <1>4, PostedFew
<1>6. Loose(ms, fs)
  BY <1>3 DEF Loose
<1> QED
  BY <1>2, <1>5, <1>6 DEF ms, fs

\* All of it.
Usual == \A h \in Handed : IF h[2][2] = 0 THEN Whole(h) ELSE Hurt(h)

LEMMA HandedPosts ==
    ASSUME Usual, NEW h \in Handed, Settled
    PROVE  /\ Line[h] # <<>> /\ Len(h[1]) \in Nat /\ Len(h[1]) >= 1
           /\ \E S : h[1] \in Seq(S)
           /\ Sensible(Parsed(Line[h]), h[1])
           /\ IF h[2][2] = 0 THEN Right(Parsed(Line[h]), h[1])
                             ELSE Loose(Parsed(Line[h]), h[1])
<1>1. CASE h[2][2] # 0
  <2>1. Hurt(h)
    BY <1>1 DEF Usual
  <2>2. PICK S : h[1] \in Seq(S)
    BY <2>1 DEF Hurt
  <2>3. Len(h[1]) = 1 /\ h[1][1].protocol # "GeLinWei"
    BY <2>1 DEF Hurt
  <2>4. /\ Line[h] # <<>> /\ Sensible(Parsed(Line[h]), h[1])
        /\ Loose(Parsed(Line[h]), h[1])
    BY <1>1, <2>2, <2>3, HurtPosts
  <2> QED
    BY <1>1, <2>2, <2>3, <2>4
<1>2. CASE h[2][2] = 0
  <2>1. Whole(h)
    BY <1>2 DEF Usual
  <2>2. PICK S : h[1] \in Seq(S)
    BY <2>1 DEF Whole
  <2>3. h[2] = <<0, 0>>
    BY <2>1 DEF Whole
  <2>4. Len(h[1]) \in Nat
    BY <2>2
  <2>5. CASE Len(h[1]) = 1 /\ IsNational(h[1][1]) /\ Heads(Line[h]) = {}
    BY <2>2, <2>3, <2>4, <2>5, WholeNational
  <2>6. CASE /\ Len(h[1]) >= 1 /\ \A k \in 1 .. Len(h[1]) : IsGeLin(h[1][k])
             /\ Cardinality(Heads(Line[h])) = Len(h[1])
    BY <2>2, <2>3, <2>4, <2>6, WholeGeLin
  <2> QED
    BY <2>1, <2>5, <2>6 DEF Whole
<1> QED
  BY <1>1, <1>2

-----------------------------------------------------------------------------
(***************************************************************************)
(* The numbers.  cur_tmp is the last total that was sent to this sign, or  *)
(* one of the strays that came since, as far as the panel can tell.        *)
(***************************************************************************)
Near(c, l) == c = l \/ (l >= 100 /\ c > 199)

Known(c, l, strays) == \E x \in {l} \cup strays : Near(c, x)

\* What is posted as it was meant, field by field.
LEMMA KeptAll ==
    ASSUME NEW R, NEW fs \in Seq(R), NEW ms, AllKept(ms, MeantAll(fs))
    PROVE  LET meant == MeantAll(fs) IN
           /\ Len(meant) \in Nat /\ Len(ms) = Len(meant)
           /\ \A k \in 1 .. Len(ms) :
                 /\ ms[k].refresh = meant[k].refresh
                 /\ \A field \in {"protocol", "colour", "auto", "blink", "cmd"} :
                       ms[k][field] = meant[k][field]
                 /\ meant[k].refresh =>
                       SameNumber(ms[k].total, meant[k].protocol, meant[k].total)
                 /\ \E i \in 1 .. Len(fs) : meant[k].refresh = fs[i].refresh
<1> DEFINE meant == MeantAll(fs)
<1>1. /\ Len(meant) \in Nat
      /\ \A i \in 1 .. Len(meant) :
            /\ NthIn(MineIn(fs), i) \in MineIn(fs)
            /\ meant[i] = Meant(fs[NthIn(MineIn(fs), i)])
  BY MeantBySome
<1>2. Len(ms) = Len(meant) /\ \A k \in 1 .. Len(ms) : Keeps(ms[k], meant[k])
  BY DEF AllKept
<1> HIDE DEF meant
<1>3. ASSUME NEW k \in 1 .. Len(ms)
      PROVE  /\ ms[k].refresh = meant[k].refresh
             /\ \A field \in {"protocol", "colour", "auto", "blink", "cmd"} :
                   ms[k][field] = meant[k][field]
             /\ meant[k].refresh =>
                   SameNumber(ms[k].total, meant[k].protocol, meant[k].total)
             /\ \E i \in 1 .. Len(fs) : meant[k].refresh = fs[i].refresh
  <2>1. k \in 1 .. Len(meant) /\ Keeps(ms[k], meant[k])
    BY <1>2
  <2>2. PICK i \in MineIn(fs) : meant[k] = Meant(fs[i])
    BY <1>1, <2>1
  <2>3. i \in 1 .. Len(fs)
    BY DEF MineIn
  <2> DEFINE m == ms[k]
             w == meant[k]
             f == fs[i]
  <2>4. w = Meant(f) /\ Keeps(m, Meant(f))
    BY <2>1, <2>2
  <2> HIDE DEF m, w, f
  <2>5. /\ m.refresh = w.refresh
        /\ \A field \in {"protocol", "colour", "auto", "blink", "cmd"} :
              m[field] = w[field]
        /\ w.refresh => SameNumber(m.total, w.protocol, w.total)
        /\ w.refresh = f.refresh
    BY <2>4, KeptFields
  <2> QED
    BY <2>3, <2>5 DEF m, w, f
<1> QED
  BY <1>1, <1>2, <1>3 DEF meant

\* The number is never one that does not fit.
LEMMA NumberFits ==
    ASSUME NEW ms, NEW fs, Sensible(ms, fs), NEW c \in Words16
    PROVE  /\ Carried(ms, c)[Len(ms)] \in Words16
           /\ \A k \in 1 .. Len(ms) :
                 ms[k].refresh => Carried(ms, c)[k] = ms[k].total
           /\ (\A k \in 1 .. Len(ms) : ~ms[k].refresh) =>
                 \A k \in 0 .. Len(ms) : Carried(ms, c)[k] = c
<1>1. Len(ms) \in Nat /\ \A k \in 1 .. Len(ms) : ms[k].total \in Words16
  BY DEF Sensible, Shown
<1>2. \A k \in 0 .. Len(ms) :
         \/ /\ \A j \in 1 .. k : ~ms[j].refresh
            /\ Carried(ms, c)[k] = c
         \/ \E j \in 1 .. k : ms[j].refresh /\ Carried(ms, c)[k] = ms[j].total
  BY <1>1, CarriedIs
<1>3. \A k \in 1 .. Len(ms) : ms[k].refresh => Carried(ms, c)[k] = ms[k].total
  BY <1>1, CarriedFresh
<1>4. Carried(ms, c)[Len(ms)] \in Words16
  <2>1. Len(ms) \in 0 .. Len(ms)
    BY <1>1
  <2> QED
    BY <1>1, <1>2, <2>1, Zenon
<1>5. ASSUME \A k \in 1 .. Len(ms) : ~ms[k].refresh
      PROVE  \A k \in 0 .. Len(ms) : Carried(ms, c)[k] = c
  <2>1. \A k \in 0 .. Len(ms) : \A j \in 1 .. k : j \in 1 .. Len(ms)
    BY <1>1
  <2> QED
    BY <1>2, <1>5, <2>1, Zenon
<1> QED
  BY <1>3, <1>4, <1>5

\* Behind the last message with a number of its own all have the same.
LEMMA CarriedOn ==
    ASSUME NEW ms, Len(ms) \in Nat, NEW c, NEW k \in 1 .. Len(ms),
           \A j \in k .. Len(ms) : ~ms[j].refresh
    PROVE  Carried(ms, c)[k] = Carried(ms, c)[Len(ms)]
<1> DEFINE n        == Len(ms)
           fresh(i) == {j \in 1 .. i : ms[j].refresh}
<1>1. fresh(k) = fresh(n)
  OBVIOUS
<1>2. \A i \in 0 .. n : Carried(ms, c)[i] = IF fresh(i) = {} THEN c ELSE ms[Max(fresh(i))].total
  BY DEF Carried
<1>3. k \in 0 .. n /\ n \in 0 .. n
  OBVIOUS
<1> HIDE DEF fresh, n
<1>4. Carried(ms, c)[k] = Carried(ms, c)[n]
  BY <1>1, <1>2, <1>3, Zenon
<1> QED
  BY <1>4 DEF n

\* What is posted as it was meant leaves cur_tmp near the last total.
LEMMA NumberNear ==
    ASSUME NEW R, NEW fs \in Seq(R), NEW ms, AllKept(ms, MeantAll(fs)),
           MeantAll(fs) # <<>>, NEW c, NEW l, NEW T, Known(c, l, T)
    PROVE  LET meant == MeantAll(fs)
               l2    == Carried(meant, l)[Len(meant)]
               T2    == IF \E k \in 1 .. Len(meant) : meant[k].refresh THEN {} ELSE T
           IN Known(Carried(ms, c)[Len(ms)], l2, T2)
<1> DEFINE meant == MeantAll(fs)
           n     == Len(meant)
           x     == Carried(ms, c)[n]
           y     == Carried(meant, l)[n]
           T2    == IF \E k \in 1 .. Len(meant) : meant[k].refresh THEN {} ELSE T
<1>1. /\ n \in Nat /\ Len(ms) = n
      /\ \A k \in 1 .. n :
            /\ ms[k].refresh = meant[k].refresh
            /\ meant[k].refresh =>
                  SameNumber(ms[k].total, meant[k].protocol, meant[k].total)
  BY KeptAll
<1> HIDE DEF meant
<1>2. n \in 0 .. n
  BY <1>1
<1>3. \/ (\A j \in 1 .. n : ~ms[j].refresh) /\ x = c
      \/ \E j \in 1 .. n :
            /\ ms[j].refresh /\ \A i \in 1 .. n : ms[i].refresh => i <= j
            /\ x = ms[j].total
  <2> HIDE DEF n
  <2> QED
    BY <1>1, <1>2, CarriedIs
<1>4. \/ (\A j \in 1 .. n : ~meant[j].refresh) /\ y = l
      \/ \E j \in 1 .. n :
            /\ meant[j].refresh /\ \A i \in 1 .. n : meant[i].refresh => i <= j
            /\ y = meant[j].total
  BY <1>1, <1>2, CarriedIs
<1> HIDE DEF n, x, y
<1>5. CASE \A j \in 1 .. n : ~ms[j].refresh
  <2>1. \A j \in 1 .. n : ~meant[j].refresh
    BY <1>1, <1>5
  <2>2. x = c /\ y = l
    BY <1>3, <1>4, <1>5, <2>1
  <2>3. T2 = T
    BY <2>1 DEF n
  <2>4. Known(x, y, T2)
    BY <2>2, <2>3
  <2> QED
    BY <1>1, <2>4 DEF n, x, y, meant
<1>6. CASE ~\A j \in 1 .. n : ~ms[j].refresh
  <2>1. PICK j \in 1 .. n :
           /\ ms[j].refresh /\ \A i \in 1 .. n : ms[i].refresh => i <= j
           /\ x = ms[j].total
    BY <1>3, <1>6
  <2>2. PICK i \in 1 .. n :
           /\ meant[i].refresh /\ \A k \in 1 .. n : meant[k].refresh => k <= i
           /\ y = meant[i].total
    BY <1>1, <1>4, <2>1
  <2>3. ms[i].refresh /\ meant[j].refresh
    BY <1>1, <2>1, <2>2
  <2>4. i <= j /\ j <= i /\ i \in Int /\ j \in Int
    BY <2>1, <2>2, <2>3
  <2>5. i = j
    BY <2>4
  <2>6. SameNumber(x, meant[i].protocol, y)
    BY <1>1, <2>1, <2>2, <2>5
  <2>7. Near(x, y)
    BY <2>6, Zenon DEF SameNumber, Near
  <2>8. Known(x, y, T2)
    BY <2>7, Zenon DEF Known
  <2> QED
    BY <1>1, <2>8 DEF n, x, y, meant
<1> QED
  BY <1>5, <1>6

\* Between buffers nothing is posted; what was has the number of its own or
\* else the one that was carried.
NumberInv ==
    /\ cur_tmp \in Words16 /\ Known(cur_tmp, last, stray)
    /\ sent = <<>> => rx_buffer = <<>>
    /\ ~Parsing => posts = <<>> /\ numbers = <<>>
    /\ Parsing =>
          /\ \A k \in 1 .. Len(posts) :
                posts[k].refresh => numbers[k] = posts[k].total
          /\ \A k \in 1 .. Len(posts) :
                (\A j \in k .. Len(posts) : ~posts[j].refresh) =>
                    Known(numbers[k], last, stray)

LEMMA ArriveNumbers ==
    Usual /\ NumberInv /\ DialObeyed /\ Arrive => NumberInv'
<1> SUFFICES ASSUME Usual, NumberInv, DialObeyed, Arrive PROVE NumberInv'
  OBVIOUS
<1>1. PICK h \in Handed : rx_buffer' = Line[h] /\ sent' = h[1]
  BY DEF Arrive
<1>2. Settled
  BY SettledWhenDone DEF Arrive
<1>3. Line[h] # <<>> /\ Len(h[1]) >= 1
  BY <1>2, HandedPosts
<1>4. h[1] # <<>>
  BY <1>3
<1>5. ~Parsing /\ ~Parsing'
  BY <1>1, <1>3 DEF Parsing, Arrive
<1>6. UNCHANGED <<posts, numbers, cur_tmp, last, stray>>
  BY DEF Arrive
<1> QED
  BY <1>1, <1>3, <1>4, <1>5, <1>6 DEF NumberInv

LEMMA SubpackageNumbers ==
    Usual /\ NumberInv /\ WireInv /\ DialObeyed /\ subpackage => NumberInv'
<1> SUFFICES ASSUME Usual, NumberInv, WireInv, DialObeyed, subpackage
             PROVE  NumberInv'
  OBVIOUS
<1> DEFINE ms    == Parsed(rx_buffer)
           value == Carried(ms, cur_tmp)
           meant == MeantAll(sent)
<1>1. /\ dial = "done" /\ rx_buffer # <<>>
      /\ posts' = ms
      /\ numbers' = [k \in 1 .. Len(ms) |-> value[k]]
      /\ cur_tmp' = value[Len(ms)]
      /\ IF intact /\ meant # <<>>
         THEN /\ last' = Carried(meant, last)[Len(meant)]
              /\ stray' = IF \E k \in 1 .. Len(meant) : meant[k].refresh THEN {} ELSE stray
         ELSE last' = last /\ stray' = stray \cup Strays(sent)
      /\ rx_buffer' = <<>> /\ sent' = sent /\ intact' = intact
  BY DEF subpackage
<1>2. sent # <<>> /\ cur_tmp \in Words16 /\ Known(cur_tmp, last, stray)
  BY <1>1 DEF NumberInv
<1>3. PICK h \in Handed :
         sent = h[1] /\ (intact <=> h[2][2] = 0) /\ rx_buffer = Line[h]
  BY <1>1, <1>2 DEF WireInv
<1>4. Settled
  BY <1>1, SettledWhenDone
<1>5. /\ \E S : sent \in Seq(S)
      /\ Sensible(ms, sent)
      /\ IF intact THEN Right(ms, sent) ELSE Loose(ms, sent)
  BY <1>3, <1>4, HandedPosts
<1> HIDE DEF ms, meant
<1>6. /\ value[Len(ms)] \in Words16
      /\ \A k \in 1 .. Len(ms) : ms[k].refresh => value[k] = ms[k].total
      /\ (\A k \in 1 .. Len(ms) : ~ms[k].refresh) =>
            \A k \in 0 .. Len(ms) : value[k] = cur_tmp
  BY <1>2, <1>5, NumberFits
<1> HIDE DEF value
<1>7. Len(ms) \in Nat
  BY <1>5 DEF Sensible
<1>8. Known(value[Len(ms)], last', stray')
  <2>1. CASE intact /\ meant # <<>>
    <3>1. AllKept(ms, meant)
      BY <1>5, <2>1 DEF Right, meant
    <3>2. PICK S : sent \in Seq(S)
      BY <1>5
    <3>3. LET l2 == Carried(meant, last)[Len(meant)]
              T2 == IF \E k \in 1 .. Len(meant) : meant[k].refresh THEN {} ELSE stray
          IN Known(Carried(ms, cur_tmp)[Len(ms)], l2, T2)
      BY <1>2, <2>1, <3>1, <3>2, NumberNear DEF meant
    <3> QED
      BY <1>1, <2>1, <3>3, Zenon DEF value
  <2>2. CASE ~(intact /\ meant # <<>>)
    <3>1. last' = last /\ stray' = stray \cup Strays(sent)
      BY <1>1, <2>2
    <3>2. Loose(ms, sent)
      <4>1. CASE intact /\ AllKept(ms, meant)
        <5>1. Len(meant) = 0
          BY <2>2, <4>1
        <5>2. ms = <<>>
          BY <4>1, <5>1 DEF AllKept
        <5> QED
          BY <5>2 DEF Loose
      <4> QED
        BY <1>5, <4>1 DEF Right, Loose, meant
    <3>3. CASE ms = <<>>
      <4>1. value[Len(ms)] = cur_tmp
        BY <1>6, <3>3
      <4> QED
        BY <1>2, <3>1, <4>1 DEF Known
    <3>4. CASE ms # <<>>
      <4>1. PICK r : ms = <<r>> /\ r.refresh /\ r.total \in Strays(sent)
        BY <3>2, <3>4 DEF Loose
      <4>2. Len(ms) = 1 /\ ms[1] = r
        BY <4>1
      <4>3. value[Len(ms)] = r.total
        BY <1>6, <4>1, <4>2
      <4> QED
        BY <3>1, <4>1, <4>3 DEF Known, Near
    <3> QED
      BY <3>3, <3>4
  <2> QED
    BY <2>1, <2>2
<1>13. \A k \in 1 .. Len(ms) :
          (\A j \in k .. Len(ms) : ~ms[j].refresh) => value[k] = value[Len(ms)]
  BY <1>7, CarriedOn DEF value
<1>9. \A k \in 1 .. Len(ms) : numbers'[k] = value[k]
  BY <1>1
<1>10. Parsing'
  BY <1>1, <1>2 DEF Parsing
<1>11. cur_tmp' \in Words16 /\ Known(cur_tmp', last', stray')
  BY <1>1, <1>6, <1>8
<1>12. /\ \A k \in 1 .. Len(posts') :
             posts'[k].refresh => numbers'[k] = posts'[k].total
       /\ \A k \in 1 .. Len(posts') :
             (\A j \in k .. Len(posts') : ~posts'[j].refresh) =>
                 Known(numbers'[k], last', stray')
  <2> DEFINE p == posts'
             v == numbers'
             l == last'
             t == stray'
  <2>1. p = ms
    BY <1>1
  <2>2. \A k \in 1 .. Len(ms) : v[k] = value[k]
    BY <1>9
  <2>3. Known(value[Len(ms)], l, t)
    BY <1>8
  <2> HIDE DEF p, v, l, t
  <2>4. /\ \A k \in 1 .. Len(p) : p[k].refresh => v[k] = p[k].total
        /\ \A k \in 1 .. Len(p) :
              (\A j \in k .. Len(p) : ~p[j].refresh) => Known(v[k], l, t)
    BY <1>6, <1>13, <2>1, <2>2, <2>3, Zenon
  <2> QED
    BY <2>4 DEF p, v, l, t
<1> QED
  BY <1>1, <1>10, <1>11, <1>12, Zenon DEF NumberInv

LEMMA NumberStep ==
    Usual /\ NumberInv /\ WireInv /\ DialObeyed /\ [ProtoNext]_protoVars => NumberInv'
<1> SUFFICES ASSUME Usual, NumberInv, WireInv, DialObeyed, [ProtoNext]_protoVars
             PROVE  NumberInv'
  OBVIOUS
<1>1. CASE DialStep
  <2>1. /\ sent = <<>> /\ sent' = sent /\ rx_buffer' = rx_buffer
        /\ posts' = posts /\ numbers' = numbers /\ cur_tmp' = cur_tmp /\ last' = last
        /\ stray' = stray
    BY <1>1 DEF DialStep, wire
  <2>2. ~Parsing /\ ~Parsing'
    BY <2>1 DEF Parsing
  <2> QED
    BY <2>1, <2>2 DEF NumberInv
<1>2. CASE Arrive
  BY <1>2, ArriveNumbers
<1>3. CASE subpackage
  BY <1>3, SubpackageNumbers
<1>4. CASE Done
  <2>1. /\ sent' = <<>> /\ rx_buffer = <<>> /\ rx_buffer' = rx_buffer
        /\ posts' = <<>> /\ numbers' = <<>> /\ cur_tmp' = cur_tmp /\ last' = last
        /\ stray' = stray
    BY <1>4 DEF Done
  <2>2. ~Parsing'
    BY <2>1 DEF Parsing
  <2> QED
    BY <2>1, <2>2 DEF NumberInv
<1>5. CASE UNCHANGED protoVars
  <2>1. UNCHANGED <<rx_buffer, sent, intact, posts, numbers, cur_tmp, last, stray>>
    BY <1>5 DEF protoVars, wire
  <2> QED
    BY <2>1 DEF NumberInv, Parsing
<1> QED
  BY <1>1, <1>2, <1>3, <1>4, <1>5 DEF ProtoNext

\* What is seen of a buffer that has just been parsed.
LEMMA JustParsed ==
    ASSUME Usual, WireInv, DialObeyed, Parsing
    PROVE  /\ \E S : sent \in Seq(S)
           /\ Len(sent) \in Nat /\ Len(sent) >= 1
           /\ Sensible(posts, sent)
           /\ intact => Right(posts, sent)
<1>1. PICK h \in Handed :
         /\ sent = h[1] /\ (intact <=> h[2][2] = 0) /\ dial = "done"
         /\ \/ rx_buffer = Line[h]
            \/ rx_buffer = <<>> /\ posts = Parsed(Line[h])
  BY DEF WireInv, Parsing
<1>2. Settled
  BY <1>1, SettledWhenDone
<1>3. /\ Line[h] # <<>> /\ Len(h[1]) \in Nat /\ Len(h[1]) >= 1
      /\ \E S : h[1] \in Seq(S)
      /\ Sensible(Parsed(Line[h]), h[1])
      /\ h[2][2] = 0 => Right(Parsed(Line[h]), h[1])
  BY <1>2, HandedPosts
<1>4. posts = Parsed(Line[h])
  BY <1>1, <1>3 DEF Parsing
<1> QED
  BY <1>1, <1>3, <1>4

LEMMA MeantShown ==
    Usual /\ WireInv /\ DialObeyed /\ NumberInv => PostsMeant
<1> SUFFICES ASSUME Usual, WireInv, DialObeyed, NumberInv, Parsing, intact,
                    \A k \in 1 .. Len(sent) : Addressed(sent[k])
             PROVE  AsMeant
  BY DEF PostsMeant
<1> DEFINE meant == MeantAll(sent)
<1>1. Right(posts, sent) /\ Len(sent) >= 1
  BY JustParsed
<1>2. PICK S : sent \in Seq(S)
  BY JustParsed
<1>3. meant # <<>>
  BY <1>1, <1>2, MeantIfMine
<1>4. AllKept(posts, meant)
  BY <1>1, <1>3 DEF Right
<1>5. /\ Len(posts) = Len(meant)
      /\ \A k \in 1 .. Len(posts) :
            /\ posts[k].refresh = meant[k].refresh
            /\ \A field \in {"protocol", "colour", "auto", "blink", "cmd"} :
                  posts[k][field] = meant[k][field]
            /\ meant[k].refresh =>
                  SameNumber(posts[k].total, meant[k].protocol, meant[k].total)
  BY <1>2, <1>4, KeptAll
<1> HIDE DEF meant
<1>6. \A k \in 1 .. Len(posts) :
         posts[k].refresh => numbers[k] = posts[k].total
  BY DEF NumberInv
<1>7. /\ Len(posts) = Len(meant)
      /\ \A k \in 1 .. Len(meant) :
            /\ \A field \in {"protocol", "colour", "auto", "blink", "cmd"} :
                  posts[k][field] = meant[k][field]
            /\ meant[k].refresh =>
                  SameNumber(numbers[k], meant[k].protocol, meant[k].total)
  BY <1>5, <1>6
<1> QED
  BY <1>7 DEF AsMeant, meant

LEMMA CarriesShown ==
    Usual /\ WireInv /\ DialObeyed /\ NumberInv => RefreshCarries
<1> DEFINE meant == MeantAll(sent)
<1> SUFFICES ASSUME Usual, WireInv, DialObeyed, NumberInv, Parsing, intact,
                    NEW k \in DOMAIN posts \cap DOMAIN meant,
                    \A j \in k .. Len(meant) : ~meant[j].refresh
             PROVE  \E l \in {last} \cup stray :
                        numbers[k] = l \/ (l >= 100 /\ numbers[k] > 199)
  BY DEF RefreshCarries
<1>1. Right(posts, sent) /\ posts \in Seq(Messages)
  BY JustParsed DEF Sensible
<1>2. PICK S : sent \in Seq(S)
  BY JustParsed
<1>3. CASE AllKept(posts, meant)
  <2>1. /\ Len(posts) = Len(meant) /\ Len(meant) \in Nat
        /\ \A j \in 1 .. Len(posts) : posts[j].refresh = meant[j].refresh
    BY <1>2, <1>3, KeptAll
  <2>2. k \in 1 .. Len(posts)
    BY <1>1
  <2> HIDE DEF meant
  <2>3. \A j \in k .. Len(posts) : ~posts[j].refresh
    BY <2>1, <2>2
  <2>4. Known(numbers[k], last, stray)
    BY <2>2, <2>3 DEF NumberInv
  <2> QED
    BY <2>4, Zenon DEF Known, Near
<1>4. CASE ~AllKept(posts, meant)
  <2>1. meant = <<>>
    BY <1>1, <1>4 DEF Right
  <2> QED
    BY <2>1
<1> QED
  BY <1>3, <1>4

LEMMA OthersShown ==
    Usual /\ WireInv /\ DialObeyed /\ NumberInv => OthersShowNothing
<1> SUFFICES ASSUME Usual, WireInv, DialObeyed, NumberInv, Parsing, intact,
                    \A k \in 1 .. Len(sent) : ~Addressed(sent[k]),
                    NEW k \in 1 .. Len(posts)
             PROVE  posts[k].colour = "dark" \/ numbers[k] = 0
  BY DEF OthersShowNothing
<1> DEFINE meant == MeantAll(sent)
<1>1. Right(posts, sent)
  BY JustParsed
<1>2. PICK S : sent \in Seq(S)
  BY JustParsed
<1>3. meant = <<>>
  BY <1>2, MeantIfMine
<1>4. ~AllKept(posts, meant)
  <2>1. Len(meant) = 0
    BY <1>3
  <2>2. AllKept(posts, meant) => Len(posts) = 0
    BY <2>1 DEF AllKept
  <2> QED
    BY <2>2
<1>5. PICK r : posts = <<r>> /\ r.refresh /\ r.total = 0
  BY <1>1, <1>4 DEF Right
<1>6. k = 1 /\ posts[k] = r
  BY <1>5
<1>7. numbers[k] = posts[k].total
  BY <1>5, <1>6 DEF NumberInv
<1> QED
  BY <1>5, <1>6, <1>7

LEMMA TypesShown ==
    Usual /\ WireInv /\ DialObeyed /\ DialInv /\ NumberInv => ProtoTypeOK
<1> SUFFICES ASSUME Usual, WireInv, DialObeyed, DialInv, NumberInv PROVE ProtoTypeOK
  OBVIOUS
<1>1. dial \in {"first", "second", "assign", "done"}
  BY DEF DialInv
<1>2. Sensible(posts, sent)
  <2>1. CASE Parsing
    BY <2>1, JustParsed
  <2>2. CASE ~Parsing
    <3>1. posts = <<>>
      BY <2>2 DEF NumberInv
    <3>2. Len(sent) \in Nat
      <4>1. CASE sent = <<>>
        BY <4>1
      <4>2. CASE sent # <<>>
        <5>1. PICK h \in Handed : sent = h[1] /\ dial = "done"
          BY <4>2 DEF WireInv
        <5>2. Len(h[1]) \in Nat
          BY <5>1, SettledWhenDone, HandedPosts
        <5> QED
          BY <5>1, <5>2
      <4> QED
        BY <4>1, <4>2
    <3>3. Len(<<>>) <= Len(sent)
      BY <3>2
    <3> QED
      BY <3>1, <3>3 DEF Sensible
  <2> QED
    BY <2>1, <2>2
<1>3. cur_tmp \in Words16
  BY DEF NumberInv
<1>4. /\ posts \in Seq(Messages) /\ Len(posts) <= Len(sent)
      /\ \A k \in 1 .. Len(posts) : Shown(posts[k])
  BY <1>2 DEF Sensible
<1>5. \A k \in 1 .. Len(posts) :
          /\ posts[k].protocol = "GAT2014" => ~posts[k].auto
          /\ posts[k].protocol # "GeLinWei" =>
                posts[k].cmd = "none" /\ posts[k].refresh
  BY <1>4 DEF Shown
<1> QED
  BY <1>1, <1>3, <1>4, <1>5 DEF ProtoTypeOK

LEMMA NumbersAlways ==
    ASSUME Usual
    PROVE  ProtoSpec => [](WireInv /\ DialObeyed /\ NumberInv)
<1>1. ProtoInit => WireInv
  BY DEF ProtoInit, WireInv
<1>2. WireInv /\ [ProtoNext]_protoVars => WireInv'
  BY WireStep
<1>3. ProtoSpec => []WireInv
  BY <1>1, <1>2, PTL DEF ProtoSpec
<1>4. ProtoInit => NumberInv
  <2>1. 0 \in Words16
    BY Word
  <2> QED
    BY <2>1, Zenon DEF ProtoInit, NumberInv, Known, Near, Parsing
<1>5. NumberInv /\ WireInv /\ DialObeyed /\ [ProtoNext]_protoVars => NumberInv'
  BY NumberStep
<1>6. ProtoSpec => []DialObeyed
  BY SettingsAreSwitches
<1> QED
  BY <1>3, <1>4, <1>5, <1>6, PTL DEF ProtoSpec

\* Every whole burst is posted as it was meant, frame by frame and in the order
\* it was sent, to every sign, whatever was parsed before it: a national frame
\* of any number of records (GAT_508_2004.c:11-37, GAT_508_2014.c:10-38), any
\* number of enciphered frames run together, whatever their keys, records and
\* totals up to 6399 (ge_lin_wei.c:70-180).
THEOREM PostedAsMeant == Usual => (ProtoSpec => []PostsMeant)
<1> SUFFICES ASSUME Usual PROVE ProtoSpec => []PostsMeant
  OBVIOUS
<1> QED
  BY NumbersAlways, MeantShown, PTL

\* A frame without a total shows the last total that was sent whole to this
\* sign, or, if that one is, a number too large to be drawn: frames for other
\* signs of GeLinWei, any number of them, leave cur_tmp alone, and what a
\* national sign is sent, whole or damaged, can only put zero or the total meant
\* for it there (ge_lin_wei.c:132-141, GAT_508_2004.c:24, GAT_508_2014.c:26).
THEOREM NumberCarried == Usual => (ProtoSpec => []RefreshCarries)
<1> SUFFICES ASSUME Usual PROVE ProtoSpec => []RefreshCarries
  OBVIOUS
<1> QED
  BY NumbersAlways, CarriesShown, PTL

\* What is sent to other signs, or in the other protocol, never shows a number
\* here, though the searches run on behind the last record
\* (GAT_508_2004.c:16, GAT_508_2014.c:20, rcv_process.c:111-127).
THEOREM OthersDark == Usual => (ProtoSpec => []OthersShowNothing)
<1> SUFFICES ASSUME Usual PROVE ProtoSpec => []OthersShowNothing
  OBVIOUS
<1> QED
  BY NumbersAlways, OthersShown, PTL

\* Whatever arrives, whole or damaged, is posted as messages CommDisplay
\* receives, at most one for each frame, and cur_tmp fits its sixteen bits
\* (rcv_process.c:111-127, config.h:22).
THEOREM ProtocolsTypeCorrect == Usual => (ProtoSpec => []ProtoTypeOK)
<1> SUFFICES ASSUME Usual PROVE ProtoSpec => []ProtoTypeOK
  OBVIOUS
<1>1. ProtoSpec => []DialInv
  <2>1. ProtoInit => DialInv
    BY DialInitially DEF ProtoInit
  <2>2. DialInv /\ [ProtoNext]_protoVars => DialInv'
    <3>1. [ProtoNext]_protoVars => [DialNext]_dialVars
      BY DEF ProtoNext, protoVars, DialStep, Arrive, subpackage, Done
    <3> QED
      BY <3>1, DialStepInv
  <2> QED
    BY <2>1, <2>2, PTL DEF ProtoSpec
<1> QED
  BY <1>1, NumbersAlways, TypesShown, PTL
=============================================================================
