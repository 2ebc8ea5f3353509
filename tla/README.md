# A TLA+ verification of the external countdown sign

The repository is the firmware of a sign that hangs beside a traffic light and
shows how many seconds the light will stay as it is: an STM32F1 under RT-Thread,
one LED matrix, nine lamp terminals, one UART and a bank of dial switches. Its
own code is `src/外置式倒计时器/有多功能/stm32f10x-HAL_led/applications`; file names
below are relative to that directory.

## 1. Inventory

| part | code | state | operations | who calls whom |
|---|---|---|---|---|
| display thread | `countdown.c:131-441, 471-505` | local: colour of the pass; the face latched on the matrix | a pass of `rt_hw_countdown` for ever | reads the lamp, reads and writes `countdown`, sleeps in every branch but one |
| count timer | `countdown.c:28-77` | `cur_num`, `sync`, `countdown_type` | `timeout()`, every 10 ticks (100 ms), in the tick interrupt | races the display thread on `sync` and `cur_num` |
| parsers | `ge_lin_wei.c`, `GAT_508_2004.c`, `GAT_508_2014.c` | `cur_tmp` | decode a frame, post a number | run in the receiver's thread, write `countdown` |
| receiver | `rcv_process.c`, `uart_init.c` | byte buffer, counter, event | UART callback; thread that reads until silence | calls one of the parsers |
| learning thread | `study.c:94-272` | lengths, "posted" marks, timing flags | a poll every 2 ticks | reads the lamp, writes `countdown` |
| learning timer | `study.c:51-92` | counters | `timer_out()`, every 10 ticks | counts for the first flag that is set |
| dial | `dial_init.c` | `config_init` | read at start-up, and again by the shell command `rt_hw_dial_init` | read by everyone |
| glyphs | `font.h`, `countdown.c:79-130, 172-293` | tables | permute a number onto the two halves of the panel | called by the display |
| LED driver | `countdown.c:131-171` and `dispaly` | three chains of registers on one clock and one latch, OE | clock out a picture, clear, switch the outputs | called by the display |

A sign is either a *communication* sign (receiver and parsers post) or a
*learning* sign (the study thread posts). Poster, display thread and timer share
the global structure `countdown` (`config.h:9-28`) and there is no lock. Receiver
and display have one priority (20, slice of 5 ticks), the study thread has 19 and
preempts both, the timers run in the tick interrupt.

What makes this code hard:

* three actors write one structure, in orders that differ from parser to parser;
* a number is taken over by a handshake of two booleans per colour, `flag_c`
  (a new number waits) and `mode_c` (the colour has a number);
* the count is driven by an equality test (`sync == 10`) that must not be missed;
* the last second is ended by a type that the timer itself switches off and the
  display has to switch on again;
* the face must be cleared between colours, since a colour drives its own lines only;
* lengths are learned by polling a lamp that flashes, and are stored in bytes.

* the three chains of LEDs share a clock and a latch: drawing in one colour shifts
  the chains of the others too;
* frames are enciphered, with the key hidden at places the key itself names; a frame
  may be run together with the next; a damaged one must not be obeyed;
* the dial can be read again while everything runs.

What each part has to get right: the display shows the posted number in the
posted colour and no other, fresh, and goes dark in between; the matrix shows that
face and nothing else; the count takes ten expiries a second with no drift and
comes to an end; a post is taken over; the learning thread measures every phase
to the second, posts a phase exactly when it is predictable, once, at its start;
the receiver loses no byte and cuts frames where the controller paused; the
parsers find the record of this sign and decode the number that was sent; the
settings are those of the switches.

## 2. Modules

| module | models |
|---|---|
| `Sign` | what a road user may rely on: the abstract specification of the face |
| `Countdown` | display thread and `timeout()`; properties every poster must preserve |
| `CommDisplay` | a parser writing the structure field by field, with `Countdown` |
| `Study` | both learning functions, `timer_out`, and the traffic light they watch |
| `StudyDisplay` | `Study` (by `INSTANCE`) with `Countdown`, one lamp and one clock |
| `Delivery` | what the receiver promises the parsers, frame by frame: abstract specification |
| `RcvFrame` | UART interrupt, fifo, event and framing thread, and the line; implements `Delivery` |
| `Dial` | the switches, their double reading and the assignments to `config_init` |
| `GAT508`, `GeLinWei` | the parsers as functions from bytes to messages |
| `Protocols` | `Dial`, `subpackage`, the parsers and `cur_tmp`, with the controller |
| `Leds` | the driver of the matrix, call by call: abstract specification |
| `Pins` | the same driver pin write by pin write; implements `Leds` |
| `LedSign` | `CommDisplay` on top of `Leds`: the sign down to its LEDs |
| `Glyphs` | the layouts and decoders: where each point of a glyph goes |
| `MCComm`, `MCLedSign`, `MCStudyDisplay`, `MCRcv`, `MCProtocols`, `MCPins` | instances for TLC |
| `Countdown_proof`, `CommDisplay_proof`, `LedSign_proof`, `Pins_proof`, `StudyDisplay_proof`, `LearnedInTime_proof`, `RcvFrame_proof`, `Protocols_proof` | theorems |

How they stack, from the line to the eye: `RcvFrame` cuts the line into buffers,
`Protocols` turns a buffer into messages, `CommDisplay` writes a message into the
structure, `Countdown` makes a face of it, `LedSign` and `Leds` a matrix, `Pins` and
`Glyphs` points. Each module takes as its input what the one before it delivers.
Two of the joints are checked as compositions (`CommDisplay` with `Countdown`,
`CommDisplay` with `Leds`). Three modules implement a specification one level up: the
display that of the face (`Sign`), `Pins` that of the driver (`Leds`), `RcvFrame` that of
the hand-over of frames (`Delivery`). The two other joints are interfaces: `ProtoTypeOK`
says that what `Protocols` posts are messages of the form `CommDisplay` receives, and
`Protocols` is handed frames one at a time and joined ones: the first is what `Delivery`
promises of a controller that pauses, the second what happens with one that does not.

Definitions called `X_Y` under a comment "Mutant" are deliberately wrong variants
of the definition `X`; no specification uses them. `PROJECT.json` lists which
property each of them breaks.

### Countdown

The thread is a program counter `pc` with one action per access to a shared
field: `Pass` (copy of `cur_mode`, sample of the lamp), `BranchNoPost`/
`BranchPost` (test of `mode_c`), `SetType`, `TestFlag`, `Clear_Display`,
`ZeroFirst`, `ZeroSecond`, `ClearSync`, `Load`, `DropFlag`, `Show`, `OnlyRed` and
`Wake`. The three colour branches of the source are the same text but for the
place of `SetType` and the order of the two erased modes; they are one set of
actions indexed by `seen`. `timeout` is one action: it runs in the interrupt and
no thread runs inside it.

Time is counted in expiries of the 100 ms timer. A sleep of *n* ticks spans the
expiries it can span (20 ticks: 2; 50: 5; 5: none or 1); awake, the thread sees at
most `Burst` expiries before it sleeps again. A pass is some milliseconds of pin
writes, so one is generous unless other threads hog the processor; the theorems
hold for every `Burst` up to `LastSecond`, that is for awake stretches up to 0.8 s.

A face is a colour and a value here; `LedSign` goes on from there.
`Clear_Display` is a latched blank face followed by its sleep; the second half of
a blink, when the output enable line is off, is a blank face too.

### CommDisplay

A message is decoded already. `Receive` takes one when the parser is idle, and the
parser then writes one field per step in the order of the source
(`gat_2004_parse`, `gat_2014_parse`, `ge_lin_wei_parse` are these orders). Any step
of the display, the timer or the lamp may come between two writes.
One scheduling fact is kept, `owed`: the parser does not block in the middle of a
message and the display's sleeps are at least one slice long, so a message in
progress when the display falls asleep is finished before it wakes.
Messages with a colour, type or refresh code outside the protocol's tables are not
sent.

The order matters: GeLinWei and 2004 set the flag of a colour before its mode, 2014
sets the mode first.

### Study, StudyDisplay

The vehicle and the pedestrian function differ in the predecessor of a colour and
in the terminals; `Before` and `Watched` are that difference. The thread polls five
times between two expiries. A poll is one step (the thread has the highest
priority and does not block) and at least one is made between two expiries. The
light goes green, flashing green, yellow, red (`study.c:10`), phases last whole
seconds and may change from cycle to cycle; the first phase has been on for an
unknown time at power-up. `Study` has no specification of its own: it is only
checked with the display that erases the modes and flags it posts
(`StudyDisplay`, where one expiry runs both handlers).

`LightAssumption` is what the code needs of the light: green does not flash before
a poll can have noticed it, and no phase outlasts the 16-bit counter of tenths (109
minutes).

### RcvFrame

`Receive` is one byte on the line: the interrupt reads it, pushes it into the
driver's fifo, which drops its oldest byte when full, and sends the event, all
with no thread in between. The thread is a program counter in
`uart_get_cnt_data`: `Recv` is `rt_event_recv` (take a set event or sleep with a
timeout), `ReadByte` and `ReadEmpty` its reading loop, `TimedOut` the branch of
`-RT_ETIMEOUT`, `Return` the end of the function, the hand-over to `subpackage`
and the next call. `Tick` is the tick interrupt, which expires the timeout.

The idle-line interrupt is commented out in the driver (`drv_usart.c:145`) and the
fifo is never empty when the callback runs, so the callback's branch for size 0
is dead code and has no action. A byte is a record of its frame's length and its
place in it. `rx_buffer` is an array that keeps old bytes, as in the code. The
byte read with index 512 is written behind `rx_buffer`; in the layout of
`config_t` that is a byte of padding, so it changes nothing in the model.

`Delivery` knows neither bytes nor time: a frame ends (`Arrive`), `subpackage` is
called with it (`HandOver`) and returns (`Parsed`); of a frame longer than the buffer
any end may be handed over or nothing at all (`Drop`). `DeliversFrames` maps it onto
the receiver: `Pending` is the length of the frame that has come to its end on the
line while some of it is still in the fifo or counted in the buffer, and `Argument`
is the buffer up to `rx_counter`, as long as the thread is about to call `subpackage`
with it. The last byte of a frame is then `Arrive`, the second timeout `HandOver`, the
next call of `uart_get_cnt_data` `Parsed`; every other step of interrupt, timer and
thread is a stutter.

Assumptions about the surroundings (`TimingAssumption` relates them to the
code's timeouts and the fifo): the controller stops at most `Pause` ticks
inside a frame and at least `Quiet` between two; at most `Rate` bytes arrive per
tick; the thread, once ready, blocks again within `Latency` ticks, because the
only other busy thread at its priority has a slice of five.

### Dial, GAT508, GeLinWei, Protocols

`Dial` reads the switches twice and starts again while the readings differ
(`ReadFirst`, `ReadSecond`), then makes the assignments of
`rt_hw_dial_detection` one at a time (`Decoded` is their list, `Assign` one of
them). `Redial` is the shell command; `Turn` moves a switch at any moment, between
the readings as well. The bit swaps are kept: a byte is a function of its eight
places there, a mask a set of places (`Swap`, `Mirrored`). `DialObeyed` compares with
what the rows of switches mean. In the parsers a byte is a number, and the exclusive
or of bytes is the parity of the ones in each place (`Bit`, `Byte`, `Xor`, `XorOf`).

The parsers are functions from a buffer and the settings to the sequence of
messages they post: they have no state but `cur_tmp`, which `subpackage` carries
from message to message (refresh code 03 posts the old number again,
`ge_lin_wei.c:138`). Two histories say which number that should be: `last` is the last
total sent whole to this sign and never follows `cur_tmp`; `stray` collects what may have
replaced it since. GeLinWei frames for other signs add nothing to `stray`. A frame in a
national protocol may, on a national sign: both searches look behind the last record,
where 2004 finds zeros and 2014 its checksum with a zero behind it, so a frame for
another sign can leave zero in `cur_tmp`; and one that was damaged may still leave the
total it had for this sign. Kept: the searches and where they stop, reads beyond the record
list, the checks, the keys and the two hidden bytes, the byte that the hundreds are
cut to, the search for heads in a buffer of several frames with the length that is
only renewed while ten bytes are left.

The controller is not in the repository. `Bytes2004`, `Bytes2014` and `BytesGeLin`
build frames from the way the parsers take them apart and are marked external;
so that the model does not just agree with itself, four frames captured from a real
controller (`东.txt`, `A1B1.txt`, `西.txt` beside the source, where each comes in clear and
enciphered) are handed in as they are, byte by byte.

Assumptions about the surroundings: `HandedAssumption` says which national frames are
damaged. A controller names no sign twice in one and keeps to the range of each field;
the damage is one byte, in 2004 not in the one bit that no checksum covers, in 2014 not
the first byte turned into the one that starts a 2004 frame; and the bytes do not look
like the head of a GeLinWei frame.

Excluded: a frame on its way while the dial is read again, and buffers longer than
the parsers' local copies of it.

### Leds, Pins, LedSign

Each colour has a chain of shift registers with two data lines, one for each half of
the matrix, but all share CLK, LAT and OE. `bank32` drives two lines of six: the
other chains are filled with whatever their lines were left at, which is the last
point drawn in that colour. `Leds` says this call by call (`Latch`, `LatchDark`).
`Pins` is `bank32`, `Clear_Display` and the OE line write by write (`LatLow`, `OeHigh`,
`Clock`, `LatHigh`, `OeLow`; the write of CLK low, the data lines and CLK high of one
point is one action, since nothing is seen of it while LAT is low). The refinement
mapping takes the latched picture for the matrix, and darkness for the noise at power-up, which
is never lit.

`LedSign` makes the calls of the display thread of `CommDisplay`, recognised by the
sleep that follows each. What becomes of a chain depends on the point a picture
ends with; `UpEnd` and `LowEnd` say for which numbers it is lit, read off the font.

Assumption about the hardware, which is not in the repository: a rising clock
shifts every chain by one, and the LEDs follow the chains while LAT is high. The model
starts behind `rt_hw_countdown_init`, which makes OE an output, pulled low, a few
microseconds before it writes it high (`countdown.c:454-464`).

### Glyphs

A point of a glyph is named by table, digit, row and column; the decoders move
names. Whether a point is lit is data and left out. `Place`, where the panel has bit
*j* of word *k*, is the panel's wiring and external: the checks show that one fixed
wiring makes all three layouts and their different decoders readable, for all
numbers from 1 to 199.

## 3. Runs

| run | asks | instance |
|---|---|---|
| `comm` | own number, fresh face, refinement of `Sign`, LEDs that show that face | `MCLedSign`: three GeLinWei totals (red 2, green 1, yellow 1), any order and time, a lamp that changes between red and green at any time, second of 3 expiries (last 2) |
| `comm_national` | exact count, no overshoot, where a foreign number can be taken | 2004 totals and 2014 blinking numbers and dark messages, second of 10, last of 8, a number above the drawable maximum |
| `comm_live` | every total ends (signs for all colours), every complete post is taken (vehicle signs for all colours) | fair threads and timer; motor, pedestrian and red-only signs; a red, a green and a dark lamp; the letter H |
| `studydisplay` | what is learned and posted, and the whole learning sign | real tenths, both kinds of sign; red of 1 or 3 s, green 2, yellow 1; green flashes for up to 0.3 s; power comes up 0.4 or 1.5 s before a phase ends; the bytes are three values wide, so that 3 s wrap as 256 s do |
| `rcv` | frames are handed over whole, in time, never mixed, once each; refinement of `Delivery` | the code's timeouts (20 and 2 ticks) and slice; one byte per tick, fifo of 6, buffer of 8, frames of 1, 8, 9 and 11 bytes |
| `protocols` | the settings are those of the switches; what was meant for this sign is posted, and nothing wrong | positions that set every switch, turned at run time into the other protocol and into a learning sign; frames with the sign's record first, last, twice and missing, numbers at the borders of a digit and of the face; GeLinWei frames that refresh no number, after each of these; all 64 places of the hidden bytes; captured frames; frames run together; every single bit and every whole byte damaged among the first ten |
| `pins` | the LEDs hold what was asked for, the driver implements `Leds`, the numbers are readable | chains of 3 points, 12 pictures, three colours, noise at power-up; `Glyphs` for 1 to 199 |
| `comm_off`, `comm_lost`, `comm_frozen`, `gl_total`, `led_h` | one statement of a comment each, which the code breaks (section 5) | |

Why these bounds are enough: the display and the parser look at a number only
through `= 0`, `= 1`, `>= 2`, `<= 199`; two is the least total that passes through
all of these, three with `MaxShown = 2` the least that is not drawn. The handshake
involves one loaded colour and its two others, so three colours with one message
each, repeated at will, give all of its interleavings; that yellow is posted but
never lit in `comm` costs none of them (it is always one of the others), and yellow
is counted in `studydisplay`. `sync` matters through its
comparisons with the two constants and its reset, so a short second has the same
cases; `comm_national` and `studydisplay` use the real one nevertheless, and the
theorems hold for all. For the learner what matters is whether two lengths in a row
agree, so one colour with two lengths is enough.

In `protocols` a parser looks at one record at a time and compares addresses for
equality; the switches of a row enter one sum each, so every switch alone, none and
all of a row tell all signs apart. In `pins` three points are the least with a first, a
middle and a last one; the theorems hold for chains of any length. All 199 numbers
are decoded there, one after the other, before anything has been clocked out.

`rcv` keeps the order of the code's sizes (a fifo shorter than the buffer; at 9600
baud ten bytes a tick against 127, here one against 6) and its constants are the
extreme ones for which the properties hold: with a fifo of 5, a pause of 4 ticks
inside a frame, or a silence of 37 ticks between frames, TLC finds a cut, a mixed
or a late frame. The silence, 20 + 2 + 3 * 5 + 1 ticks, is what two timeouts and three
late schedulings take: a controller that sends more often than every 0.38 s may
have its frames joined.

Fairness (`comm_live`, `comm_lost`, `comm_frozen`): weak fairness of the display
thread and of the parser, which share a priority with a time slice, and of the
timer, which is periodic. Nothing is assumed of the controller and the lamp.

All runs check deadlock.

## 4. Proofs

`tlapm` proves, for all values of the constants that satisfy
`CountdownAssumption` and `CommAssumption`:

* `TypeCorrect`: `CommSpec => []CommTypeOK`. The types need `ParseInv`: the parser
  is at a field its protocol has, and at a field of a colour only if the message
  has one.
* `NeverOvershoots`, `CountsExactly`: `NoOvershoot` and `CountExact`. Neither is
  inductive: between `sync = 0` and the load of the number the interrupt may run,
  with the number of the previous count. `CountInv` therefore bounds `sync` at
  `Load` by the expiries of the current awake stretch, and this by `Burst`, which
  the assumption keeps at or below `LastSecond`; if it were larger, `sync` could
  pass the value that ends the last second. The lemmas `DisplayCount` and
  `TimeoutCount` are about `Countdown` alone, so that they serve both posters.
* `ShowsOwnNumber`, `ImplementsSign`, for messages of GeLinWei and 2004: no number
  is shown in another's colour, and every step is one of `Sign` or none.
  `Handshake` says why: a mode without a flag is owned (the number was taken over);
  a take-over past the erasure of a mode has found the flag of that colour if the
  mode comes back; and if the parser is about to set a mode whose flag has already
  been dropped, the display is on its way to a sleep that outlasts the parser.
  `FaceInv` says that the face is dark during a take-over.
* `ForeignNeedsWindow`: `ForeignOnlyInWindow`, for all three protocols. With 2014
  the two theorems above are false, since it sets the mode before the flag; this one
  says that the window between these two writes is all that goes wrong. `WindowInv`
  accounts for every mode: it has its flag, or its colour owns the count, or the
  window is open on it.
* `FaceStaysFresh`: `FaceFresh`, if `Burst < LastSecond`. `FreshInv` follows the
  number from `Load` to the face: no awake stretch can take two seconds off it.

On top of these, with the assumption `PlainSign` (no 2014 message, and no letter H
drawn):

* `LedsShowTheFace`: `LedsShowFace`. `LedInv` joins two facts: only the chain of the
  colour that owns the count has points in it, and a dark chain stays dark when it
  is filled with its last point. That a new colour is only drawn on dark chains is
  the handshake again, not anything in the driver. With the letter H it is false
  (`led_h`).

For all values of the constants that satisfy `PinsAssumption`, chains of any length
among them:

* `PinsInvariant`: `PinsInv`, which is inductive: what a chain holds while it is
  clocked (`ChainInv`), and that a data line is left at the last point of its colour
  (`LineInv`), which is what the next call fills the chain with.
  `DoneInv`, one of its parts, says what it is for: when `dispaly` returns its picture
  is at the LEDs and they are on; when `Clear_Display` returns no LED has a point.
* `PinsImplementLeds`: `ImplementsLeds`, every pin write is a call of `Leds` or changes
  nothing that can be seen.

For the glyphs (also in `Pins_proof`), from no assumption:

* `NumbersReadRight`: `ReadsRight`. Word by word of the decoders, `RowOf` and `ColumnOf`
  name the row and column of the font that bit *j* of word *w* comes from, which are
  also where the panel has that bit (`PlaceAt`); `DrawnAsMeant` goes through the three
  layouts, in which a byte of the row falls within one digit or, where digits of twelve
  columns meet, half in each. What is at a point of a glyph is left opaque throughout.
* `WiringIsOneToOne`, `EveryPointIsDrawn`: `EachPointOnce`. The bits are taken apart into
  digits of half, word and place and put together again (`WiredPlace`, `PlaceWired`), so
  the wiring has an inverse.

For the learning sign, under `StudyAssumption` and `LightAssumption`:

* `LearnerTypeCorrect`, `TimesOnePhase`, `LearnsEveryLength`, `PostsIfStable`,
  `PostsOncePerPhase`: `StudyTypeOK`, `OneTimed`, `LearnsLength`,
  `PostsStableLength`, `PostsAtPhaseStart`. The invariant `StudyInv` has four parts:
  `Fresh` (a phase is noticed before it can flash or end), `Timing` (the phase that
  is noticed is timed, at most a tenth short; until then the one before it is),
  `Kept` (stored lengths are true lengths), `Posting` (what is posted in a phase
  is stable and is posted once).
* `LearnedCountsExactly`, `LearnedShowsOwnNumber`, `LearnedImplementsSign`,
  `LearnedStaysFresh`: the properties of the face, from the lemmas of
  `Countdown_proof` which do not know who posts, and from the fact that a poll
  writes all fields in one step.

For all values of the constants that satisfy `RcvAssumption`:

* `RcvTypeCorrect`: `RcvSpec => []RcvTypeOK`, with `WaitInv` (a sleeping thread has
  ticks left; two timeouts in a row end the loop) as the strengthening that makes
  it inductive.
* `NoWakeupLost`: `NoByteForgotten`, which is inductive as it stands. No bound on the
  line or the scheduler is used.

With `TimingAssumption` as well:

* `FrameEndParsed`, `WholeFrameParsed`, `FrameParsedInTime`: `ParsesFrameEnd`,
  `ParsesWholeFrame`, `ParsedInTime`. None is inductive. `RcvInv` has five parts more:
  `WakeInv` (a byte nobody has read and the event that announces it belong together),
  `FifoInv` (the fifo holds no more than fits on the line since the thread was woken, so
  none is dropped), `ContentInv` (buffer and fifo together are the last frame, in order),
  `SilentInv` (the thread gives up only after a silence longer than a pause, so never
  inside a frame) and `SoonInv` (it gives up before the next frame may begin, so never
  with two).

* `FramesDelivered`: `DeliversFrames`, the refinement of `Delivery`, step by step from
  `RcvInv`. `ContentInv` gives the argument at the hand-over (`Collected`,
  `ArgumentIsEnd`), `SilentInv` and `SoonInv` the order: the thread only gives up on a
  frame that has ended, and the next one ends only after it has (`NotWhileParsing`). A
  frame is neither handed over twice nor in two pieces.

For the learning sign in time (`LearnedInTime_proof`), if the display is awake for at
most one expiry of the timer (`Burst <= 1`) and every sign shows all colours (`r_led`):

* `LearnedTakenInTime`: `TakenInTime`, within nine tenths of a second. `TakenInv` counts
  down: `UntilLoad` is the number of expiries the display can still spend before it
  loads a number that waits, wherever it is in its pass, and `HandedInv` bounds it by
  what is left of the nine tenths.
* `LearnedEndsWithPhase`: `EndsWithPhase`, if a second has ten expiries, the panel shows
  at least eight and no phase is longer than it shows. `EndInv` adds that a phase that
  has ended was measured (`PastInv`), and that the count lags its phase by nine tenths
  at most (`RanInv`, `LagInv`).

For the dial and the parsers (`Protocols_proof`), for every position of the switches,
every number of records in a frame, every key and every length:

* `SettingsAreSwitches`: `DialObeyed`. `DialInv` says that the assignments made so far and
  those still to be made add up to the ones of the accepted reading; `Reversal` that
  the three swaps turn a byte round.
* `Damaged2014Refused`, `Damaged2004Refused`: a byte that is not the one that was sent
  changes the parity of some place, so the checksum with it. From these
  `DamageIsHarmless`: `DamageHarmless`, with `WireInv` (what has been parsed is the line
  of something that was handed over).
* `Deciphered`, `CipherTransparent`: wherever the key puts its two hidden bytes, and in
  whichever order, the parser reads the information that was enciphered, and so treats
  the frame as it would treat that.
* `AsSent2004`, `AsSent2014`, `AsSentGeLin`: a frame is posted as its first record for this
  sign. The model has no copies of 128 bytes: they hold 25, 62 and 28 records.
  GeLinWei totals go up to 6399; of a larger one the eight bits of its hundreds may be
  zero, and a number is drawn that is not the one that was sent.
* `PostedAsMeant`, `NumberCarried`, `OthersDark`, `ProtocolsTypeCorrect`: `PostsMeant`,
  `RefreshCarries`, `OthersShowNothing`, `ProtoTypeOK`, for every history of bursts. They
  have the hypothesis `Usual`: what arrives whole is one national frame or any number of
  enciphered GeLinWei frames joined (`Whole`), what arrives damaged is one national frame
  (`Hurt`); no bytes inside a frame look like the head of another. `BurstParsed` follows
  the joined frames: the heads the parser finds are the starts of the frames
  (`FramesFound`), what is cut out at each is the frame that was sent, and the ones that
  post do so in the order of the line (`SameRanks`). `NumberInv` is the inductive
  invariant: as far as the panel can tell, `cur_tmp` is the last total sent whole to this
  sign or one of the strays heard since, and so is what has just been posted without a
  total of its own. It needs what the other theorems say of each burst: whole or not,
  for this sign or not, it leaves nothing in `cur_tmp` but what `Strays` allows.
  `MCProtocols` has TLC evaluate `Usual` for everything the run hands over
  (`MostlyUsual`): of 557 pairs all satisfy it but the four captured frames, whose bytes
  are given as they are, and three bursts with a frame in clear, which the parser
  deciphers all the same and refuses for what comes out; for those seven `protocols` is
  the evidence.

Only model-checked: the liveness properties `CountRunsOut` and `PostTaken` (out of
the prover's reach, like everything that needs `ENABLED`); and the captured and clear
frames of `protocols`. Every other property of a passing run is stated by a theorem.

## 5. Where the code and its comments disagree

* `comm_off`: "screen-off: nothing is displayed" (`ge_lin_wei.c:143`), but the
  number is posted and drawn.
* `comm_lost`: "a total is sent and the sign counts it down" (`ge_lin_wei.c:177`),
  but a total that arrives between the read of the number and the reset of its
  flag is lost.
* `comm_frozen`: on a red-only sign the same total never runs out once the lamp
  turns green.
* `gl_total`: again the total that is sent, up to 199 seconds (`countdown.c:362`),
  but from 100 on `ge_lin_wei.c:136` shifts the hundreds instead of multiplying
  them, and the number is one the face does not draw.
* `led_h`: "shows H" (`countdown.c:294`) in yellow, but a red-only sign draws the
  letter without clearing the matrix: the red chain is shifted on too, and half of the
  matrix lights up red if the last point of the red number was lit.

Two more, seen in `studydisplay` and not given a run: "learn 2-3 cycles first"
(`study.c:12`), but one measurement of two seconds matches the initial table, so
`PostsStableLength` is stated from the second measurement on; and "at most 199
seconds" (`countdown.c:362`), but lengths are kept in bytes, so that 300 s are learned
and counted as 44 (`LearnsLength` states the length cut to a byte).

## 6. What is left

Not modelled:

* the start-up of the receiver: its event object is initialised after the device
  has been opened (`rcv_process.c:62`);
* a controller that never pauses, which the receiver never stops collecting from
  (`rcv_process.c:77`), since `TimingAssumption` excludes it;
* what becomes of the count under a yellow lamp that was not posted, where the thread
  neither draws nor sleeps (`countdown.c:409`): the actions are there, but `CountRunsOut`
  is stated for red and green;
* a light that skips yellow, of which the vehicle's learner never clears the flag
  of green (`study.c:128`);
* damaged GeLinWei frames: their checksum is never compared (`ge_lin_wei.c:79`), so
  nothing can be said of what is posted;
* a frame in transit while the dial is read again, and buffers longer than the
  parsers' local copies;
* which points of a glyph are lit, but for the two that end the chains (data);
* the superseded copy of the receiver, which the build leaves out, `main`, which
  returns at once, and the sample packages;
* the board drivers, the HAL and the RT-Thread kernel: third-party code or pure
  register accesses. They are nine tenths and more of the repository's lines; of
  them the receive interrupt and the sending of an event are part of `RcvFrame`, and
  delays, timers and the scheduler are assumptions of the models.

Worth doing next: `Delivery` in front of `Protocols` and that in front of `CommDisplay`,
as one composition from the frame to the face.
