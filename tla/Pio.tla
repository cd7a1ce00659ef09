-------------------------------- MODULE Pio --------------------------------
(***************************************************************************)
(* The two programs of the PIO block pio1: src/ws2812.pio, which sends the *)
(* colours of the LEDs in one wire's pulses, and src/sounder.pio, which    *)
(* plays a note.  They share the block's instruction memory; RGB_init_pio  *)
(* (src/ws2812.c) and Sounder_init (src/sounder.c) load them, each when    *)
(* its gem is initialised, in any order and as often as it likes.  A DMA   *)
(* channel feeds the LEDs, the interrupt handler of Sounder the notes.     *)
(*                                                                         *)
(* An instruction takes one cycle and its delay.  A word in a FIFO is the  *)
(* sequence of the fields the program shifts out of it.                    *)
(***************************************************************************)
EXTENDS Integers, Sequences

CONSTANTS
  Buffers,     \* what the buffer of colours may hold: sequences of words
  Counts,      \* how many LEDs the strip may be said to have
  RgbBits, RgbwBits, \* bits of a colour without and with white (24 and 32)
  FifoDepth,   \* words in the joined TX FIFO of the LEDs (8)
  Notes,       \* words of the sounder: <<length, sounds>>
  MaxQueued    \* bound: notes that wait in the sounder's FIFO

Word == [1 .. RgbwBits -> 0 .. 1]
Note == Nat \X (0 .. 1)

ASSUME PioAssumption ==
  /\ RgbBits \in Nat \ {0} /\ RgbwBits \in Nat /\ RgbBits <= RgbwBits
  /\ Buffers \subseteq Seq(Word) /\ Counts \subseteq Nat \ {0}
  /\ \A buffer \in Buffers, count \in Counts : count <= Len(buffer)
  /\ FifoDepth \in Nat \ {0} /\ MaxQueued \in Nat \ {0}
  /\ Notes \subseteq Note

(***************************************************************************)
(* The programs                                                            *)
(***************************************************************************)
I(op, arg, delay) == [op |-> op, arg |-> arg, delay |-> delay]
Free == I("free", 0, 0)

Jumps == {"jmp", "jmpNotX", "jmpNotY", "jmpXDec", "jmpNotOsre"}

ws2812_program_OneBitMutated ==
  <<I("set", 0, 0), I("pull", 0, 0),
    I("set", 1, 0), I("outX", 0, 0), I("jmpNotX", 8, 0),
    I("set", 1, 3), I("set", 0, 4), I("jmp", 10, 0),
    I("set", 0, 4), I("jmp", 10, 0),
    I("jmp", 0, 0)>>

(* set, pull; 2 bit_loop: set, out, jmp; 5 bit_1: set, set, jmp end;       *)
(* 8 bit_0: set, jmp end; 10 end: jmp bit_loop.                            *)
ws2812_program ==
  <<I("set", 0, 0), I("pull", 0, 0),
    I("set", 1, 0), I("outX", 0, 0), I("jmpNotX", 8, 0),
    I("set", 1, 3), I("set", 0, 4), I("jmp", 10, 0),
    I("set", 0, 4), I("jmp", 10, 0),
    I("jmpNotOsre", 2, 0)>>

sounder_program_LongNopMutated ==
  <<I("pull", 0, 0), I("outX", 0, 0), I("outY", 0, 0),
    I("set", 0, 31), I("jmpNotY", 6, 31), I("set", 1, 0),
    I("nop", 0, 31), I("jmpXDec", 3, 31), I("irq", 0, 0)>>

(* pull, out, out; 3 loop: set, jmp noSound, set; 6 noSound: nop, jmp loop,*)
(* irq.                                                                    *)
sounder_program ==
  <<I("pull", 0, 0), I("outX", 0, 0), I("outY", 0, 0),
    I("set", 0, 31), I("jmpNotY", 6, 31), I("set", 1, 0),
    I("nop", 0, 30), I("jmpXDec", 3, 31), I("irq", 0, 0)>>

RGB == 0
SOUNDER == 2
Machines == {RGB, SOUNDER}

PIO_WS2812_INST_HEAD == 0

PIO_SOUNDER_INST_HEAD_OffByOneMutated == Len(ws2812_program) - 1
PIO_SOUNDER_INST_HEAD == Len(ws2812_program)

Program(sm) == IF sm = RGB THEN ws2812_program ELSE sounder_program
Base(sm) == IF sm = RGB THEN PIO_WS2812_INST_HEAD ELSE PIO_SOUNDER_INST_HEAD

Address == 0 .. 31

VARIABLES
  memory,   \* the block's instruction memory
  machine,  \* the state machines
  asked,    \* history: which machines were initialised
  leds_count, \* transfers the DMA channel is configured for, 0 if it is not
  frame,    \* what the channel sends
  moved,    \* how many of its words it has moved
  expected, \* history: the bits the LEDs are still to get
  due       \* history: the cycles until the sounder's note should be over

vars == <<memory, machine, asked, leds_count, frame, moved, expected, due>>

(* Loading a program adds its place to the targets of its jumps.           *)
Relocated(i, base) == IF i.op \in Jumps THEN I(i.op, i.arg + base, i.delay) ELSE i
Places(sm) == Base(sm) .. Base(sm) + Len(Program(sm)) - 1
Image(sm, a) == Relocated(Program(sm)[a - Base(sm) + 1], Base(sm))

CanAdd(sm) == \A a \in Places(sm) : memory[a] = Free
Loaded(sm) == [a \in Address |-> IF a \in Places(sm) THEN Image(sm, a) ELSE memory[a]]

(* pio_sm_init empties the FIFOs and starts at the program's first         *)
(* instruction; X, Y and the pin keep what they are.                       *)
Started(sm, bits) ==
  [machine EXCEPT ![sm] = [@ EXCEPT !.on = TRUE, !.pc = Base(sm), !.bits = bits,
                                    !.osr = <<>>, !.fifo = <<>>]]

RGB_init_pio_AlwaysMutated(is_rgbw) ==
  /\ asked' = asked \cup {RGB}
  /\ memory' = Loaded(RGB)
  /\ machine' = Started(RGB, IF is_rgbw THEN RgbwBits ELSE RgbBits)
  /\ UNCHANGED <<leds_count, frame, moved, expected, due>>

(* A second call finds the program in place and does nothing.              *)
RGB_init_pio(is_rgbw) ==
  /\ asked' = asked \cup {RGB}
  /\ \/ /\ CanAdd(RGB)
        /\ memory' = Loaded(RGB)
        /\ machine' = Started(RGB, IF is_rgbw THEN RgbwBits ELSE RgbBits)
     \/ /\ ~CanAdd(RGB)
        /\ UNCHANGED <<memory, machine>>
  /\ UNCHANGED <<leds_count, frame, moved, expected, due>>

(* A second call starts the machine again.                                 *)
Sounder_init ==
  /\ asked' = asked \cup {SOUNDER}
  /\ memory' = IF CanAdd(SOUNDER) THEN Loaded(SOUNDER) ELSE memory
  /\ machine' = Started(SOUNDER, 2)
  /\ due' = 0
  /\ UNCHANGED <<leds_count, frame, moved, expected>>

(* RGB_init_dma_ws2812: with each trigger the channel is to send that many *)
(* words to the machine of the LEDs.  External: not while one goes on.     *)
RGB_init_dma_ws2812(count) ==
  /\ moved = Len(frame)
  /\ leds_count' = count
  /\ UNCHANGED <<memory, machine, asked, frame, moved, expected, due>>

(* RGB_dma_channel_set_read_addr with a trigger.  External: only after the *)
(* initialisations, and when the last transfer is over.                    *)
Colours(f, bits) ==
  [k \in 1 .. Len(f) * bits |-> f[((k - 1) \div bits) + 1][((k - 1) % bits) + 1]]

RGB_dma_channel_set_read_addr(buffer) ==
  /\ RGB \in asked /\ leds_count # 0
  /\ moved = Len(frame)
  /\ frame' = SubSeq(buffer, 1, leds_count)
  /\ moved' = 0
  /\ expected' = expected \o Colours(frame', machine[RGB].bits)
  /\ UNCHANGED <<memory, machine, asked, leds_count, due>>

Put(sm, word) == machine' = [machine EXCEPT ![sm].fifo = Append(@, word)]

(* The channel moves a word whenever the machine's FIFO has room.          *)
Dma ==
  /\ moved < Len(frame)
  /\ Len(machine[RGB].fifo) < FifoDepth
  /\ Put(RGB, frame[moved + 1])
  /\ moved' = moved + 1
  /\ UNCHANGED <<memory, asked, leds_count, frame, expected, due>>

(* External: the handler of Sounder puts a note.                           *)
PutNote(note) ==
  /\ SOUNDER \in asked
  /\ Len(machine[SOUNDER].fifo) < MaxQueued
  /\ Put(SOUNDER, note)
  /\ UNCHANGED <<memory, asked, leds_count, frame, moved, expected, due>>

(***************************************************************************)
(* One instruction of a state machine (external: the RP2040's PIO)         *)
(***************************************************************************)
Instruction(sm) == memory[machine[sm].pc]

Taken(m, i) ==
  \/ i.op = "jmp"
  \/ i.op = "jmpNotX" /\ m.x = 0
  \/ i.op = "jmpNotY" /\ m.y = 0
  \/ i.op = "jmpXDec" /\ m.x # 0
  \/ i.op = "jmpNotOsre" /\ m.osr # <<>>

Following(sm, pc) ==
  IF pc = Base(sm) + Len(Program(sm)) - 1 THEN Base(sm) ELSE pc + 1

LongRun == 8  \* bound: cycles of a level that are counted
AtMost(n, limit) == IF n < limit THEN n ELSE limit

(* The shift register, X, and how long the pin has had its level.          *)
Shifted(m, i) ==
  CASE i.op = "pull" -> SubSeq(Head(m.fifo), 1, m.bits)
    [] i.op \in {"outX", "outY"} -> Tail(m.osr)
    [] OTHER -> m.osr

Counted(m, i) ==
  CASE i.op = "outX" -> Head(m.osr)
    [] i.op = "jmpXDec" /\ m.x # 0 -> m.x - 1
    [] OTHER -> m.x

Level(m, i) == IF i.op = "set" THEN i.arg ELSE m.level
Run(m, i) ==
  AtMost(1 + i.delay + (IF Level(m, i) = m.level THEN m.run ELSE 0), LongRun)

After(sm, m, i) ==
  [m EXCEPT !.pc = IF Taken(m, i) THEN i.arg ELSE Following(sm, m.pc),
            !.fifo = IF i.op = "pull" THEN Tail(@) ELSE @,
            !.osr = Shifted(m, i),
            !.x = Counted(m, i),
            !.y = IF i.op = "outY" THEN Head(m.osr) ELSE @,
            !.level = Level(m, i),
            !.run = Run(m, i)]

(* What the LEDs make of a change of the wire: a pulse of 7 cycles is a 1, *)
(* one of 3 cycles a 0, of another length an error; so is a gap of less    *)
(* than 7 cycles.                                                          *)
Bad == 2
Seen(m, i) ==
  CASE i.op = "set" /\ i.arg < m.level ->
         <<CASE m.run = 7 -> 1 [] m.run = 3 -> 0 [] OTHER -> Bad>>
    [] i.op = "set" /\ i.arg > m.level /\ m.run < 7 -> <<Bad>>
    [] OTHER -> <<>>

(* A note of length n is n + 1 rounds of the loop, of 128 cycles each, or  *)
(* 127 for a rest, after the two instructions that take the word apart.    *)
Duration(note) == 2 + (note[1] + 1) * (127 + note[2])

Execute(sm) ==
  LET m == machine[sm]
      i == Instruction(sm) IN
  /\ m.on
  /\ i.op = "pull" => m.fifo # <<>>
  /\ machine' = [machine EXCEPT ![sm] = After(sm, m, i)]
  /\ expected' = IF sm = RGB /\ Seen(m, i) # <<>> /\ expected # <<>> THEN Tail(expected)
                 ELSE expected
  /\ due' = CASE sm = RGB -> due
              [] sm # RGB /\ i.op = "pull" -> Duration(Head(m.fifo))
              [] OTHER -> due - (1 + i.delay)
  /\ UNCHANGED <<memory, asked, leds_count, frame, moved>>
-----------------------------------------------------------------------------
Init ==
  /\ memory = [a \in Address |-> Free]
  /\ machine = [sm \in Machines |->
                  [on |-> FALSE, pc |-> 0, bits |-> 0, x |-> 0, y |-> 0,
                   osr |-> <<>>, fifo |-> <<>>, level |-> 0, run |-> LongRun]]
  /\ asked = {}
  /\ leds_count = 0
  /\ frame = <<>> /\ moved = 0
  /\ expected = <<>>
  /\ due = 0

Next ==
  \/ \E is_rgbw \in BOOLEAN : RGB_init_pio(is_rgbw)
  \/ Sounder_init
  \/ \E count \in Counts : RGB_init_dma_ws2812(count)
  \/ \E buffer \in Buffers : RGB_dma_channel_set_read_addr(buffer)
  \/ Dma
  \/ \E note \in Notes : PutNote(note)
  \/ \E sm \in Machines : Execute(sm)

Spec == Init /\ [][Next]_vars

(* The DMA channel and the machines run by themselves.                     *)
FairSpec ==
  Spec /\ WF_vars(Dma) /\ \A sm \in Machines : WF_vars(Execute(sm))
-----------------------------------------------------------------------------
(* Whatever the order of the initialisations, and however often they are   *)
(* repeated, every machine asked for runs, inside its own program, and     *)
(* finds that program at its place with its jumps set right.               *)
ProgramsIntact ==
  \A sm \in asked :
    /\ machine[sm].on
    /\ machine[sm].pc \in Places(sm)
    /\ \A a \in Places(sm) : memory[a] = Image(sm, a)

(* The LEDs get the bits of the frames, as many of each word as the strip  *)
(* was said to have, in order and in legal pulses, undisturbed by later    *)
(* initialisations and by the sounder.                                     *)
WireCarriesFrames ==
  [][LET seen == Seen(machine[RGB], Instruction(RGB)) IN
     Execute(RGB) /\ seen # <<>> =>
       /\ expected # <<>>
       /\ seen = <<Head(expected)>>]_vars

(* When no more frames come, all their bits have got out in the end.       *)
FramesShown ==
  <>[][\A buffer \in Buffers : ~RGB_dma_channel_set_read_addr(buffer)]_vars => <>[](expected = <<>>)

(* The sounder raises its interrupt, which fetches the next note, exactly  *)
(* when the note it pulled has had its time: a rest is one cycle in 128    *)
(* short of a tone of its length.                                          *)
NoteTakesItsTime ==
  [][Execute(SOUNDER) /\ Instruction(SOUNDER).op = "irq" => due = 0]_vars
=============================================================================
