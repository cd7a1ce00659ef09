---------------------------- MODULE Pio_proofs -----------------------------
(***************************************************************************)
(* Proofs about Pio for any frames, widths of a colour, notes and depths   *)
(* of the FIFOs: the two programs stay whole in the instruction memory     *)
(* they share, and no machine leaves its own (Inv); a note lasts as long   *)
(* as it should (OnTime); the wire carries the frames (Carrying).          *)
(***************************************************************************)
EXTENDS Pio, SequenceTheorems, TLAPS

(* Where the programs are.                                                 *)
LEMMA Lengths ==
  /\ Len(ws2812_program) = 11
  /\ Len(sounder_program) = 9
  /\ Places(RGB) = 0 .. 10
  /\ Places(SOUNDER) = 11 .. 19
<1>1. Len(ws2812_program) = 11
  BY DEF ws2812_program
<1>2. Len(sounder_program) = 9
  BY DEF sounder_program
<1>3. Base(RGB) = 0 /\ Program(RGB) = ws2812_program
  BY DEF Base, Program, PIO_WS2812_INST_HEAD
<1>4. Base(SOUNDER) = 11 /\ Program(SOUNDER) = sounder_program
  BY <1>1 DEF Base, Program, PIO_SOUNDER_INST_HEAD, RGB, SOUNDER
<1>5. Places(RGB) = 0 .. 10
  <2>1. Base(RGB) + Len(Program(RGB)) - 1 = 10
    BY <1>1, <1>3
  <2> QED
    BY <1>3, <2>1, Zenon DEF Places
<1>6. Places(SOUNDER) = 11 .. 19
  <2>1. 11 + 9 - 1 = 19
    OBVIOUS
  <2> QED
    BY <1>2, <1>4, <2>1, Zenon DEF Places
<1> QED
  BY <1>1, <1>2, <1>5, <1>6

LEMMA PlacesApart ==
  /\ Places(RGB) \subseteq Address /\ Places(SOUNDER) \subseteq Address
  /\ Places(RGB) \cap Places(SOUNDER) = {}
  BY Lengths DEF Address

(* The first instruction, and the one after another, are in the program.   *)
LEMMA BaseInside ==
  ASSUME NEW sm \in Machines
  PROVE  Base(sm) \in Places(sm)
<1>1. 0 \in Places(RGB) /\ 11 \in Places(SOUNDER)
  BY Lengths
<1>2. Base(RGB) = 0 /\ Base(SOUNDER) = 11
  BY Lengths DEF Base, PIO_WS2812_INST_HEAD, PIO_SOUNDER_INST_HEAD, RGB, SOUNDER
<1> QED
  BY <1>1, <1>2 DEF Machines

LEMMA FollowingInside ==
  ASSUME NEW sm \in Machines, NEW pc \in Places(sm)
  PROVE  Following(sm, pc) \in Places(sm)
<1>1. CASE pc = Base(sm) + Len(Program(sm)) - 1
  BY <1>1, BaseInside DEF Following
<1>2. CASE pc # Base(sm) + Len(Program(sm)) - 1
  <2>1. Following(sm, pc) = pc + 1
    BY <1>2 DEF Following
  <2>2. Base(sm) \in Nat /\ Len(Program(sm)) \in Nat
    BY Lengths DEF Base, Program, PIO_WS2812_INST_HEAD, PIO_SOUNDER_INST_HEAD, Machines
  <2> QED
    BY <1>2, <2>1, <2>2 DEF Places
<1> QED
  BY <1>1, <1>2

(* A jump of a loaded program stays in that program.                       *)
LEMMA JumpsStay ==
  ASSUME NEW sm \in Machines, NEW a \in Places(sm), Image(sm, a).op \in Jumps
  PROVE  Image(sm, a).arg \in Places(sm)
<1>1. CASE sm = RGB
  <2>1. Base(sm) = 0 /\ Program(sm) = ws2812_program /\ a \in 0 .. 10
    BY <1>1, Lengths DEF Base, Program, PIO_WS2812_INST_HEAD
  <2>2. Image(sm, a) = Relocated(ws2812_program[a + 1], 0)
    BY <2>1 DEF Image
  <2>3. \A k \in 1 .. 11 :
           ws2812_program[k].op \in Jumps => ws2812_program[k].arg \in 0 .. 10
    BY DEF ws2812_program, I, Jumps
  <2> QED
    BY <1>1, <2>1, <2>2, <2>3, Lengths DEF Relocated, I
<1>2. CASE sm = SOUNDER
  <2>1. Base(sm) = 11 /\ Program(sm) = sounder_program /\ a \in 11 .. 19
    BY <1>2, Lengths DEF Base, Program, PIO_SOUNDER_INST_HEAD, RGB, SOUNDER
  <2>2. Image(sm, a) = Relocated(sounder_program[a - 10], 11)
    BY <2>1 DEF Image
  <2>3. \A k \in 1 .. 9 :
           sounder_program[k].op \in Jumps => sounder_program[k].arg \in 0 .. 8
    BY DEF sounder_program, I, Jumps
  <2> QED
    BY <1>2, <2>1, <2>2, <2>3, Lengths DEF Relocated, I
<1> QED
  BY <1>1, <1>2 DEF Machines

(***************************************************************************)
(* The invariant                                                           *)
(***************************************************************************)
Fields == {"on", "pc", "bits", "x", "y", "osr", "fifo", "level", "run"}

(* A machine runs, inside its own program, exactly if it was asked for.    *)
Inside(m, sm, wanted) ==
  /\ DOMAIN m = Fields
  /\ m.on = TRUE <=> wanted
  /\ wanted => m.pc \in Places(sm)

(* A program is in the memory if its machine was asked for, and its place  *)
(* is free if not: this is why pio_can_add_program_at_offset says no to a  *)
(* second call only, and never to a first one.                             *)
Kept(mem, sm, wanted) ==
  \A a \in Places(sm) : mem[a] = IF wanted THEN Image(sm, a) ELSE Free

Inv ==
  /\ asked \subseteq Machines
  /\ memory = [a \in Address |-> memory[a]]
  /\ machine = [sm \in Machines |-> machine[sm]]
  /\ \A sm \in Machines : /\ Kept(memory, sm, sm \in asked)
                          /\ Inside(machine[sm], sm, sm \in asked)

LEMMA ImageIsNotFree ==
  ASSUME NEW sm \in Machines, NEW a \in Places(sm)
  PROVE  Image(sm, a) # Free
<1>1. \A k \in 1 .. 11 : ws2812_program[k].op # "free"
  BY DEF ws2812_program, I
<1>2. \A k \in 1 .. 9 : sounder_program[k].op # "free"
  BY DEF sounder_program, I
<1>3. CASE sm = RGB
  <2>1. Base(sm) = 0 /\ Program(sm) = ws2812_program /\ a \in 0 .. 10
    BY <1>3, Lengths DEF Base, Program, PIO_WS2812_INST_HEAD
  <2>2. Image(sm, a) = Relocated(ws2812_program[a + 1], 0)
    BY <2>1 DEF Image
  <2> QED
    BY <1>1, <2>1, <2>2 DEF Relocated, Free, I
<1>4. CASE sm = SOUNDER
  <2>1. Base(sm) = 11 /\ Program(sm) = sounder_program /\ a \in 11 .. 19
    BY <1>4, Lengths DEF Base, Program, PIO_SOUNDER_INST_HEAD, RGB, SOUNDER
  <2>2. Image(sm, a) = Relocated(sounder_program[a - 10], 11)
    BY <2>1 DEF Image
  <2> QED
    BY <1>2, <2>1, <2>2 DEF Relocated, Free, I
<1> QED
  BY <1>3, <1>4 DEF Machines

(* pio_can_add_program_at_offset tells whether the machine was asked for.  *)
LEMMA CanAddOnce ==
  ASSUME Inv, NEW sm \in Machines
  PROVE  CanAdd(sm) <=> sm \notin asked
<1>1. CASE sm \in asked
  BY <1>1, BaseInside, ImageIsNotFree DEF Inv, Kept, CanAdd
<1>2. CASE sm \notin asked
  BY <1>2 DEF Inv, Kept, CanAdd
<1> QED
  BY <1>1, <1>2

(* Loading one program leaves the other one alone.                         *)
LEMMA LoadKeeps ==
  ASSUME Inv, NEW sm \in Machines, NEW other \in Machines
  PROVE  LET wanted == other \in asked \cup {sm} IN Kept(Loaded(sm), other, wanted)
<1>1. CASE other = sm
  <2>1. \A a \in Places(sm) : Loaded(sm)[a] = Image(sm, a)
    BY PlacesApart DEF Loaded, Machines
  <2> QED
    BY <1>1, <2>1 DEF Kept
<1>2. CASE other # sm
  <2>1. Places(other) \cap Places(sm) = {}
    BY <1>2, PlacesApart DEF Machines
  <2>2. \A a \in Places(other) : Loaded(sm)[a] = memory[a]
    BY <2>1, PlacesApart DEF Loaded, Machines
  <2>3. other \in asked \cup {sm} <=> other \in asked
    BY <1>2
  <2> QED
    BY <2>2, <2>3 DEF Inv, Kept
<1> QED
  BY <1>1, <1>2

(* What a step of a machine, or of its FIFO, changes of it.                *)
LEMMA AfterInside ==
  ASSUME NEW sm, NEW m, NEW i, DOMAIN m = Fields
  PROVE  /\ DOMAIN After(sm, m, i) = Fields
         /\ After(sm, m, i).on = m.on
         /\ After(sm, m, i).pc = IF Taken(m, i) THEN i.arg ELSE Following(sm, m.pc)
         /\ After(sm, m, i).bits = m.bits
         /\ After(sm, m, i).fifo = IF i.op = "pull" THEN Tail(m.fifo) ELSE m.fifo
         /\ After(sm, m, i).osr = Shifted(m, i)
         /\ After(sm, m, i).x = Counted(m, i)
         /\ After(sm, m, i).y = IF i.op = "outY" THEN Head(m.osr) ELSE m.y
         /\ After(sm, m, i).level = Level(m, i)
         /\ After(sm, m, i).run = Run(m, i)
  BY DEF After, Fields

LEMMA PutInside ==
  ASSUME Inv, NEW sm \in Machines, NEW word, Put(sm, word)
  PROVE  /\ machine' = [s \in Machines |-> machine'[s]]
         /\ \A s \in Machines \ {sm} : machine'[s] = machine[s]
         /\ machine'[sm] = [machine[sm] EXCEPT !.fifo = Append(@, word)]
         /\ \A s \in Machines : /\ DOMAIN machine'[s] = Fields
                                /\ machine'[s].on = machine[s].on
                                /\ machine'[s].pc = machine[s].pc
  BY DEF Put, Inv, Inside, Fields

LEMMA StartedInside ==
  ASSUME Inv, NEW sm \in Machines, NEW bits, machine' = Started(sm, bits)
  PROVE  /\ machine' = [s \in Machines |-> machine'[s]]
         /\ \A s \in Machines :
              /\ DOMAIN machine'[s] = Fields
              /\ machine'[s].on = IF s = sm THEN TRUE ELSE machine[s].on
              /\ machine'[s].pc = IF s = sm THEN Base(sm) ELSE machine[s].pc
  BY DEF Started, Inv, Inside, Fields

LEMMA StartedMachine ==
  ASSUME Inv, NEW sm \in Machines, NEW bits, machine' = Started(sm, bits)
  PROVE  /\ \A s \in Machines \ {sm} : machine'[s] = machine[s]
         /\ machine'[sm].pc = Base(sm) /\ machine'[sm].bits = bits
         /\ machine'[sm].osr = <<>> /\ machine'[sm].fifo = <<>>
         /\ machine'[sm].level = machine[sm].level /\ machine'[sm].run = machine[sm].run
  BY DEF Started, Inv, Inside, Fields

LEMMA InitInv == Init => Inv
<1> SUFFICES ASSUME Init PROVE Inv
  OBVIOUS
<1>1. \A sm \in Machines : DOMAIN machine[sm] = Fields
  BY DEF Init, Fields
<1>2. \A sm \in Machines : machine[sm].on = FALSE
  BY DEF Init
<1>3. \A sm \in Machines : Kept(memory, sm, sm \in asked)
  BY PlacesApart DEF Init, Kept, Machines
<1>4. \A sm \in Machines : Inside(machine[sm], sm, sm \in asked)
  BY <1>1, <1>2 DEF Init, Inside
<1> QED
  BY <1>3, <1>4 DEF Init, Inv

(* The first initialisation of a machine, or one more of the sounder's.    *)
LEMMA StartStep ==
  ASSUME Inv, NEW sm \in Machines, NEW bits,
         asked' = asked \cup {sm},
         memory' = IF CanAdd(sm) THEN Loaded(sm) ELSE memory,
         machine' = Started(sm, bits)
  PROVE  Inv'
<1>1. asked' \subseteq Machines
  BY DEF Inv
<1>2. memory' = [a \in Address |-> memory'[a]]
  BY DEF Inv, Loaded
<1>3. ASSUME NEW s \in Machines
      PROVE  Kept(memory', s, s \in asked')
  <2>1. CASE sm \in asked
    <3>1. memory' = memory /\ asked' = asked
      BY <2>1, CanAddOnce
    <3> QED
      BY <3>1 DEF Inv
  <2>2. CASE sm \notin asked
    <3>1. memory' = Loaded(sm)
      BY <2>2, CanAddOnce
    <3> QED
      BY <3>1, LoadKeeps
  <2> QED
    BY <2>1, <2>2
<1>4. ASSUME NEW s \in Machines
      PROVE  Inside(machine'[s], s, s \in asked')
  <2>1. /\ DOMAIN machine'[s] = Fields
        /\ machine'[s].on = IF s = sm THEN TRUE ELSE machine[s].on
        /\ machine'[s].pc = IF s = sm THEN Base(sm) ELSE machine[s].pc
    BY StartedInside
  <2>2. s \in asked' <=> s = sm \/ s \in asked
    OBVIOUS
  <2>3. Inside(machine[s], s, s \in asked)
    BY DEF Inv
  <2> QED
    BY <2>1, <2>2, <2>3, BaseInside DEF Inside
<1>5. machine' = [s \in Machines |-> machine'[s]]
  BY StartedInside, Zenon
<1> QED
  BY <1>1, <1>2, <1>3, <1>4, <1>5 DEF Inv

LEMMA ExecuteStep ==
  ASSUME Inv, NEW sm \in Machines, Execute(sm)
  PROVE  Inv'
<1> DEFINE m == machine[sm]
           i == Instruction(sm)
<1>1. sm \in asked /\ m.pc \in Places(sm) /\ DOMAIN m = Fields
  BY DEF Execute, Inv, Inside
<1>2. i = Image(sm, m.pc)
  BY <1>1 DEF Inv, Kept, Instruction
<1>3. Taken(m, i) => i.op \in Jumps
  BY DEF Taken, Jumps
<1>4. After(sm, m, i).pc \in Places(sm)
  <2>1. CASE Taken(m, i)
    BY <1>1, <1>2, <1>3, <2>1, JumpsStay, AfterInside
  <2>2. CASE ~Taken(m, i)
    BY <1>1, <2>2, FollowingInside, AfterInside
  <2> QED
    BY <2>1, <2>2
<1>5. machine' = [machine EXCEPT ![sm] = After(sm, m, i)] /\ asked' = asked /\ memory' = memory
  BY DEF Execute
<1>6. Inside(After(sm, m, i), sm, sm \in asked)
  BY <1>1, <1>4, AfterInside DEF Inv, Inside
<1>7. ASSUME NEW s \in Machines
      PROVE  Inside(machine'[s], s, s \in asked')
  BY <1>5, <1>6 DEF Inv
<1> QED
  BY <1>5, <1>7 DEF Inv

LEMMA NextInv == Inv /\ [Next]_vars => Inv'
<1> SUFFICES ASSUME Inv, [Next]_vars PROVE Inv'
  OBVIOUS
<1>1. RGB \in Machines /\ SOUNDER \in Machines
  BY DEF Machines
<1>2. ASSUME NEW is_rgbw \in BOOLEAN, RGB_init_pio(is_rgbw) PROVE Inv'
  <2>1. CASE CanAdd(RGB)
    BY <1>1, <1>2, <2>1, StartStep DEF RGB_init_pio
  <2>2. CASE ~CanAdd(RGB)
    <3>1. asked' = asked
      BY <1>1, <1>2, <2>2, CanAddOnce DEF RGB_init_pio
    <3> QED
      BY <1>2, <2>2, <3>1 DEF RGB_init_pio, Inv
  <2> QED
    BY <2>1, <2>2
<1>3. ASSUME Sounder_init PROVE Inv'
  BY <1>1, <1>3, StartStep DEF Sounder_init
<1>4. ASSUME NEW buffer \in Buffers, RGB_dma_channel_set_read_addr(buffer) PROVE Inv'
  BY <1>4 DEF RGB_dma_channel_set_read_addr, Inv
<1>10. ASSUME NEW count \in Counts, RGB_init_dma_ws2812(count) PROVE Inv'
  BY <1>10 DEF RGB_init_dma_ws2812, Inv
<1>5. ASSUME NEW sm \in Machines, NEW word, Put(sm, word), UNCHANGED <<memory, asked>>
      PROVE  Inv'
  BY <1>5, PutInside DEF Inv, Inside
<1>6. ASSUME Dma PROVE Inv'
  BY <1>1, <1>5, <1>6 DEF Dma
<1>7. ASSUME NEW note \in Notes, PutNote(note) PROVE Inv'
  BY <1>1, <1>5, <1>7 DEF PutNote
<1>8. ASSUME NEW sm \in Machines, Execute(sm) PROVE Inv'
  BY <1>8, ExecuteStep
<1>9. ASSUME UNCHANGED vars PROVE Inv'
  BY <1>9 DEF vars, Inv
<1> QED
  BY <1>2, <1>3, <1>4, <1>6, <1>7, <1>8, <1>9, <1>10 DEF Next

LEMMA InvHolds == Spec => []Inv
<1> QED
  BY InitInv, NextInv, PTL DEF Spec

(* Whatever the order of the initialisations of src/ws2812.c and           *)
(* src/sounder.c, and however often they are repeated, every machine asked *)
(* for runs inside its own program, which is whole and where its jumps     *)
(* expect it.                                                              *)
THEOREM ProgramsStayIntact == Spec => []ProgramsIntact
<1>1. Inv => ProgramsIntact
  BY DEF Inv, Inside, Kept, ProgramsIntact
<1> QED
  BY <1>1, InvHolds, PTL

(***************************************************************************)
(* How long a note lasts                                                   *)
(***************************************************************************)
Rounds(n, sound) == n * (127 + sound)

(* At each instruction of the loop (14 to 18) a note still has the rounds  *)
(* that X counts, and what is left of this one: the delays of the two ways *)
(* through it differ by the cycle in 128.                                  *)
NoteOnTime(m, d) ==
  /\ m.bits = 2
  /\ m.fifo \in Seq(Note)
  /\ m.pc = 12 => m.osr \in Note /\ d = Duration(m.osr)
  /\ m.pc = 13 => /\ m.x \in Nat
                  /\ \E sound \in 0 .. 1 :
                       m.osr = <<sound>> /\ d = 1 + Rounds(m.x + 1, sound)
  /\ m.pc \in 14 .. 18 => m.x \in Nat /\ m.y \in 0 .. 1
  /\ m.pc = 14 => d = Rounds(m.x, m.y) + 127 + m.y
  /\ m.pc = 15 => d = Rounds(m.x, m.y) + 95 + m.y
  /\ m.pc = 16 => d = Rounds(m.x, m.y) + 64 /\ m.y = 1
  /\ m.pc = 17 => d = Rounds(m.x, m.y) + 63
  /\ m.pc = 18 => d = Rounds(m.x, m.y) + 32
  /\ m.pc = 19 => d = 0

OnTime == SOUNDER \in asked => NoteOnTime(machine[SOUNDER], due)

LEMMA RoundsFacts ==
  ASSUME NEW n \in Nat, NEW sound \in 0 .. 1
  PROVE  /\ Rounds(n, sound) \in Int
         /\ Rounds(n + 1, sound) = Rounds(n, sound) + 127 + sound
         /\ Rounds(0, sound) = 0
<1>1. CASE sound = 0
  BY <1>1 DEF Rounds
<1>2. CASE sound = 1
  BY <1>2 DEF Rounds
<1> QED
  BY <1>1, <1>2

LEMMA NoteParts ==
  ASSUME NEW note \in Note
  PROVE  /\ note = <<note[1], note[2]>> /\ note[1] \in Nat /\ note[2] \in 0 .. 1
         /\ SubSeq(note, 1, 2) = note
         /\ Head(note) = note[1] /\ Tail(note) = <<note[2]>>
         /\ Duration(note) = 2 + Rounds(note[1] + 1, note[2])
<1>1. PICK n \in Nat, sound \in 0 .. 1 : note = <<n, sound>>
  BY DEF Note
<1>2. note \in Seq(Nat) /\ Len(note) = 2
  BY <1>1
<1>3. SubSeq(note, 1, 2) = note
  BY <1>2, SubSeqFull
<1> QED
  BY <1>1, <1>3 DEF Duration, Rounds

(* The sounder's program, where it is loaded.                              *)
LEMMA SounderCode ==
  ASSUME Inv, SOUNDER \in asked
  PROVE  LET pc == machine[SOUNDER].pc
             i == Instruction(SOUNDER) IN
         /\ pc \in 11 .. 19
         /\ pc = 11 => i = I("pull", 0, 0)
         /\ pc = 12 => i = I("outX", 0, 0)
         /\ pc = 13 => i = I("outY", 0, 0)
         /\ pc = 14 => i = I("set", 0, 31)
         /\ pc = 15 => i = I("jmpNotY", 17, 31)
         /\ pc = 16 => i = I("set", 1, 0)
         /\ pc = 17 => i = I("nop", 0, 30)
         /\ pc = 18 => i = I("jmpXDec", 14, 31)
         /\ pc = 19 => i = I("irq", 0, 0)
<1> DEFINE pc == machine[SOUNDER].pc
           i == Instruction(SOUNDER)
<1>1. SOUNDER \in Machines /\ pc \in 11 .. 19
  BY Lengths DEF Inv, Inside, Machines
<1>2. i = Image(SOUNDER, pc)
  BY <1>1, Lengths DEF Inv, Kept, Instruction
<1>3. Base(SOUNDER) = 11 /\ Program(SOUNDER) = sounder_program
  BY Lengths DEF Base, Program, PIO_SOUNDER_INST_HEAD, RGB, SOUNDER
<1>4. i = Relocated(sounder_program[pc - 10], 11)
  BY <1>1, <1>2, <1>3 DEF Image
<1> HIDE DEF pc, i
<1>5. \A k \in 1 .. 9 : pc = k + 10 => i = Relocated(sounder_program[k], 11)
  BY <1>1, <1>4
<1> QED
  BY <1>1, <1>5 DEF sounder_program, Relocated, Jumps, I, pc, i

(* What an instruction does, kind by kind.                                 *)
LEMMA Effects ==
  ASSUME NEW sm, NEW m, NEW i
  PROVE  /\ i.op = "pull" => Shifted(m, i) = SubSeq(Head(m.fifo), 1, m.bits)
         /\ i.op \in {"outX", "outY"} => Shifted(m, i) = Tail(m.osr)
         /\ i.op \notin {"pull", "outX", "outY"} => Shifted(m, i) = m.osr
         /\ i.op = "outX" => Counted(m, i) = Head(m.osr)
         /\ i.op = "jmpXDec" /\ m.x # 0 => Counted(m, i) = m.x - 1
         /\ i.op = "jmpXDec" /\ m.x = 0 => Counted(m, i) = m.x
         /\ i.op \notin {"outX", "jmpXDec"} => Counted(m, i) = m.x
<1>1. i.op = "pull" => Shifted(m, i) = SubSeq(Head(m.fifo), 1, m.bits)
  BY Zenon DEF Shifted
<1>2. i.op \in {"outX", "outY"} => Shifted(m, i) = Tail(m.osr)
  BY Zenon DEF Shifted
<1>3. i.op \notin {"pull", "outX", "outY"} => Shifted(m, i) = m.osr
  BY Zenon DEF Shifted
<1>4. i.op = "outX" => Counted(m, i) = Head(m.osr)
  BY Zenon DEF Counted
<1>5. i.op = "jmpXDec" /\ m.x # 0 => Counted(m, i) = m.x - 1
  BY Zenon DEF Counted
<1>6. i.op = "jmpXDec" /\ m.x = 0 => Counted(m, i) = m.x
  BY Zenon DEF Counted
<1>7. i.op \notin {"outX", "jmpXDec"} => Counted(m, i) = m.x
  BY Zenon DEF Counted
<1> QED
  BY <1>1, <1>2, <1>3, <1>4, <1>5, <1>6, <1>7

LEMMA DueAfter ==
  ASSUME Execute(SOUNDER)
  PROVE  LET i == Instruction(SOUNDER) IN
         /\ i.op = "pull" => due' = Duration(Head(machine[SOUNDER].fifo))
         /\ i.op # "pull" => due' = due - (1 + i.delay)
<1>1. SOUNDER # RGB
  BY DEF SOUNDER, RGB
<1>2. Instruction(SOUNDER).op = "pull" => due' = Duration(Head(machine[SOUNDER].fifo))
  BY <1>1, Zenon DEF Execute
<1>3. Instruction(SOUNDER).op # "pull" => due' = due - (1 + Instruction(SOUNDER).delay)
  BY <1>1, Zenon DEF Execute
<1> QED
  BY <1>2, <1>3, Zenon

LEMMA ExecuteOnTime ==
  ASSUME Inv, OnTime, Execute(SOUNDER)
  PROVE  OnTime'
<1> DEFINE m == machine[SOUNDER]
           i == Instruction(SOUNDER)
           n == machine'[SOUNDER]
<1>1. SOUNDER \in asked /\ asked' = asked /\ SOUNDER \in Machines /\ DOMAIN m = Fields
  BY DEF Execute, Inv, Inside, Machines
<1>2. NoteOnTime(m, due) /\ m.pc \in 11 .. 19
  BY <1>1, SounderCode DEF OnTime
<1>3. n = After(SOUNDER, m, i)
  BY <1>1 DEF Execute, Inv
<1>4. /\ n.pc = IF Taken(m, i) THEN i.arg ELSE Following(SOUNDER, m.pc)
      /\ n.bits = m.bits
      /\ n.fifo = IF i.op = "pull" THEN Tail(m.fifo) ELSE m.fifo
      /\ n.osr = Shifted(m, i)
      /\ n.x = Counted(m, i)
      /\ n.y = IF i.op = "outY" THEN Head(m.osr) ELSE m.y
  BY <1>1, <1>3, AfterInside
<1>5. Following(SOUNDER, m.pc) = IF m.pc = 19 THEN 11 ELSE m.pc + 1
  <2>1. Base(SOUNDER) = 11 /\ Len(Program(SOUNDER)) = 9
    BY Lengths DEF Base, Program, PIO_SOUNDER_INST_HEAD, RGB, SOUNDER
  <2> QED
    BY <2>1 DEF Following
<1>6. i.op = "pull" => m.fifo # <<>>
  BY DEF Execute
<1> SUFFICES NoteOnTime(n, due')
  BY <1>1 DEF OnTime
<1> HIDE DEF m, n
<1>7. CASE m.pc = 11
  <2>1. i.op = "pull"
    BY <1>1, <1>7, SounderCode DEF I, m
  <2>2. n.pc = 12
    BY <1>4, <1>5, <1>7, <2>1 DEF Taken
  <2>3. Head(m.fifo) \in Note /\ Tail(m.fifo) \in Seq(Note)
    BY <1>2, <1>6, <2>1 DEF NoteOnTime
  <2>4. n.osr = Head(m.fifo)
    <3>1. n.osr = SubSeq(Head(m.fifo), 1, m.bits) /\ m.bits = 2
      BY <1>2, <1>4, <2>1, Effects, Zenon DEF NoteOnTime
    <3> QED
      BY <2>3, <3>1, NoteParts
  <2>5. due' = Duration(Head(m.fifo))
    BY <2>1, DueAfter DEF m
  <2> QED
    BY <1>2, <1>4, <2>1, <2>2, <2>3, <2>4, <2>5 DEF NoteOnTime
<1>8. CASE m.pc = 12
  <2>1. i.op = "outX" /\ i.delay = 0
    BY <1>1, <1>8, SounderCode DEF I, m
  <2>2. n.pc = 13
    BY <1>4, <1>5, <1>8, <2>1 DEF Taken
  <2>3. m.osr \in Note /\ due = Duration(m.osr)
    BY <1>2, <1>8 DEF NoteOnTime
  <2>4. n.x = m.osr[1] /\ n.osr = <<m.osr[2]>>
    <3>1. n.x = Head(m.osr) /\ n.osr = Tail(m.osr)
      BY <1>4, <2>1, Effects
    <3> QED
      BY <2>3, <3>1, NoteParts
  <2>5. due' = due - 1
    BY <2>1, DueAfter
  <2>6. m.osr[1] \in Nat /\ m.osr[2] \in 0 .. 1 /\ due = 2 + Rounds(m.osr[1] + 1, m.osr[2])
    BY <2>3, NoteParts
  <2>7. Rounds(m.osr[1] + 1, m.osr[2]) \in Int
    BY <2>6, RoundsFacts
  <2>8. due' = 1 + Rounds(n.x + 1, m.osr[2])
    BY <2>4, <2>5, <2>6, <2>7
  <2> QED
    BY <1>2, <1>4, <2>1, <2>2, <2>4, <2>6, <2>8 DEF NoteOnTime
<1>9. CASE m.pc = 13
  <2>1. i.op = "outY" /\ i.delay = 0
    BY <1>1, <1>9, SounderCode DEF I, m
  <2>2. n.pc = 14
    BY <1>4, <1>5, <1>9, <2>1 DEF Taken
  <2>3. PICK sound \in 0 .. 1 : m.osr = <<sound>> /\ due = 1 + Rounds(m.x + 1, sound)
    BY <1>2, <1>9 DEF NoteOnTime
  <2>4. m.x \in Nat
    BY <1>2, <1>9 DEF NoteOnTime
  <2>5. n.x = m.x /\ n.y = sound
    BY <1>4, <2>1, <2>3, Effects
  <2>6. due' = due - 1
    BY <2>1, DueAfter
  <2>7. due' = Rounds(n.x, n.y) + 127 + n.y
    BY <2>3, <2>4, <2>5, <2>6, RoundsFacts
  <2> QED
    BY <1>2, <1>4, <2>1, <2>2, <2>4, <2>5, <2>7 DEF NoteOnTime
<1>10. ASSUME m.pc \in 14 .. 18
       PROVE  /\ m.x \in Nat /\ m.y \in 0 .. 1 /\ Rounds(m.x, m.y) \in Int
              /\ n.y = m.y /\ n.bits = m.bits /\ n.fifo = m.fifo
              /\ m.pc # 18 => n.x = m.x
              /\ due' = due - (1 + i.delay)
  <2>1. m.x \in Nat /\ m.y \in 0 .. 1
    BY <1>2, <1>10 DEF NoteOnTime
  <2>2. i.op \notin {"pull", "outX", "outY"} /\ (m.pc # 18 => i.op # "jmpXDec")
    BY <1>1, <1>10, SounderCode DEF I, m
  <2>3. due' = due - (1 + i.delay)
    BY <2>2, DueAfter
  <2>4. m.pc # 18 => n.x = m.x
    BY <1>4, <2>2, Effects
  <2> QED
    BY <1>4, <2>1, <2>2, <2>3, <2>4, RoundsFacts
<1>11. CASE m.pc = 14
  <2>1. i.op = "set" /\ i.delay = 31
    BY <1>1, <1>11, SounderCode DEF I, m
  <2>2. n.pc = 15
    BY <1>4, <1>5, <1>11, <2>1 DEF Taken
  <2>3. due = Rounds(m.x, m.y) + 127 + m.y
    BY <1>2, <1>11 DEF NoteOnTime
  <2>4. due' = Rounds(n.x, n.y) + 95 + n.y
    BY <1>10, <1>11, <2>1, <2>3
  <2> QED
    BY <1>2, <1>10, <1>11, <2>2, <2>4 DEF NoteOnTime
<1>12. CASE m.pc = 15
  <2>1. i.op = "jmpNotY" /\ i.arg = 17 /\ i.delay = 31
    BY <1>1, <1>12, SounderCode DEF I, m
  <2>2. n.pc = IF m.y = 0 THEN 17 ELSE 16
    BY <1>4, <1>5, <1>12, <2>1 DEF Taken
  <2>3. due = Rounds(m.x, m.y) + 95 + m.y
    BY <1>2, <1>12 DEF NoteOnTime
  <2>4. due' = Rounds(n.x, n.y) + 63 + n.y
    BY <1>10, <1>12, <2>1, <2>3
  <2> QED
    BY <1>2, <1>10, <1>12, <2>2, <2>4 DEF NoteOnTime
<1>13. CASE m.pc = 16
  <2>1. i.op = "set" /\ i.delay = 0
    BY <1>1, <1>13, SounderCode DEF I, m
  <2>2. n.pc = 17
    BY <1>4, <1>5, <1>13, <2>1 DEF Taken
  <2>3. due = Rounds(m.x, m.y) + 64
    BY <1>2, <1>13 DEF NoteOnTime
  <2>4. due' = Rounds(n.x, n.y) + 63
    BY <1>10, <1>13, <2>1, <2>3
  <2> QED
    BY <1>2, <1>10, <1>13, <2>2, <2>4 DEF NoteOnTime
<1>14. CASE m.pc = 17
  <2>1. i.op = "nop" /\ i.delay = 30
    BY <1>1, <1>14, SounderCode DEF I, m
  <2>2. n.pc = 18
    BY <1>4, <1>5, <1>14, <2>1 DEF Taken
  <2>3. due = Rounds(m.x, m.y) + 63
    BY <1>2, <1>14 DEF NoteOnTime
  <2>4. due' = Rounds(n.x, n.y) + 32
    BY <1>10, <1>14, <2>1, <2>3
  <2> QED
    BY <1>2, <1>10, <1>14, <2>2, <2>4 DEF NoteOnTime
<1>15. CASE m.pc = 18
  <2>1. i.op = "jmpXDec" /\ i.arg = 14 /\ i.delay = 31
    BY <1>1, <1>15, SounderCode DEF I, m
  <2>2. due' = Rounds(m.x, m.y)
    <3>1. due = Rounds(m.x, m.y) + 32
      BY <1>2, <1>15 DEF NoteOnTime
    <3> QED
      BY <1>10, <1>15, <2>1, <3>1
  <2>3. CASE m.x = 0
    <3>1. n.pc = 19
      BY <1>4, <1>5, <1>15, <2>1, <2>3 DEF Taken
    <3>2. due' = 0
      BY <1>10, <1>15, <2>2, <2>3, RoundsFacts
    <3> QED
      BY <1>2, <1>10, <1>15, <3>1, <3>2 DEF NoteOnTime
  <2>4. CASE m.x # 0
    <3>1. n.pc = 14
      BY <1>4, <2>1, <2>4 DEF Taken
    <3>2. n.x = m.x - 1 /\ n.x \in Nat
      BY <1>4, <1>10, <1>15, <2>1, <2>4, Effects
    <3>3. due' = Rounds(n.x, n.y) + 127 + n.y
      <4>1. Rounds(n.x + 1, n.y) = Rounds(n.x, n.y) + 127 + n.y
        BY <1>10, <1>15, <3>2, RoundsFacts
      <4> QED
        BY <1>10, <1>15, <2>2, <3>2, <4>1
    <3> QED
      BY <1>2, <1>10, <1>15, <3>1, <3>2, <3>3 DEF NoteOnTime
  <2> QED
    BY <2>3, <2>4
<1>16. CASE m.pc = 19
  <2>1. i.op = "irq"
    BY <1>1, <1>16, SounderCode DEF I, m
  <2>2. n.pc = 11
    BY <1>4, <1>5, <1>16, <2>1 DEF Taken
  <2> QED
    BY <1>2, <1>4, <2>1, <2>2 DEF NoteOnTime
<1> QED
  BY <1>2, <1>7, <1>8, <1>9, <1>11, <1>12, <1>13, <1>14, <1>15, <1>16

LEMMA OthersOnTime ==
  ASSUME Inv, OnTime, asked' \cap {SOUNDER} = asked \cap {SOUNDER}, due' = due,
         machine'[SOUNDER] = machine[SOUNDER]
  PROVE  OnTime'
<1>1. SOUNDER \in asked' <=> SOUNDER \in asked
  OBVIOUS
<1> QED
  BY <1>1, Zenon DEF OnTime

LEMMA NextOnTime == Inv /\ OnTime /\ [Next]_vars => OnTime'
<1> SUFFICES ASSUME Inv, OnTime, [Next]_vars PROVE OnTime'
  OBVIOUS
<1>1. RGB \in Machines /\ SOUNDER \in Machines /\ RGB # SOUNDER
  BY DEF Machines, RGB, SOUNDER
<1>2. ASSUME NEW is_rgbw \in BOOLEAN, RGB_init_pio(is_rgbw) PROVE OnTime'
  <2>1. machine'[SOUNDER] = machine[SOUNDER]
    BY <1>1, <1>2, StartedMachine DEF RGB_init_pio
  <2> QED
    BY <1>1, <1>2, <2>1, OthersOnTime DEF RGB_init_pio
<1>3. ASSUME Sounder_init PROVE OnTime'
  <2> DEFINE n == machine'[SOUNDER]
  <2>1. machine' = Started(SOUNDER, 2)
    BY <1>3 DEF Sounder_init
  <2>2. n.bits = 2 /\ n.fifo = <<>> /\ n.pc = Base(SOUNDER)
    BY <1>1, <2>1, StartedMachine
  <2>3. Base(SOUNDER) = 11
    BY Lengths DEF Base, PIO_SOUNDER_INST_HEAD, RGB, SOUNDER
  <2> HIDE DEF n
  <2>4. NoteOnTime(n, due')
    BY <2>2, <2>3 DEF NoteOnTime
  <2> QED
    BY <2>4 DEF OnTime, n
<1>4. ASSUME NEW count \in Counts, RGB_init_dma_ws2812(count) PROVE OnTime'
  BY <1>4, OthersOnTime DEF RGB_init_dma_ws2812
<1>5. ASSUME NEW buffer \in Buffers, RGB_dma_channel_set_read_addr(buffer) PROVE OnTime'
  BY <1>5, OthersOnTime DEF RGB_dma_channel_set_read_addr
<1>6. ASSUME Dma PROVE OnTime'
  <2>1. machine'[SOUNDER] = machine[SOUNDER]
    BY <1>1, <1>6, PutInside DEF Dma
  <2> QED
    BY <1>6, <2>1, OthersOnTime DEF Dma
<1>7. ASSUME NEW note \in Notes, PutNote(note) PROVE OnTime'
  <2> DEFINE m == machine[SOUNDER]
             n == machine'[SOUNDER]
  <2>1. SOUNDER \in asked /\ Put(SOUNDER, note) /\ due' = due /\ asked' = asked
    BY <1>7 DEF PutNote
  <2>2. n = [m EXCEPT !.fifo = Append(@, note)] /\ DOMAIN m = Fields
    BY <1>1, <2>1, PutInside DEF Inv, Inside
  <2>3. NoteOnTime(m, due)
    BY <2>1 DEF OnTime
  <2> HIDE DEF m, n
  <2>4. /\ n.pc = m.pc /\ n.bits = m.bits /\ n.osr = m.osr /\ n.x = m.x /\ n.y = m.y
        /\ n.fifo = Append(m.fifo, note)
    BY <2>2 DEF Fields
  <2>5. n.fifo \in Seq(Note)
    <3>1. m.fifo \in Seq(Note)
      BY <2>3 DEF NoteOnTime
    <3>2. note \in Note
      <4>1. Notes \subseteq Note
        BY PioAssumption
      <4> QED
        BY <4>1
    <3> QED
      BY <2>4, <3>1, <3>2
  <2>6. NoteOnTime(n, due)
    <3>1. n.pc = m.pc /\ n.bits = m.bits /\ n.osr = m.osr /\ n.x = m.x /\ n.y = m.y
      BY <2>4
    <3> QED
      BY <2>3, <2>5, <3>1, SMT DEF NoteOnTime
  <2> QED
    BY <2>1, <2>6 DEF OnTime, n
<1>8. ASSUME NEW sm \in Machines, Execute(sm) PROVE OnTime'
  <2>1. CASE sm = SOUNDER
    BY <1>8, <2>1, ExecuteOnTime
  <2>2. CASE sm = RGB
    <3>1. machine'[SOUNDER] = machine[SOUNDER] /\ asked' = asked
      BY <1>1, <1>8, <2>2 DEF Execute
    <3>2. due' = due
      BY <1>8, <2>2, Zenon DEF Execute
    <3> QED
      BY <3>1, <3>2, OthersOnTime
  <2> QED
    BY <2>1, <2>2 DEF Machines
<1>9. ASSUME UNCHANGED vars PROVE OnTime'
  BY <1>9, OthersOnTime DEF vars
<1> QED
  BY <1>2, <1>3, <1>4, <1>5, <1>6, <1>7, <1>8, <1>9 DEF Next

(* A note of any length raises its interrupt, which makes the handler of   *)
(* src/sounder.c fetch the next one, when its time is over and not a cycle *)
(* earlier or later, also beside the initialisations and the LEDs.         *)
THEOREM NotesTakeTheirTime == Spec => NoteTakesItsTime
<1>1. Init => OnTime
  BY DEF Init, OnTime
<1>2. Inv /\ OnTime /\ [Next]_vars
        => [Execute(SOUNDER) /\ Instruction(SOUNDER).op = "irq" => due = 0]_vars
  <2> SUFFICES ASSUME Inv, OnTime, Execute(SOUNDER), Instruction(SOUNDER).op = "irq"
               PROVE  due = 0
    OBVIOUS
  <2>1. SOUNDER \in asked
    BY DEF Execute, Inv, Inside, Machines
  <2>2. machine[SOUNDER].pc = 19
    BY <2>1, SounderCode DEF I
  <2> QED
    BY <2>1, <2>2 DEF OnTime, NoteOnTime
<1> QED
  BY <1>1, <1>2, InvHolds, NextOnTime, PTL DEF Spec, NoteTakesItsTime

(***************************************************************************)
(* The bits of a frame                                                     *)
(***************************************************************************)
Bit == 0 .. 1

LEMMA DivMod ==
  ASSUME NEW b \in Nat \ {0}, NEW q \in Nat, NEW r \in 0 .. b - 1
  PROVE  (q * b + r) \div b = q /\ (q * b + r) % b = r
  OBVIOUS

LEMMA DivModParts ==
  ASSUME NEW b \in Nat \ {0}, NEW k \in Nat
  PROVE  /\ k \div b \in Nat /\ k % b \in 0 .. b - 1
         /\ k = (k \div b) * b + (k % b)
  OBVIOUS

LEMMA DivModShift ==
  ASSUME NEW b \in Nat \ {0}, NEW n \in Nat, NEW k \in Nat
  PROVE  (n * b + k) \div b = n + (k \div b) /\ (n * b + k) % b = k % b
<1> DEFINE q == k \div b
           r == k % b
<1>1. q \in Nat /\ r \in 0 .. b - 1 /\ k = q * b + r
  BY DivModParts
<1> HIDE DEF q, r
<1>2. n * b + k = (n + q) * b + r /\ n + q \in Nat
  BY <1>1
<1>3. (n * b + k) \div b = n + q /\ (n * b + k) % b = r
  BY <1>1, <1>2, DivMod
<1> QED
  BY <1>3 DEF q, r

LEMMA DivModBelow ==
  ASSUME NEW b \in Nat \ {0}, NEW n \in Nat, NEW k \in Nat, k < n * b
  PROVE  k \div b \in 0 .. n - 1 /\ k % b \in 0 .. b - 1
  OBVIOUS

(* The width of a colour is one of the two, and a word has as many bits.   *)
Width == {RgbBits, RgbwBits}

LEMMA WidthFacts ==
  ASSUME NEW b \in Width
  PROVE  b \in Nat \ {0} /\ b <= RgbwBits /\ RgbwBits \in Nat
  BY PioAssumption DEF Width

LEMMA Distributes ==
  ASSUME NEW a \in Nat, NEW c \in Nat, NEW b \in Nat
  PROVE  (a + c) * b = a * b + c * b /\ a * b \in Nat /\ c * b \in Nat
  OBVIOUS

LEMMA ColourAt ==
  ASSUME NEW f \in Seq(Word), NEW b \in Width, NEW k \in 1 .. Len(f) * b
  PROVE  /\ (k - 1) \div b \in 0 .. Len(f) - 1 /\ (k - 1) % b \in 0 .. b - 1
         /\ Colours(f, b)[k] = f[((k - 1) \div b) + 1][((k - 1) % b) + 1]
         /\ Colours(f, b)[k] \in Bit
<1> DEFINE q == (k - 1) \div b
           r == (k - 1) % b
<1>1. b \in Nat \ {0} /\ b <= RgbwBits /\ RgbwBits \in Nat /\ Len(f) \in Nat
  BY WidthFacts
<1>2. Len(f) * b \in Nat
  BY <1>1
<1>3. k - 1 \in Nat /\ k - 1 < Len(f) * b
  BY <1>2
<1>4. q \in 0 .. Len(f) - 1 /\ r \in 0 .. b - 1
  BY <1>1, <1>3, DivModBelow
<1>5. Colours(f, b)[k] = f[q + 1][r + 1]
  BY Zenon DEF Colours
<1> HIDE DEF q, r
<1>6. f[q + 1] \in Word /\ r + 1 \in 1 .. RgbwBits
  BY <1>1, <1>4
<1>7. f[q + 1][r + 1] \in Bit
  BY <1>6 DEF Word, Bit
<1> QED
  BY <1>4, <1>5, <1>7 DEF q, r

LEMMA ColoursSeq ==
  ASSUME NEW f \in Seq(Word), NEW b \in Width
  PROVE  Colours(f, b) \in Seq(Bit) /\ Len(Colours(f, b)) = Len(f) * b
<1>1. Len(f) * b \in Nat
  BY WidthFacts
<1>2. Colours(f, b) = [k \in 1 .. Len(f) * b |-> Colours(f, b)[k]]
  BY Zenon DEF Colours
<1> DEFINE c == Colours(f, b)
           n == Len(f) * b
<1>3. \A k \in 1 .. n : c[k] \in Bit
  BY ColourAt
<1> HIDE DEF c, n
<1>4. c \in [1 .. n -> Bit]
  BY <1>2, <1>3 DEF c, n
<1>5. n \in Nat
  BY <1>1 DEF n
<1>6. c \in Seq(Bit) /\ Len(c) = n
  BY <1>4, <1>5
<1> QED
  BY <1>6 DEF c, n

LEMMA ColoursConcat ==
  ASSUME NEW s \in Seq(Word), NEW t \in Seq(Word), NEW b \in Width
  PROVE  Colours(s \o t, b) = Colours(s, b) \o Colours(t, b)
<1> DEFINE st == s \o t
           n == Len(s) * b
           left == Colours(st, b)
           right == Colours(s, b) \o Colours(t, b)
<1>1. /\ st \in Seq(Word) /\ Len(st) = Len(s) + Len(t)
      /\ \A i \in 1 .. Len(s) + Len(t) :
           st[i] = IF i <= Len(s) THEN s[i] ELSE t[i - Len(s)]
  BY ConcatProperties, Zenon
<1>2. b \in Nat \ {0} /\ Len(s) \in Nat /\ Len(t) \in Nat
  BY WidthFacts
<1>3. /\ Colours(s, b) \in Seq(Bit) /\ Len(Colours(s, b)) = Len(s) * b
      /\ Colours(t, b) \in Seq(Bit) /\ Len(Colours(t, b)) = Len(t) * b
      /\ left \in Seq(Bit) /\ Len(left) = Len(st) * b
  BY <1>1, ColoursSeq
<1>4. Len(st) * b = Len(s) * b + Len(t) * b /\ Len(s) * b \in Nat /\ Len(t) * b \in Nat
  <2>1. Len(st) = Len(s) + Len(t)
    BY <1>1
  <2> HIDE DEF st
  <2>2. b \in Nat /\ Len(s) \in Nat /\ Len(t) \in Nat
    BY <1>2
  <2>3. /\ (Len(s) + Len(t)) * b = Len(s) * b + Len(t) * b
        /\ Len(s) * b \in Nat /\ Len(t) * b \in Nat
    BY <2>2, Distributes, Zenon
  <2> QED
    BY <2>1, <2>3, Zenon
<1>5. right \in Seq(Bit) /\ Len(right) = Len(s) * b + Len(t) * b
  <2>1. /\ Colours(s, b) \in Seq(Bit) /\ Colours(t, b) \in Seq(Bit)
        /\ Len(Colours(s, b)) = Len(s) * b /\ Len(Colours(t, b)) = Len(t) * b
    BY <1>3
  <2>2. /\ right \in Seq(Bit)
        /\ Len(right) = Len(Colours(s, b)) + Len(Colours(t, b))
    BY <2>1, ConcatProperties, Zenon
  <2> QED
    BY <2>1, <2>2, Zenon
<1>6. \A k \in 1 .. Len(s) * b + Len(t) * b :
        right[k] = IF k <= Len(s) * b THEN Colours(s, b)[k]
                   ELSE Colours(t, b)[k - Len(s) * b]
  <2> DEFINE cs == Colours(s, b)
             ct == Colours(t, b)
  <2>1. cs \in Seq(Bit) /\ ct \in Seq(Bit) /\ Len(cs) = Len(s) * b /\ Len(ct) = Len(t) * b
    BY <1>3
  <2> HIDE DEF cs, ct
  <2>2. \A k \in 1 .. Len(cs) + Len(ct) :
          (cs \o ct)[k] = IF k <= Len(cs) THEN cs[k] ELSE ct[k - Len(cs)]
    BY <2>1, ConcatProperties, Zenon
  <2>3. \A k \in 1 .. Len(s) * b + Len(t) * b :
          (cs \o ct)[k] = IF k <= Len(s) * b THEN cs[k] ELSE ct[k - Len(s) * b]
    BY <2>1, <2>2, Zenon
  <2> QED
    BY <2>3 DEF cs, ct
<1>7. ASSUME NEW k \in 1 .. Len(s) * b + Len(t) * b
      PROVE  left[k] = right[k]
  <2> DEFINE q == (k - 1) \div b
             r == (k - 1) % b
  <2>1. k \in 1 .. Len(st) * b
    BY <1>4
  <2>2. left[k] = st[q + 1][r + 1] /\ q \in 0 .. Len(st) - 1
    BY <1>1, <2>1, ColourAt
  <2>3. CASE k <= Len(s) * b
    <3>1. k \in 1 .. Len(s) * b
      BY <2>3, <1>4
    <3>2. Colours(s, b)[k] = s[q + 1][r + 1] /\ q \in 0 .. Len(s) - 1
      BY <3>1, ColourAt
    <3>3. right[k] = Colours(s, b)[k]
      BY <1>6, <2>3, Zenon
    <3> HIDE DEF q, r, st
    <3>4. q + 1 \in 1 .. Len(s) + Len(t) /\ q + 1 <= Len(s)
      BY <1>2, <3>2
    <3>5. st[q + 1] = s[q + 1]
      BY <1>1, <3>4, Zenon
    <3> QED
      BY <2>2, <3>2, <3>3, <3>5, Zenon
  <2>4. CASE ~(k <= Len(s) * b)
    <3> DEFINE j == k - Len(s) * b
               p == (j - 1) \div b
    <3>1. j \in 1 .. Len(t) * b /\ j - 1 \in Nat /\ k - 1 = Len(s) * b + (j - 1)
      BY <1>4, <2>4
    <3> HIDE DEF j
    <3>2. q = Len(s) + p /\ r = (j - 1) % b
      <4>1. /\ (Len(s) * b + (j - 1)) \div b = Len(s) + p
            /\ (Len(s) * b + (j - 1)) % b = (j - 1) % b
        BY <1>2, <3>1, DivModShift, Zenon
      <4> QED
        BY <3>1, <4>1, Zenon
    <3>3. Colours(t, b)[j] = t[p + 1][r + 1] /\ p \in 0 .. Len(t) - 1
      BY <3>1, <3>2, ColourAt
    <3>4. right[k] = Colours(t, b)[j]
      BY <1>6, <2>4, Zenon DEF j
    <3> HIDE DEF q, r, st, p, right
    <3> DEFINE i == q + 1
    <3>5. i \in 1 .. Len(s) + Len(t) /\ ~(i <= Len(s)) /\ i - Len(s) = p + 1
      BY <1>2, <3>2, <3>3
    <3> HIDE DEF i
    <3>6. st[i] = t[i - Len(s)]
      BY <1>1, <3>5, Zenon
    <3>7. st[q + 1] = t[p + 1]
      BY <3>5, <3>6, Zenon DEF i
    <3> QED
      BY <2>2, <3>3, <3>4, <3>7, Zenon
  <2> QED
    BY <2>3, <2>4
<1> HIDE DEF left, right
<1>8. left = right
  BY <1>3, <1>4, <1>5, <1>7, SeqEqual
<1> QED
  BY <1>8 DEF left, right, st

LEMMA ColoursOne ==
  ASSUME NEW w \in Word, NEW b \in Width
  PROVE  /\ Colours(<<w>>, b) = SubSeq(w, 1, b)
         /\ SubSeq(w, 1, b) \in Seq(Bit) /\ SubSeq(w, 1, b) # <<>>
<1> DEFINE c == Colours(<<w>>, b)
           v == SubSeq(w, 1, b)
<1>1. b \in Nat \ {0} /\ b <= RgbwBits /\ RgbwBits \in Nat
  BY WidthFacts
<1>2. <<w>> \in Seq(Word) /\ Len(<<w>>) = 1 /\ <<w>>[1] = w
  OBVIOUS
<1>3. c \in Seq(Bit) /\ Len(c) = b
  <2> DEFINE f == <<w>>
  <2>1. f \in Seq(Word) /\ Len(f) = 1
    BY <1>2
  <2> HIDE DEF f
  <2>2. Len(f) * b = b
    BY <1>1, <2>1
  <2>3. Colours(f, b) \in Seq(Bit) /\ Len(Colours(f, b)) = b
    BY <2>1, <2>2, ColoursSeq, Zenon
  <2> QED
    BY <2>3 DEF f
<1>4. \A k \in 1 .. b : w[k] \in Bit
  BY <1>1 DEF Word, Bit
<1>5. v \in Seq(Bit) /\ Len(v) = b /\ \A k \in 1 .. b : v[k] = w[k]
  BY <1>1, <1>4, SubSeqProperties
<1>6. ASSUME NEW k \in 1 .. b
      PROVE  c[k] = w[k]
  <2>1. (k - 1) \div b = 0 /\ (k - 1) % b = k - 1
    BY <1>1, DivMod, 0 * b + (k - 1) = k - 1, k - 1 \in 0 .. b - 1
  <2>2. k \in 1 .. Len(<<w>>) * b
    BY <1>1, <1>2
  <2>3. c[k] = <<w>>[((k - 1) \div b) + 1][((k - 1) % b) + 1]
    BY <1>2, <2>2, ColourAt
  <2>4. 0 + 1 = 1 /\ k - 1 + 1 = k
    OBVIOUS
  <2> QED
    BY <1>2, <2>1, <2>3, <2>4
<1> HIDE DEF c, v
<1>7. c = v
  BY <1>3, <1>5, <1>6, SeqEqual
<1>8. v # <<>>
  BY <1>1, <1>5
<1> QED
  BY <1>5, <1>7, <1>8 DEF c, v

LEMMA ColoursNone ==
  ASSUME NEW b \in Width
  PROVE  Colours(<<>>, b) = <<>>
<1>1. <<>> \in Seq(Word) /\ Len(<<>>) = 0
  OBVIOUS
<1>2. 0 * b = 0
  BY WidthFacts
<1>3. Colours(<<>>, b) \in Seq(Bit) /\ Len(Colours(<<>>, b)) = 0
  BY <1>1, <1>2, ColoursSeq
<1> QED
  BY <1>3, EmptySeq

(***************************************************************************)
(* What is on the wire                                                     *)
(***************************************************************************)
(* How long the pin has had its level at each instruction: the pulse of a  *)
(* 1 ends with the instruction at 6 after 7 cycles, that of a 0 with the   *)
(* one at 8 after 3, and the next one begins at 2 after 7 or more.         *)
InPulse(m) ==
  /\ m.pc \in {0, 1, 2} => m.level = 0 /\ m.run \in 7 .. 8
  /\ m.pc \in {0, 1} => m.osr = <<>>
  /\ m.pc \in {2, 3} => m.osr # <<>>
  /\ m.pc = 3 => m.level = 1 /\ m.run = 1
  /\ m.pc = 4 => m.level = 1 /\ m.run = 2 /\ m.x \in Bit
  /\ m.pc = 5 => m.level = 1 /\ m.run = 3 /\ m.x = 1
  /\ m.pc = 6 => m.level = 1 /\ m.run = 7 /\ m.x = 1
  /\ m.pc = 8 => m.level = 1 /\ m.run = 3 /\ m.x = 0
  /\ m.pc \in {7, 9} => m.level = 0 /\ m.run = 5
  /\ m.pc = 10 => m.level = 0 /\ m.run = 6

(* The bit whose pulse has not ended.                                      *)
Sending(m) == IF m.pc \in {4, 5, 6, 8} THEN <<m.x>> ELSE <<>>

(* The words that are to be pulled: in the FIFO, and still to be moved.    *)
Waiting == machine[RGB].fifo \o SubSeq(frame, moved + 1, Len(frame))

FrameTypes ==
  /\ frame \in Seq(Word) /\ moved \in 0 .. Len(frame)
  /\ leds_count \in Counts \cup {0}

(* The LEDs wait for the bit on the wire, the ones in the shift register   *)
(* and those of the waiting words, in this order.                          *)
OnWire(m) ==
  /\ m.bits \in Width
  /\ m.fifo \in Seq(Word) /\ m.osr \in Seq(Bit)
  /\ InPulse(m)
  /\ expected = (Sending(m) \o m.osr) \o Colours(Waiting, m.bits)

NotStarted(m) ==
  /\ frame = <<>> /\ expected = <<>>
  /\ m.level = 0 /\ m.run = LongRun

Carrying ==
  /\ FrameTypes
  /\ RGB \in asked => OnWire(machine[RGB])
  /\ RGB \notin asked => NotStarted(machine[RGB])

LEMMA HeadFirst ==
  ASSUME NEW S, NEW s \in Seq(S), s # <<>>
  PROVE  /\ Head(s) \in S /\ Tail(s) \in Seq(S)
         /\ <<Head(s)>> \o Tail(s) = s
<1>1. Head(s) \in S /\ Tail(s) \in Seq(S) /\ Len(s) \in Nat \ {0}
  BY HeadTailProperties, EmptySeq
<1>2. SubSeq(s, 1, Len(s)) = <<s[1]>> \o SubSeq(s, 1 + 1, Len(s))
  BY <1>1, SubSeqRecursiveFirst
<1>3. SubSeq(s, 1, Len(s)) = s
  BY SubSeqFull
<1>4. Tail(s) = SubSeq(s, 2, Len(s))
  BY TailIsSubSeq
<1>5. Head(s) = s[1] /\ 1 + 1 = 2
  OBVIOUS
<1> QED
  BY <1>1, <1>2, <1>3, <1>4, <1>5, Zenon

LEMMA FirstOff ==
  ASSUME NEW x \in Bit, NEW s \in Seq(Bit), NEW t \in Seq(Bit)
  PROVE  LET u == (<<x>> \o s) \o t IN
         u # <<>> /\ Head(u) = x /\ Tail(u) = s \o t
<1> DEFINE one == <<x>>
           u == one \o (s \o t)
           v == s \o t
<1>1. one \in Seq(Bit) /\ Len(one) = 1 /\ one[1] = x
  OBVIOUS
<1>2. v \in Seq(Bit) /\ Len(v) \in Nat
  BY ConcatProperties
<1> HIDE DEF one
<1>3. (one \o s) \o t = one \o (s \o t)
  BY <1>1, ConcatAssociative
<1> HIDE DEF v
<1>4. /\ u \in Seq(Bit) /\ Len(u) = Len(one) + Len(v)
      /\ \A k \in 1 .. Len(one) + Len(v) :
           u[k] = IF k <= Len(one) THEN one[k] ELSE v[k - Len(one)]
  BY <1>1, <1>2, ConcatProperties, Zenon DEF v
<1> HIDE DEF u
<1>5. Len(u) = 1 + Len(v) /\ u[1] = x /\ \A k \in 1 .. Len(v) : u[k + 1] = v[k]
  BY <1>1, <1>2, <1>4
<1>6. u # <<>>
  BY <1>2, <1>5
<1>7. Head(u) = x
  BY <1>4, <1>5, <1>6
<1>8. /\ Tail(u) \in Seq(Bit) /\ Len(Tail(u)) = Len(u) - 1
      /\ \A k \in 1 .. Len(Tail(u)) : Tail(u)[k] = u[k + 1]
  BY <1>4, <1>6, HeadTailProperties
<1> DEFINE w == Tail(u)
<1> HIDE DEF w
<1>9. w \in Seq(Bit) /\ Len(w) = Len(v) /\ \A k \in 1 .. Len(w) : w[k] = v[k]
  <2>1. w \in Seq(Bit) /\ Len(w) = Len(u) - 1 /\ \A k \in 1 .. Len(w) : w[k] = u[k + 1]
    BY <1>8, Zenon DEF w
  <2> QED
    BY <1>2, <1>5, <2>1
<1>10. w = v
  BY <1>2, <1>9, SeqEqual
<1> QED
  BY <1>3, <1>6, <1>7, <1>10, Zenon DEF u, v, w, one

(* The program of the LEDs, where it is loaded.                            *)
LEMMA RgbCode ==
  ASSUME Inv, RGB \in asked
  PROVE  LET pc == machine[RGB].pc
             i == Instruction(RGB) IN
         /\ pc \in 0 .. 10
         /\ pc = 0 => i = I("set", 0, 0)
         /\ pc = 1 => i = I("pull", 0, 0)
         /\ pc = 2 => i = I("set", 1, 0)
         /\ pc = 3 => i = I("outX", 0, 0)
         /\ pc = 4 => i = I("jmpNotX", 8, 0)
         /\ pc = 5 => i = I("set", 1, 3)
         /\ pc = 6 => i = I("set", 0, 4)
         /\ pc = 7 => i = I("jmp", 10, 0)
         /\ pc = 8 => i = I("set", 0, 4)
         /\ pc = 9 => i = I("jmp", 10, 0)
         /\ pc = 10 => i = I("jmpNotOsre", 2, 0)
<1> DEFINE pc == machine[RGB].pc
           i == Instruction(RGB)
<1>1. RGB \in Machines /\ pc \in 0 .. 10
  BY Lengths DEF Inv, Inside, Machines
<1>2. i = Image(RGB, pc)
  BY <1>1, Lengths DEF Inv, Kept, Instruction
<1>3. Base(RGB) = 0 /\ Program(RGB) = ws2812_program
  BY DEF Base, Program, PIO_WS2812_INST_HEAD
<1>4. i = Relocated(ws2812_program[pc + 1], 0)
  BY <1>1, <1>2, <1>3 DEF Image
<1> HIDE DEF pc, i
<1>5. \A k \in 1 .. 11 : pc = k - 1 => i = Relocated(ws2812_program[k], 0)
  BY <1>1, <1>4
<1> QED
  BY <1>1, <1>5 DEF ws2812_program, Relocated, Jumps, I, pc, i

LEMMA SeenFacts ==
  ASSUME NEW m, NEW i
  PROVE  /\ i.op # "set" => Seen(m, i) = <<>>
         /\ i.op = "set" /\ i.arg = 0 /\ m.level = 0 => Seen(m, i) = <<>>
         /\ i.op = "set" /\ i.arg = 1 /\ m.level = 1 => Seen(m, i) = <<>>
         /\ i.op = "set" /\ i.arg = 1 /\ m.level = 0 /\ m.run \in 7 .. 8 => Seen(m, i) = <<>>
         /\ i.op = "set" /\ i.arg = 0 /\ m.level = 1 /\ m.run = 7 => Seen(m, i) = <<1>>
         /\ i.op = "set" /\ i.arg = 0 /\ m.level = 1 /\ m.run = 3 => Seen(m, i) = <<0>>
<1> DEFINE falls == i.op = "set" /\ i.arg < m.level
           early == i.op = "set" /\ i.arg > m.level /\ m.run < 7
<1>1. ~falls /\ ~early => Seen(m, i) = <<>>
  BY Zenon DEF Seen
<1> DEFINE pulse == CASE m.run = 7 -> 1 [] m.run = 3 -> 0 [] OTHER -> Bad
<1>2. falls /\ ~early => Seen(m, i) = <<pulse>>
  BY Zenon DEF Seen
<1>3. (m.run = 7 => pulse = 1) /\ (m.run = 3 => pulse = 0)
  <2>1. 3 # 7
    OBVIOUS
  <2>2. m.run = 7 => m.run # 3
    OBVIOUS
  <2>3. m.run = 7 => pulse = 1
    BY <2>2, Zenon
  <2>4. m.run = 3 => pulse = 0
    BY <2>1, Zenon
  <2> QED
    BY <2>3, <2>4
<1>4. i.op # "set" => ~falls /\ ~early
  OBVIOUS
<1>5. i.arg = m.level /\ m.level \in Bit => ~falls /\ ~early
  BY DEF Bit
<1>6. i.arg = 1 /\ m.level = 0 /\ m.run \in 7 .. 8 => ~falls /\ ~early
  OBVIOUS
<1>7. i.op = "set" /\ i.arg = 0 /\ m.level = 1 => falls /\ ~early
  OBVIOUS
<1> HIDE DEF falls, early, pulse
<1>8. 0 \in Bit /\ 1 \in Bit
  BY DEF Bit
<1> QED
  BY <1>1, <1>2, <1>3, <1>4, <1>5, <1>6, <1>7, <1>8

(* One instruction of a machine whose pulses are right.                    *)
LEMMA ExecutePulse ==
  ASSUME Inv, Carrying, Execute(RGB)
  PROVE  LET m == machine[RGB]
             n == machine'[RGB]
             i == Instruction(RGB) IN
         /\ InPulse(n) /\ n.bits = m.bits
         /\ m.pc = 1 => /\ m.fifo # <<>> /\ n.fifo = Tail(m.fifo)
                        /\ n.osr = SubSeq(Head(m.fifo), 1, m.bits)
         /\ m.pc # 1 => n.fifo = m.fifo
         /\ m.pc = 3 => m.osr # <<>> /\ n.osr = Tail(m.osr) /\ n.x = Head(m.osr)
         /\ m.pc \notin {1, 3} => n.osr = m.osr /\ n.x = m.x
         /\ m.pc \in {0, 1, 2, 7, 9, 10} => n.pc \in {0, 1, 2, 3, 10}
         /\ m.pc = 3 => n.pc = 4
         /\ m.pc \in {4, 5} => n.pc \in {5, 6, 8}
         /\ m.pc \in {6, 8} => n.pc \in {7, 9}
         /\ m.pc \in {6, 8} => m.x \in Bit /\ Seen(m, i) = <<m.x>>
         /\ m.pc \notin {6, 8} => Seen(m, i) = <<>>
<1> DEFINE m == machine[RGB]
           i == Instruction(RGB)
           n == machine'[RGB]
<1>1. RGB \in asked /\ RGB \in Machines /\ DOMAIN m = Fields
  BY DEF Execute, Inv, Inside, Machines
<1>2. OnWire(m) /\ m.pc \in 0 .. 10
  BY <1>1, RgbCode DEF Carrying
<1>3. n = After(RGB, m, i)
  BY <1>1 DEF Execute, Inv
<1>4. /\ n.pc = IF Taken(m, i) THEN i.arg ELSE Following(RGB, m.pc)
      /\ n.bits = m.bits
      /\ n.fifo = IF i.op = "pull" THEN Tail(m.fifo) ELSE m.fifo
      /\ n.osr = Shifted(m, i)
      /\ n.x = Counted(m, i)
      /\ n.level = Level(m, i)
      /\ n.run = Run(m, i)
  BY <1>1, <1>3, AfterInside
<1>5. Following(RGB, m.pc) = IF m.pc = 10 THEN 0 ELSE m.pc + 1
  <2>1. Base(RGB) = 0 /\ Len(Program(RGB)) = 11
    BY Lengths DEF Base, Program, PIO_WS2812_INST_HEAD
  <2> QED
    BY <2>1 DEF Following
<1>6. i.op = "pull" => m.fifo # <<>>
  BY DEF Execute
<1>7. /\ i.op = "pull" => n.osr = SubSeq(Head(m.fifo), 1, m.bits)
      /\ i.op = "outX" => n.osr = Tail(m.osr) /\ n.x = Head(m.osr)
      /\ i.op \notin {"pull", "outX", "outY", "jmpXDec"} => n.osr = m.osr /\ n.x = m.x
  BY <1>4, Effects
<1>8. InPulse(m) /\ m.fifo \in Seq(Word) /\ m.osr \in Seq(Bit) /\ m.bits \in Width
  BY <1>2 DEF OnWire
<1> SUFFICES /\ InPulse(n)
             /\ m.pc = 1 => /\ m.fifo # <<>> /\ n.fifo = Tail(m.fifo)
                            /\ n.osr = SubSeq(Head(m.fifo), 1, m.bits)
             /\ m.pc # 1 => n.fifo = m.fifo
             /\ m.pc = 3 => m.osr # <<>> /\ n.osr = Tail(m.osr) /\ n.x = Head(m.osr)
             /\ m.pc \notin {1, 3} => n.osr = m.osr /\ n.x = m.x
             /\ m.pc \in {0, 1, 2, 7, 9, 10} => n.pc \in {0, 1, 2, 3, 10}
             /\ m.pc = 3 => n.pc = 4
             /\ m.pc \in {4, 5} => n.pc \in {5, 6, 8}
             /\ m.pc \in {6, 8} => n.pc \in {7, 9}
             /\ m.pc \in {6, 8} => m.x \in Bit /\ Seen(m, i) = <<m.x>>
             /\ m.pc \notin {6, 8} => Seen(m, i) = <<>>
  BY <1>4, Zenon
<1>9. /\ m.pc = 0 => i = I("set", 0, 0)
      /\ m.pc = 1 => i = I("pull", 0, 0)
      /\ m.pc = 2 => i = I("set", 1, 0)
      /\ m.pc = 3 => i = I("outX", 0, 0)
      /\ m.pc = 4 => i = I("jmpNotX", 8, 0)
      /\ m.pc = 5 => i = I("set", 1, 3)
      /\ m.pc = 6 => i = I("set", 0, 4)
      /\ m.pc = 7 => i = I("jmp", 10, 0)
      /\ m.pc = 8 => i = I("set", 0, 4)
      /\ m.pc = 9 => i = I("jmp", 10, 0)
      /\ m.pc = 10 => i = I("jmpNotOsre", 2, 0)
  BY <1>1, RgbCode
<1>10. 0 \in Bit /\ 1 \in Bit
  BY DEF Bit
<1> HIDE DEF m, n, i
<1>11. CASE m.pc \in {0, 2, 5, 6, 8}
  <2>1. i.op = "set" /\ i.arg \in Bit
    BY <1>9, <1>10, <1>11 DEF I
  <2>2. n.pc = m.pc + 1 /\ n.osr = m.osr /\ n.x = m.x /\ n.fifo = m.fifo
    BY <1>4, <1>5, <1>7, <1>11, <2>1 DEF Taken
  <2>3. n.level = i.arg
    BY <1>4, <2>1 DEF Level
  <2>4. n.run = AtMost(1 + i.delay + (IF i.arg = m.level THEN m.run ELSE 0), 8)
    BY <1>4, <2>1, Zenon DEF Run, Level, LongRun
  <2>5. InPulse(n)
    <3>1. CASE m.pc = 0
      BY <1>8, <1>9, <2>2, <2>3, <2>4, <3>1 DEF InPulse, I, AtMost
    <3>2. CASE m.pc = 2
      BY <1>8, <1>9, <2>2, <2>3, <2>4, <3>2 DEF InPulse, I, AtMost
    <3>3. CASE m.pc = 5
      BY <1>8, <1>9, <2>2, <2>3, <2>4, <3>3 DEF InPulse, I, AtMost
    <3>4. CASE m.pc = 6
      BY <1>8, <1>9, <2>2, <2>3, <2>4, <3>4 DEF InPulse, I, AtMost
    <3>5. CASE m.pc = 8
      BY <1>8, <1>9, <2>2, <2>3, <2>4, <3>5 DEF InPulse, I, AtMost
    <3> QED
      BY <1>11, <3>1, <3>2, <3>3, <3>4, <3>5
  <2>6. /\ m.pc \in {6, 8} => m.x \in Bit /\ Seen(m, i) = <<m.x>>
        /\ m.pc \notin {6, 8} => Seen(m, i) = <<>>
    <3>1. CASE m.pc \in {0, 2, 5}
      BY <1>8, <1>9, <3>1, SeenFacts DEF InPulse, I
    <3>2. CASE m.pc = 6
      BY <1>8, <1>9, <1>10, <3>2, SeenFacts DEF InPulse, I
    <3>3. CASE m.pc = 8
      BY <1>8, <1>9, <1>10, <3>3, SeenFacts DEF InPulse, I
    <3> QED
      BY <1>11, <3>1, <3>2, <3>3
  <2> QED
    BY <1>11, <2>2, <2>5, <2>6
<1>12. CASE m.pc \in {1, 3, 4, 7, 9, 10}
  <2>1. i.op # "set" /\ i.delay = 0 /\ (i.op = "pull" <=> m.pc = 1)
    BY <1>9, <1>12 DEF I
  <2>2. n.level = m.level /\ n.run = AtMost(1 + m.run, 8)
    <3>1. n.level = m.level
      BY <1>4, <2>1 DEF Level
    <3>2. n.run = AtMost(1 + 0 + m.run, 8)
      BY <1>4, <2>1, Zenon DEF Run, Level, LongRun
    <3>3. m.run \in Int
      BY <1>8, <1>12 DEF InPulse
    <3> QED
      BY <3>1, <3>2, <3>3
  <2>3. Seen(m, i) = <<>>
    BY <2>1, SeenFacts
  <2>4. CASE m.pc = 1
    <3>1. i.op = "pull"
      BY <2>1, <2>4
    <3>2. n.pc = 2
      BY <1>4, <1>5, <2>4, <3>1 DEF Taken
    <3>3. n.osr = SubSeq(Head(m.fifo), 1, m.bits) /\ n.fifo = Tail(m.fifo) /\ m.fifo # <<>>
      BY <1>4, <1>6, <1>7, <3>1
    <3>4. n.osr # <<>>
      BY <1>8, <3>3, ColoursOne, HeadTailProperties
    <3>5. InPulse(n)
      BY <1>8, <2>2, <2>4, <3>2, <3>4 DEF InPulse, AtMost
    <3> QED
      BY <2>3, <2>4, <3>2, <3>3, <3>5
  <2>5. CASE m.pc = 3
    <3>1. i.op = "outX"
      BY <1>9, <2>5 DEF I
    <3>2. n.pc = 4
      BY <1>4, <1>5, <2>5, <3>1 DEF Taken
    <3>3. m.osr # <<>> /\ n.osr = Tail(m.osr) /\ n.x = Head(m.osr) /\ n.fifo = m.fifo
      BY <1>4, <1>7, <1>8, <2>5, <3>1 DEF InPulse
    <3>4. n.x \in Bit
      BY <1>8, <3>3, HeadTailProperties
    <3>5. InPulse(n)
      BY <1>8, <2>2, <2>5, <3>2, <3>4 DEF InPulse, AtMost
    <3> QED
      BY <2>3, <2>5, <3>2, <3>3, <3>5
  <2>6. CASE m.pc \in {4, 7, 9, 10}
    <3>1. n.osr = m.osr /\ n.x = m.x /\ n.fifo = m.fifo
      BY <1>4, <1>7, <1>9, <2>6 DEF I
    <3>2. /\ m.pc = 4 => n.pc = IF m.x = 0 THEN 8 ELSE 5
          /\ m.pc \in {7, 9} => n.pc = 10
          /\ m.pc = 10 => n.pc = IF m.osr # <<>> THEN 2 ELSE 0
      BY <1>4, <1>5, <1>9, <2>6 DEF I, Taken
    <3>3. InPulse(n)
      <4>1. CASE m.pc = 4
        <5>1. m.x \in Bit /\ m.level = 1 /\ m.run = 2
          BY <1>8, <4>1 DEF InPulse
        <5> QED
          BY <2>2, <3>1, <3>2, <4>1, <5>1 DEF InPulse, AtMost, Bit
      <4>2. CASE m.pc \in {7, 9}
        BY <1>8, <2>2, <3>1, <3>2, <4>2 DEF InPulse, AtMost
      <4>3. CASE m.pc = 10
        BY <1>8, <2>2, <3>1, <3>2, <4>3 DEF InPulse, AtMost
      <4> QED
        BY <2>6, <4>1, <4>2, <4>3
    <3> QED
      BY <2>3, <2>6, <3>1, <3>2, <3>3
  <2> QED
    BY <1>12, <2>4, <2>5, <2>6
<1> QED
  BY <1>2, <1>11, <1>12

LEMMA WaitingTypes ==
  ASSUME Carrying, RGB \in asked
  PROVE  /\ SubSeq(frame, moved + 1, Len(frame)) \in Seq(Word)
         /\ Waiting \in Seq(Word)
<1> DEFINE rest == SubSeq(frame, moved + 1, Len(frame))
           fifo == machine[RGB].fifo
<1>1. frame \in Seq(Word) /\ moved \in 0 .. Len(frame) /\ fifo \in Seq(Word)
  BY DEF Carrying, FrameTypes, OnWire
<1>2. rest \in Seq(Word)
  BY <1>1, SubSeqProperties
<1> HIDE DEF rest, fifo
<1>3. fifo \o rest \in Seq(Word)
  BY <1>1, <1>2, ConcatProperties
<1> QED
  BY <1>2, <1>3 DEF Waiting, rest, fifo

(* A pull takes the first waiting word, and leaves the others.             *)
LEMMA PullWaiting ==
  ASSUME NEW fifo \in Seq(Word), NEW rest \in Seq(Word), NEW b \in Width, fifo # <<>>
  PROVE  Colours(fifo \o rest, b) = SubSeq(Head(fifo), 1, b) \o Colours(Tail(fifo) \o rest, b)
<1> DEFINE w == Head(fifo)
           one == <<w>>
           others == Tail(fifo)
           left == others \o rest
<1>1. w \in Word /\ others \in Seq(Word) /\ one \o others = fifo
  BY HeadFirst
<1>2. one \in Seq(Word)
  BY <1>1
<1> HIDE DEF w, one, others
<1>3. left \in Seq(Word)
  BY <1>1, ConcatProperties
<1>4. fifo \o rest = one \o left
  <2> HIDE DEF left
  <2>1. one \in Seq(Word) /\ others \in Seq(Word) /\ rest \in Seq(Word)
    BY <1>1, <1>2
  <2>2. (one \o others) \o rest = one \o (others \o rest)
    BY <2>1, ConcatAssociative
  <2> QED
    BY <1>1, <2>2, Zenon DEF left
<1> HIDE DEF left
<1>5. Colours(one \o left, b) = Colours(one, b) \o Colours(left, b)
  BY <1>2, <1>3, ColoursConcat
<1>6. Colours(one, b) = SubSeq(w, 1, b)
  BY <1>1, ColoursOne DEF one
<1> QED
  BY <1>4, <1>5, <1>6, Zenon DEF left, others, w

LEMMA ExecuteCarrying ==
  ASSUME Inv, Carrying, Execute(RGB)
  PROVE  /\ Carrying'
         /\ Seen(machine[RGB], Instruction(RGB)) # <<>> =>
              /\ expected # <<>>
              /\ Seen(machine[RGB], Instruction(RGB)) = <<Head(expected)>>
<1> DEFINE m == machine[RGB]
           i == Instruction(RGB)
           n == machine'[RGB]
           b == m.bits
           rest == SubSeq(frame, moved + 1, Len(frame))
           c == Colours(Waiting, b)
           d == Colours(Waiting', b)
<1>1. RGB \in asked /\ RGB \in Machines
  BY DEF Execute, Inv, Inside, Machines
<1>2. /\ asked' = asked /\ frame' = frame /\ moved' = moved /\ leds_count' = leds_count
      /\ expected' = IF Seen(m, i) # <<>> /\ expected # <<>> THEN Tail(expected) ELSE expected
  BY Zenon DEF Execute
<1>3. OnWire(m) /\ FrameTypes /\ FrameTypes'
  BY <1>1, <1>2 DEF Carrying, FrameTypes
<1>4. /\ InPulse(n) /\ n.bits = m.bits
      /\ m.pc = 1 => /\ m.fifo # <<>> /\ n.fifo = Tail(m.fifo)
                     /\ n.osr = SubSeq(Head(m.fifo), 1, m.bits)
      /\ m.pc # 1 => n.fifo = m.fifo
      /\ m.pc = 3 => m.osr # <<>> /\ n.osr = Tail(m.osr) /\ n.x = Head(m.osr)
      /\ m.pc \notin {1, 3} => n.osr = m.osr /\ n.x = m.x
      /\ m.pc \in {0, 1, 2, 7, 9, 10} => n.pc \in {0, 1, 2, 3, 10}
      /\ m.pc = 3 => n.pc = 4
      /\ m.pc \in {4, 5} => n.pc \in {5, 6, 8}
      /\ m.pc \in {6, 8} => n.pc \in {7, 9}
      /\ m.pc \in {6, 8} => m.x \in Bit /\ Seen(m, i) = <<m.x>>
      /\ m.pc \notin {6, 8} => Seen(m, i) = <<>>
  BY ExecutePulse, Zenon
<1>5. rest \in Seq(Word) /\ Waiting \in Seq(Word)
  BY <1>1, WaitingTypes
<1>6. Waiting = m.fifo \o rest /\ Waiting' = n.fifo \o rest
  BY <1>2 DEF Waiting
<1>7. /\ m.bits \in Width /\ m.fifo \in Seq(Word) /\ m.osr \in Seq(Bit)
      /\ expected = (Sending(m) \o m.osr) \o c
      /\ m.pc \in 0 .. 10
  BY <1>1, <1>3, RgbCode DEF OnWire
<1>8. c \in Seq(Bit)
  BY <1>5, <1>7, ColoursSeq
<1>9. SUFFICES /\ n.fifo \in Seq(Word) /\ n.osr \in Seq(Bit)
               /\ expected' = (Sending(n) \o n.osr) \o d
               /\ Seen(m, i) # <<>> => expected # <<>> /\ Seen(m, i) = <<Head(expected)>>
  <2>1. OnWire(machine[RGB])'
    BY <1>4, <1>7, <1>9, Zenon DEF OnWire
  <2> QED
    BY <1>1, <1>2, <1>3, <1>9, <2>1, Zenon DEF Carrying
<1>10. <<>> \in Seq(Bit)
  OBVIOUS
<1> HIDE DEF m, i, n, rest
<1>11. CASE m.pc = 1
  <2>1. Sending(m) = <<>> /\ Sending(n) = <<>> /\ Seen(m, i) = <<>>
    BY <1>4, <1>11 DEF Sending
  <2>2. m.osr = <<>>
    BY <1>3, <1>11 DEF OnWire, InPulse
  <2>3. n.osr = SubSeq(Head(m.fifo), 1, b) /\ n.fifo = Tail(m.fifo) /\ m.fifo # <<>>
    BY <1>4, <1>11
  <2>4. Head(m.fifo) \in Word /\ Tail(m.fifo) \in Seq(Word)
    BY <1>7, <2>3, HeadTailProperties
  <2>5. n.osr \in Seq(Bit)
    BY <1>7, <2>3, <2>4, ColoursOne
  <2>6. c = n.osr \o d
    <3>1. c = Colours(m.fifo \o rest, b) /\ d = Colours(Tail(m.fifo) \o rest, b)
      BY <1>6, <2>3, Zenon
    <3>2. Colours(m.fifo \o rest, b)
            = SubSeq(Head(m.fifo), 1, b) \o Colours(Tail(m.fifo) \o rest, b)
      BY <1>5, <1>7, <2>3, PullWaiting, Zenon
    <3> QED
      BY <2>3, <3>1, <3>2, Zenon
  <2>7. expected' = expected
    BY <1>2, <2>1, Zenon
  <2> HIDE DEF c, d
  <2>8. (<<>> \o <<>>) \o c = c /\ <<>> \o n.osr = n.osr
    BY <1>8, <1>10, <2>5, ConcatEmptySeq
  <2>9. expected' = (Sending(n) \o n.osr) \o d
    BY <1>7, <2>1, <2>2, <2>6, <2>7, <2>8, Zenon
  <2> QED
    BY <2>1, <2>3, <2>4, <2>5, <2>9, Zenon
<1>12. ASSUME m.pc # 1
       PROVE  n.fifo = m.fifo /\ d = c
  BY <1>4, <1>6, <1>12, Zenon
<1> HIDE DEF c, d
<1>13. CASE m.pc = 3
  <2>1. Sending(m) = <<>> /\ Sending(n) = <<Head(m.osr)>> /\ Seen(m, i) = <<>>
    BY <1>4, <1>13 DEF Sending
  <2>2. n.osr = Tail(m.osr) /\ m.osr # <<>>
    BY <1>4, <1>13
  <2>3. n.osr \in Seq(Bit) /\ Sending(n) \o n.osr = m.osr
    BY <1>7, <2>1, <2>2, HeadFirst
  <2>4. <<>> \o m.osr = m.osr
    BY <1>7, ConcatEmptySeq
  <2>5. expected' = expected
    BY <1>2, <2>1, Zenon
  <2>6. n.fifo = m.fifo /\ d = c
    BY <1>12, <1>13
  <2> QED
    BY <1>7, <2>1, <2>3, <2>4, <2>5, <2>6, Zenon
<1>14. CASE m.pc \in {6, 8}
  <2>1. m.x \in Bit /\ Sending(m) = <<m.x>> /\ Sending(n) = <<>> /\ Seen(m, i) = <<m.x>>
    BY <1>4, <1>14 DEF Sending
  <2>2. n.osr = m.osr /\ n.fifo = m.fifo /\ d = c
    BY <1>4, <1>12, <1>14
  <2>3. /\ (<<m.x>> \o m.osr) \o c # <<>>
        /\ Head((<<m.x>> \o m.osr) \o c) = m.x
        /\ Tail((<<m.x>> \o m.osr) \o c) = m.osr \o c
    BY <1>7, <1>8, <2>1, FirstOff
  <2>4. expected # <<>> /\ Head(expected) = m.x /\ Tail(expected) = m.osr \o c
    BY <1>7, <2>1, <2>3, Zenon
  <2>5. Seen(m, i) # <<>>
    BY <2>1
  <2>6. expected' = m.osr \o c
    BY <1>2, <2>4, <2>5, Zenon
  <2>7. <<>> \o m.osr = m.osr
    BY <1>7, ConcatEmptySeq
  <2> QED
    BY <1>7, <2>1, <2>2, <2>4, <2>6, <2>7, Zenon
<1>15. CASE m.pc \in {0, 2, 4, 5, 7, 9, 10}
  <2>1. Sending(n) = Sending(m) /\ Seen(m, i) = <<>>
    BY <1>4, <1>15 DEF Sending
  <2>2. n.osr = m.osr /\ n.fifo = m.fifo /\ d = c
    BY <1>4, <1>12, <1>15
  <2>3. expected' = expected
    BY <1>2, <2>1, Zenon
  <2> QED
    BY <1>7, <2>1, <2>2, <2>3, Zenon
<1>16. m.pc = 1 \/ m.pc = 3 \/ m.pc \in {6, 8} \/ m.pc \in {0, 2, 4, 5, 7, 9, 10}
  <2>1. m.pc \in 0 .. 10
    BY <1>7
  <2> QED
    BY <2>1
<1> QED
  BY <1>11, <1>13, <1>14, <1>15, <1>16, Zenon

(* Steps that leave the wire and what waits alone.                         *)
LEMMA OthersCarry ==
  ASSUME Carrying, RGB \in asked' <=> RGB \in asked, machine'[RGB] = machine[RGB],
         UNCHANGED <<leds_count, frame, moved, expected>>
  PROVE  Carrying'
<1>1. FrameTypes'
  BY DEF Carrying, FrameTypes
<1>2. Waiting' = Waiting
  BY DEF Waiting
<1>3. OnWire(machine[RGB]) => OnWire(machine[RGB])'
  BY <1>2, Zenon DEF OnWire
<1>4. NotStarted(machine[RGB]) => NotStarted(machine[RGB])'
  BY Zenon DEF NotStarted
<1> QED
  BY <1>1, <1>3, <1>4, Zenon DEF Carrying

(* The first initialisation finds nothing that waits.                      *)
LEMMA StartCarrying ==
  ASSUME Inv, Carrying, NEW bits \in Width, RGB \notin asked,
         asked' = asked \cup {RGB}, machine' = Started(RGB, bits),
         UNCHANGED <<leds_count, frame, moved, expected>>
  PROVE  Carrying'
<1> DEFINE m == machine[RGB]
           n == machine'[RGB]
<1>1. RGB \in Machines /\ NotStarted(m)
  BY DEF Machines, Carrying
<1>2. Base(RGB) = 0
  BY DEF Base, PIO_WS2812_INST_HEAD
<1>3. /\ n.pc = 0 /\ n.bits = bits /\ n.osr = <<>> /\ n.fifo = <<>>
      /\ n.level = m.level /\ n.run = m.run
  BY <1>1, <1>2, StartedMachine
<1>4. FrameTypes' /\ moved = 0 /\ frame' = <<>> /\ moved' = 0 /\ expected' = <<>>
  BY <1>1 DEF Carrying, FrameTypes, NotStarted
<1> HIDE DEF m, n
<1>5. InPulse(n) /\ Sending(n) = <<>>
  BY <1>1, <1>3 DEF InPulse, Sending, NotStarted, LongRun
<1>6. Waiting' = <<>>
  BY <1>3, <1>4 DEF Waiting, n
<1>7. (<<>> \o <<>>) \o <<>> = <<>>
  OBVIOUS
<1>8. Colours(Waiting', n.bits) = <<>>
  BY <1>3, <1>6, ColoursNone
<1>9. expected' = (Sending(n) \o n.osr) \o Colours(Waiting', n.bits)
  BY <1>3, <1>4, <1>5, <1>7, <1>8, Zenon
<1>10. <<>> \in Seq(Word) /\ <<>> \in Seq(Bit)
  OBVIOUS
<1>11. OnWire(machine[RGB])'
  BY <1>3, <1>5, <1>9, <1>10, Zenon DEF OnWire, n
<1>12. RGB \in asked'
  OBVIOUS
<1> QED
  BY <1>4, <1>11, <1>12, Zenon DEF Carrying

(* A frame joins the waiting words.                                        *)
LEMMA FrameCarrying ==
  ASSUME Inv, Carrying, NEW buffer \in Buffers, RGB_dma_channel_set_read_addr(buffer)
  PROVE  Carrying'
<1> DEFINE m == machine[RGB]
           b == m.bits
           fifo == m.fifo
           old == (Sending(m) \o m.osr)
           c == Colours(fifo, b)
           d == Colours(frame', b)
<1>1. /\ RGB \in asked /\ asked' = asked /\ machine' = machine /\ leds_count' = leds_count
      /\ leds_count # 0 /\ moved = Len(frame) /\ moved' = 0
      /\ frame' = SubSeq(buffer, 1, leds_count)
      /\ expected' = expected \o Colours(frame', b)
  BY DEF RGB_dma_channel_set_read_addr
<1>2. OnWire(m) /\ FrameTypes
  BY <1>1 DEF Carrying
<1>3. frame' \in Seq(Word) /\ Len(frame') \in Nat
  <2>1. /\ buffer \in Seq(Word) /\ leds_count \in Counts /\ Counts \subseteq Nat
        /\ leds_count <= Len(buffer)
    BY <1>1, <1>2, PioAssumption DEF FrameTypes
  <2>2. \A k \in 1 .. leds_count : buffer[k] \in Word
    BY <2>1
  <2>3. SubSeq(buffer, 1, leds_count) \in Seq(Word)
    BY <2>1, <2>2, SubSeqProperties
  <2> QED
    BY <1>1, <2>3
<1>4. FrameTypes'
  BY <1>1, <1>2, <1>3 DEF FrameTypes
<1>5. fifo \in Seq(Word) /\ b \in Width /\ m.osr \in Seq(Bit) /\ InPulse(m)
  BY <1>2 DEF OnWire
<1>6. Waiting = fifo
  <2>1. SubSeq(frame, moved + 1, Len(frame)) = <<>>
    BY <1>1, <1>2, SubSeqEmpty DEF FrameTypes
  <2>2. fifo \o <<>> = fifo
    BY <1>5, ConcatEmptySeq
  <2> QED
    BY <2>1, <2>2, Zenon DEF Waiting
<1>7. Waiting' = fifo \o frame'
  <2>1. SubSeq(frame', 1, Len(frame')) = frame'
    BY <1>3, SubSeqFull
  <2>2. 0 + 1 = 1
    OBVIOUS
  <2> QED
    BY <1>1, <2>1, <2>2, Zenon DEF Waiting
<1>8. Colours(Waiting', b) = c \o d
  BY <1>3, <1>5, <1>7, ColoursConcat
<1>9. c \in Seq(Bit) /\ d \in Seq(Bit)
  BY <1>3, <1>5, ColoursSeq
<1>10. Sending(m) \in Seq(Bit)
  <2>1. m.pc \in {4, 5, 6, 8} => m.x \in Bit
    <3>1. 0 \in Bit /\ 1 \in Bit
      BY DEF Bit
    <3> QED
      BY <1>5, <3>1 DEF InPulse
  <2> QED
    BY <2>1 DEF Sending
<1> HIDE DEF m, c, d
<1>11. old \in Seq(Bit)
  BY <1>5, <1>10, ConcatProperties
<1>12. expected = old \o c
  BY <1>2, <1>6, Zenon DEF OnWire, c
<1> HIDE DEF old
<1>13. (old \o c) \o d = old \o (c \o d)
  BY <1>9, <1>11, ConcatAssociative
<1>14. expected' = old \o Colours(Waiting', b)
  BY <1>1, <1>8, <1>12, <1>13, Zenon DEF d
<1>15. OnWire(machine[RGB])'
  BY <1>1, <1>5, <1>14, Zenon DEF OnWire, old, m
<1> QED
  BY <1>1, <1>4, <1>15, Zenon DEF Carrying

(* The channel moves a word from the frame to the FIFO: the same waits.    *)
LEMMA DmaCarrying ==
  ASSUME Inv, Carrying, Dma
  PROVE  Carrying'
<1> DEFINE m == machine[RGB]
           n == machine'[RGB]
           w == frame[moved + 1]
           one == <<w>>
           fifo == m.fifo
           rest == SubSeq(frame, (moved + 1) + 1, Len(frame))
<1>1. /\ moved < Len(frame) /\ moved' = moved + 1 /\ Put(RGB, w)
      /\ UNCHANGED <<asked, leds_count, frame, expected>>
  BY DEF Dma
<1>2. RGB \in asked /\ RGB \in Machines
  <2>1. frame # <<>>
    BY <1>1 DEF Carrying, FrameTypes
  <2> QED
    BY <2>1 DEF Carrying, NotStarted, Machines
<1>3. OnWire(m) /\ FrameTypes
  BY <1>2 DEF Carrying
<1>4. moved \in Nat /\ moved + 1 \in 1 .. Len(frame) /\ frame \in Seq(Word) /\ w \in Word
  BY <1>1, <1>3 DEF FrameTypes
<1>5. FrameTypes'
  BY <1>1, <1>3, <1>4 DEF FrameTypes
<1>6. n = [m EXCEPT !.fifo = Append(@, w)] /\ DOMAIN m = Fields
  BY <1>1, <1>2, PutInside DEF Inv, Inside
<1>7. /\ n.pc = m.pc /\ n.bits = m.bits /\ n.osr = m.osr /\ n.x = m.x
      /\ n.level = m.level /\ n.run = m.run /\ n.fifo = Append(fifo, w)
  BY <1>6 DEF Fields
<1>8. fifo \in Seq(Word)
  BY <1>3 DEF OnWire
<1>9. n.fifo = fifo \o one /\ n.fifo \in Seq(Word)
  <2>1. n.fifo = Append(fifo, w) /\ w \in Word
    BY <1>4, <1>7
  <2> QED
    BY <1>8, <2>1, AppendIsConcat, AppendProperties
<1>10. SubSeq(frame, moved + 1, Len(frame)) = one \o rest
  BY <1>4, SubSeqRecursiveFirst
<1>11. one \in Seq(Word) /\ rest \in Seq(Word)
  BY <1>4, SubSeqProperties
<1> HIDE DEF m, n, one, rest
<1>12. (fifo \o one) \o rest = fifo \o (one \o rest)
  <2> HIDE DEF fifo
  <2>1. fifo \in Seq(Word) /\ one \in Seq(Word) /\ rest \in Seq(Word)
    BY <1>8, <1>11
  <2> QED
    BY <2>1, ConcatAssociative
<1>13. Waiting' = Waiting
  <2>1. Waiting' = n.fifo \o rest
    BY <1>1, Zenon DEF Waiting, n, rest
  <2>2. Waiting = fifo \o (one \o rest)
    BY <1>10, Zenon DEF Waiting, m
  <2> QED
    BY <1>9, <1>12, <2>1, <2>2, Zenon
<1>14. InPulse(n) /\ Sending(n) = Sending(m)
  <2>1. InPulse(m)
    BY <1>3 DEF OnWire
  <2>2. Sending(n) = Sending(m)
    BY <1>7, Zenon DEF Sending
  <2>3. InPulse(n)
    BY <1>7, <2>1, Zenon DEF InPulse
  <2> QED
    BY <2>2, <2>3
<1>15. OnWire(machine[RGB])'
  BY <1>1, <1>3, <1>7, <1>9, <1>13, <1>14, Zenon DEF OnWire, n
<1> QED
  BY <1>1, <1>2, <1>5, <1>15, Zenon DEF Carrying

LEMMA NextCarrying == Inv /\ Carrying /\ [Next]_vars => Carrying'
<1> SUFFICES ASSUME Inv, Carrying, [Next]_vars PROVE Carrying'
  OBVIOUS
<1>1. RGB \in Machines /\ SOUNDER \in Machines /\ RGB # SOUNDER
  BY DEF Machines, RGB, SOUNDER
<1>2. ASSUME NEW is_rgbw \in BOOLEAN, RGB_init_pio(is_rgbw) PROVE Carrying'
  <2>1. CASE RGB \in asked
    <3>1. asked' = asked /\ machine' = machine
      BY <1>1, <1>2, <2>1, CanAddOnce DEF RGB_init_pio
    <3> QED
      BY <1>2, <3>1, OthersCarry DEF RGB_init_pio
  <2>2. CASE RGB \notin asked
    <3>1. PICK bits \in Width : machine' = Started(RGB, bits)
      BY <1>1, <1>2, <2>2, CanAddOnce DEF RGB_init_pio, Width
    <3> QED
      BY <1>2, <2>2, <3>1, StartCarrying DEF RGB_init_pio
  <2> QED
    BY <2>1, <2>2
<1>3. ASSUME Sounder_init PROVE Carrying'
  <2>1. machine'[RGB] = machine[RGB]
    BY <1>1, <1>3, StartedMachine DEF Sounder_init
  <2>2. RGB \in asked' <=> RGB \in asked
    BY <1>1, <1>3 DEF Sounder_init
  <2> QED
    BY <1>3, <2>1, <2>2, OthersCarry DEF Sounder_init
<1>4. ASSUME NEW count \in Counts, RGB_init_dma_ws2812(count) PROVE Carrying'
  <2>1. FrameTypes'
    BY <1>4 DEF RGB_init_dma_ws2812, Carrying, FrameTypes
  <2>2. UNCHANGED <<machine, asked, frame, moved, expected, Waiting>>
    BY <1>4 DEF RGB_init_dma_ws2812, Waiting
  <2> QED
    BY <2>1, <2>2 DEF Carrying, OnWire, NotStarted
<1>5. ASSUME NEW buffer \in Buffers, RGB_dma_channel_set_read_addr(buffer) PROVE Carrying'
  BY <1>5, FrameCarrying
<1>6. ASSUME Dma PROVE Carrying'
  BY <1>6, DmaCarrying
<1>7. ASSUME NEW note \in Notes, PutNote(note) PROVE Carrying'
  <2>1. machine'[RGB] = machine[RGB]
    BY <1>1, <1>7, PutInside DEF PutNote
  <2> QED
    BY <1>7, <2>1, OthersCarry DEF PutNote
<1>8. ASSUME NEW sm \in Machines, Execute(sm) PROVE Carrying'
  <2>1. CASE sm = RGB
    BY <1>8, <2>1, ExecuteCarrying
  <2>2. CASE sm = SOUNDER
    <3>1. /\ machine'[RGB] = machine[RGB]
          /\ UNCHANGED <<asked, leds_count, frame, moved>>
      BY <1>1, <1>8, <2>2 DEF Execute
    <3>2. expected' = expected
      BY <1>1, <1>8, <2>2, Zenon DEF Execute
    <3> QED
      BY <3>1, <3>2, OthersCarry
  <2> QED
    BY <2>1, <2>2 DEF Machines
<1>9. ASSUME UNCHANGED vars PROVE Carrying'
  BY <1>9, OthersCarry DEF vars
<1> QED
  BY <1>2, <1>3, <1>4, <1>5, <1>6, <1>7, <1>8, <1>9 DEF Next

(* The LEDs see the bits of the frames in order and in legal pulses, none  *)
(* lost, doubled or torn: for any frames, any width of a colour, any depth *)
(* of the FIFO, and whatever is initialised again or played meanwhile.     *)
THEOREM WireCarries == Spec => WireCarriesFrames
<1>1. Init => Carrying
  <2> SUFFICES ASSUME Init PROVE Carrying
    OBVIOUS
  <2>1. FrameTypes
    BY DEF Init, FrameTypes
  <2>2. NotStarted(machine[RGB])
    BY DEF Init, NotStarted, Machines
  <2> QED
    BY <2>1, <2>2 DEF Init, Carrying
<1>2. Inv /\ Carrying /\ [Next]_vars =>
        [LET seen == Seen(machine[RGB], Instruction(RGB)) IN
           Execute(RGB) /\ seen # <<>> => expected # <<>> /\ seen = <<Head(expected)>>]_vars
  BY ExecuteCarrying
<1> QED
  BY <1>1, <1>2, InvHolds, NextCarrying, PTL DEF Spec, WireCarriesFrames
=============================================================================
