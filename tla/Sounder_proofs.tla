--------------------------- MODULE Sounder_proofs ---------------------------
(***************************************************************************)
(* Proofs about Sounder for any songs: how far the index runs, that the    *)
(* FIFO has room whenever a note is put into it, and that a song which is  *)
(* left alone is played at its pitches and to its end (LeftAlone).         *)
(***************************************************************************)
EXTENDS Sounder, SequenceTheorems, TLAPS

(***************************************************************************)
(* Types                                                                   *)
(***************************************************************************)
Places == {"idle", "rewind", "acknowledge", "fetch", "read", "tune", "put", "advance"}

(* Between the moment Sounder_replay fetched a note and the increment, the *)
(* interrupt's handler may run; it stops at the song's end.                *)
Incrementing == At("tune") \/ At("put") \/ At("advance")

DataTypes ==
  /\ data \in [notes : Seq(Note), len : Nat]
  /\ index \in Nat
  /\ task \in [at : Places, note : Note, index : Nat]
  /\ clkdiv \in Nat
  /\ playing \in Note

QueueTypes == fifo \in Seq(Note) /\ heard \in Seq(Note)

FlagTypes == irq \in BOOLEAN /\ mayEnd \in BOOLEAN /\ undisturbed \in BOOLEAN

IndexBounds ==
  /\ index <= Len(data.notes) + 1
  /\ Incrementing => index <= Len(data.notes)
  /\ At("read") => /\ task.index <= index
                   /\ index = task.index \/ index <= Len(data.notes)
  /\ At("put") \/ At("advance") => task.index <= Len(data.notes)

Types == DataTypes /\ QueueTypes /\ FlagTypes /\ IndexBounds

LEMMA NoteTypes ==
  /\ Nothing \in Note
  /\ \A note \in Note : note.hz \in Nat /\ note.len \in Nat
  BY DEF Nothing, Note

(* Past the song there is nothing.                                         *)
LEMMA NoteAtTyped ==
  ASSUME DataTypes, NEW i \in Nat
  PROVE  /\ NoteAt(i) \in Note
         /\ NoteAt(i).len # 0 => i < Len(data.notes)
<1>1. data.notes \in Seq(Note)
  BY DEF DataTypes
<1>2. CASE i < Len(data.notes)
  <2>1. i + 1 \in 1 .. Len(data.notes)
    BY <1>1, <1>2
  <2>2. data.notes[i + 1] \in Note
    BY <1>1, <2>1
  <2> QED
    BY <1>2, <2>2 DEF NoteAt
<1>3. CASE ~(i < Len(data.notes))
  <2>1. NoteAt(i) = Nothing /\ Nothing.len = 0
    BY <1>3 DEF NoteAt, Nothing
  <2> QED
    BY <1>3, <2>1, NoteTypes
<1> QED
  BY <1>2, <1>3

LEMMA TuningTyped ==
  ASSUME NEW note \in Note
  PROVE  Tuning(note) \in Nat
  BY SongAssumption DEF Tuning, Note

(* A song is written over the start of the last one.                       *)
LEMMA ComposeTyped ==
  ASSUME Types, NEW notes \in Songs, Compose(notes)
  PROVE  Types'
<1> DEFINE rest == SubSeq(data.notes, Len(notes) + 1, Len(data.notes))
<1>1. notes \in Seq(Note) /\ data.notes \in Seq(Note)
  BY SongAssumption DEF Types, DataTypes
<1>2. Len(notes) \in Nat /\ Len(data.notes) \in Nat
  BY <1>1
<1>3. rest \in Seq(Note)
  BY <1>1, <1>2
<1>4. Len(rest) = IF Len(notes) + 1 <= Len(data.notes)
                  THEN Len(data.notes) - Len(notes) ELSE 0
  BY <1>1, <1>2
<1>5. (notes \o rest) \in Seq(Note) /\ Len(notes \o rest) = Len(notes) + Len(rest)
  BY <1>1, <1>3
<1>6. Len(notes \o rest) \in Nat /\ Len(data.notes) <= Len(notes \o rest)
  BY <1>2, <1>4, <1>5
<1>7. data' = [notes |-> notes \o rest, len |-> Len(notes)]
  BY DEF Compose
<1>8. DataTypes'
  BY <1>2, <1>5, <1>7 DEF Compose, Types, DataTypes
<1>9. QueueTypes' /\ FlagTypes'
  BY DEF Compose, Types, QueueTypes, FlagTypes
<1>10. IndexBounds'
  <2>1. index' = index /\ task' = task /\ task.at = "idle"
    BY DEF Compose, At
  <2>2. index \in Nat /\ index <= Len(data.notes) + 1
    BY DEF Types, DataTypes, IndexBounds
  <2>3. data'.notes = notes \o rest
    BY <1>7
  <2> QED
    BY <1>2, <1>6, <2>1, <2>2, <2>3 DEF IndexBounds, Incrementing, At
<1> QED
  BY <1>8, <1>9, <1>10 DEF Types

LEMMA TypesStep == Types /\ [Next]_vars => Types'
<1> SUFFICES ASSUME Types, [Next]_vars
             PROVE  Types'
  OBVIOUS
<1> USE DEF Types
<1>1. ASSUME NEW notes \in Songs, Compose(notes)
      PROVE  Types'
  BY <1>1, ComposeTyped
<1>2. CASE Drain
  <2>1. fifo' \in Seq(Note) /\ heard' \in Seq(Note)
    BY <1>2 DEF Drain
  <2>2. Silent \in BOOLEAN /\ (playing # Nothing) \in BOOLEAN
    BY DEF Silent
  <2>3. DataTypes'
    BY <1>2 DEF Drain, At, Goto, DataTypes, Places
  <2>4. IndexBounds'
    BY <1>2 DEF Drain, At, Goto, DataTypes, IndexBounds, Incrementing
  <2> QED
    BY <1>2, <2>1, <2>2, <2>3, <2>4 DEF Drain, QueueTypes, FlagTypes
<1>3. CASE Rewind
  <2>1. DataTypes' /\ IndexBounds'
    BY <1>3 DEF Rewind, At, Goto, composed, DataTypes, Places, IndexBounds, Incrementing
  <2> QED
    BY <1>3, <2>1 DEF Rewind, composed, QueueTypes, FlagTypes
<1>4. CASE Acknowledge
  <2>1. DataTypes' /\ IndexBounds'
    BY <1>4 DEF Acknowledge, At, Goto, composed, DataTypes, Places, IndexBounds,
                Incrementing
  <2> QED
    BY <1>4, <2>1 DEF Acknowledge, composed, QueueTypes, FlagTypes
<1>5. CASE Fetch
  <2>1. CASE index = data.len
    BY <1>5, <2>1, NoteTypes DEF Fetch, Return, At, composed, DataTypes, Places, QueueTypes,
                                 FlagTypes, IndexBounds, Incrementing
  <2>2. CASE index # data.len
    <3>1. task' = [task EXCEPT !.at = "read", !.index = index]
      BY <1>5, <2>2 DEF Fetch
    <3>2. DataTypes'
      BY <1>5, <3>1 DEF Fetch, composed, DataTypes, Places
    <3>3. IndexBounds'
      BY <1>5, <3>1 DEF Fetch, composed, DataTypes, IndexBounds, Incrementing, At
    <3> QED
      BY <1>5, <3>2, <3>3 DEF Fetch, composed, QueueTypes, FlagTypes
  <2> QED
    BY <2>1, <2>2
<1>6. CASE ReadNote
  <2>1. PICK i \in {task.index, index}, j \in {task.index, index} :
          IF NoteAt(j).len = 0 THEN Return
          ELSE task' = [task EXCEPT !.at = "tune",
                                    !.note = [hz |-> NoteAt(i).hz, len |-> NoteAt(j).len]]
    BY <1>6 DEF ReadNote
  <2>2. i \in Nat /\ j \in Nat
    BY DEF DataTypes
  <2>3. UNCHANGED <<data, undisturbed, index, clkdiv, fifo, playing, irq, mayEnd, heard>>
    BY <1>6 DEF ReadNote, composed
  <2>4. CASE NoteAt(j).len = 0
    <3>1. Return
      BY <2>1, <2>4
    <3> QED
      BY <2>3, <3>1, NoteTypes DEF Return, At, DataTypes, Places, QueueTypes, FlagTypes,
                                   IndexBounds, Incrementing
  <2>5. CASE NoteAt(j).len # 0
    <3> DEFINE note == [hz |-> NoteAt(i).hz, len |-> NoteAt(j).len]
    <3>1. NoteAt(i) \in Note /\ NoteAt(j) \in Note /\ j < Len(data.notes)
      BY <2>2, <2>5, NoteAtTyped
    <3>2. note \in Note
      BY <3>1 DEF Note
    <3>3. task' = [task EXCEPT !.at = "tune", !.note = note]
      BY <2>1, <2>5
    <3> HIDE DEF note
    <3>4. DataTypes'
      BY <2>3, <3>2, <3>3 DEF DataTypes, Places
    <3>5. index <= Len(data.notes)
      <4>1. task.at = "read" /\ task.index \in Nat /\ index \in Nat /\ Len(data.notes) \in Nat
        BY <1>6 DEF ReadNote, At, DataTypes
      <4>2. index = task.index \/ index <= Len(data.notes)
        BY <4>1 DEF IndexBounds, At
      <4> QED
        BY <3>1, <4>1, <4>2
    <3>6. IndexBounds'
      BY <2>3, <3>3, <3>5 DEF DataTypes, IndexBounds, Incrementing, At
    <3> QED
      BY <2>3, <3>4, <3>6 DEF QueueTypes, FlagTypes
  <2> QED
    BY <2>4, <2>5
<1>7. CASE Tune
  <2>1. task.note \in Note /\ Tuning(task.note) \in Nat
    BY TuningTyped DEF DataTypes
  <2>2. task' = [task EXCEPT !.at = "put", !.index = index]
    BY <1>7 DEF Tune
  <2>3. DataTypes'
    BY <1>7, <2>1, <2>2 DEF Tune, composed, DataTypes, Places
  <2>4. IndexBounds'
    BY <1>7, <2>2 DEF Tune, At, composed, DataTypes, IndexBounds, Incrementing
  <2> QED
    BY <1>7, <2>3, <2>4 DEF Tune, composed, QueueTypes, FlagTypes
<1>8. CASE Put
  <2>1. fifo' \in Seq(Note)
    BY <1>8 DEF Put, DataTypes, QueueTypes
  <2>2. DataTypes' /\ IndexBounds'
    BY <1>8 DEF Put, At, Goto, composed, DataTypes, Places, IndexBounds, Incrementing
  <2> QED
    BY <1>8, <2>1, <2>2 DEF Put, composed, QueueTypes, FlagTypes
<1>9. CASE Advance
  <2>1. task.index \in Nat /\ index \in Nat /\ Len(data.notes) \in Nat
    BY DEF DataTypes
  <2>2. index <= Len(data.notes) /\ task.index <= Len(data.notes)
    BY <1>9 DEF Advance, IndexBounds, Incrementing
  <2>3. index' \in Nat /\ index' <= Len(data.notes) + 1
    BY <1>9, <2>1, <2>2 DEF Advance
  <2>4. task' = [at |-> "idle", note |-> Nothing, index |-> 0] /\ data' = data
    BY <1>9 DEF Advance, Return, composed
  <2>5. DataTypes' /\ IndexBounds'
    BY <1>9, <2>3, <2>4, NoteTypes DEF Advance, composed, DataTypes, Places, IndexBounds,
                                       Incrementing, At
  <2> QED
    BY <1>9, <2>5 DEF Advance, composed, QueueTypes, FlagTypes
<1>10. CASE ResumeHandler
  <2>1. CASE SongIsOver(index)
    BY <1>10, <2>1 DEF ResumeHandler, composed, DataTypes, QueueTypes, FlagTypes,
                      IndexBounds, Incrementing, At
  <2>2. CASE ~SongIsOver(index)
    <3>1. NoteAt(index) \in Note /\ index < Len(data.notes)
      BY <2>2, NoteAtTyped DEF SongIsOver, DataTypes
    <3>2. Tuning(NoteAt(index)) \in Nat
      BY <3>1, TuningTyped
    <3>3. /\ clkdiv' = Tuning(NoteAt(index))
          /\ fifo' = Append(fifo, NoteAt(index))
          /\ index' = index + 1
          /\ irq' = FALSE
          /\ UNCHANGED <<data, undisturbed, task, playing, mayEnd, heard>>
      BY <1>10, <2>2 DEF ResumeHandler, composed
    <3>4. fifo' \in Seq(Note)
      BY <3>1, <3>3 DEF QueueTypes
    <3>5. DataTypes' /\ IndexBounds'
      BY <3>1, <3>2, <3>3 DEF DataTypes, IndexBounds, Incrementing, At
    <3> QED
      BY <3>3, <3>4, <3>5 DEF QueueTypes, FlagTypes
  <2> QED
    BY <2>1, <2>2
<1>11. CASE Pull
  <2>1. /\ fifo \in Seq(Note) /\ fifo # <<>>
        /\ playing' = Head(fifo) /\ fifo' = Tail(fifo)
        /\ heard' = Append(heard, Head(fifo))
    BY <1>11 DEF Pull, QueueTypes
  <2>2. Head(fifo) \in Note /\ Tail(fifo) \in Seq(Note)
    BY <2>1
  <2>3. heard' \in Seq(Note)
    BY <2>1, <2>2 DEF QueueTypes
  <2>4. DataTypes' /\ IndexBounds'
    BY <1>11, <2>1, <2>2 DEF Pull, composed, DataTypes, IndexBounds, Incrementing, At
  <2> QED
    BY <1>11, <2>1, <2>2, <2>3, <2>4 DEF Pull, composed, QueueTypes, FlagTypes
<1>12. CASE Finish
  BY <1>12, NoteTypes DEF Finish, composed, DataTypes, QueueTypes, FlagTypes, IndexBounds,
                          Incrementing, At
<1>13. CASE UNCHANGED vars
  BY <1>13 DEF vars, composed, DataTypes, QueueTypes, FlagTypes, IndexBounds,
               Incrementing, At
<1> QED
  BY <1>1, <1>2, <1>3, <1>4, <1>5, <1>6, <1>7, <1>8, <1>9, <1>10, <1>11, <1>12, <1>13
     DEF Next, Replay

LEMMA TypesInit == Init => Types
<1> SUFFICES ASSUME Init PROVE Types
  OBVIOUS
<1>1. <<>> \in Seq(Note) /\ Len(<<>>) = 0 /\ DefaultHz \in Nat
  BY SongAssumption
<1>2. DataTypes /\ IndexBounds
  BY <1>1, NoteTypes DEF Init, DataTypes, Places, IndexBounds, Incrementing, At
<1> QED
  BY <1>1, <1>2 DEF Init, Types, QueueTypes, FlagTypes

(* Every reachable state is well typed; in particular the index, which two *)
(* increments may carry past the song, stops behind it.                    *)
THEOREM TypeCorrect == Spec => []TypeOK
<1>1. Types => TypeOK
  BY DEF Types, DataTypes, QueueTypes, FlagTypes, IndexBounds, TypeOK, Places
<1> QED
  BY <1>1, TypesInit, TypesStep, PTL DEF Spec

(***************************************************************************)
(* Room in the FIFO                                                        *)
(***************************************************************************)
(* A note is on the way from its fetch to its end: Sounder_replay fetches  *)
(* one, the machine plays one, and the end of one raises the interrupt,    *)
(* which puts at most one in its place.                                    *)
Count(condition) == IF condition THEN 1 ELSE 0
Fetching == task.at \in {"rewind", "acknowledge", "fetch", "read", "tune", "put"}
OnTheWay == Count(Fetching) + Count(irq = TRUE) + Count(playing # Nothing)

(* Nothing but Drain, which empties the FIFO, adds to what is on the way.  *)
Room == Len(fifo) + OnTheWay <= 3

LEMMA ReadNoteGoesOn ==
  ASSUME DataTypes, ReadNote
  PROVE  task'.at \in {"idle", "tune"}
<1>1. PICK i \in {task.index, index}, j \in {task.index, index} :
        IF NoteAt(j).len = 0 THEN Return
        ELSE task' = [task EXCEPT !.at = "tune",
                                  !.note = [hz |-> NoteAt(i).hz, len |-> NoteAt(j).len]]
  BY DEF ReadNote
<1>2. CASE NoteAt(j).len = 0
  BY <1>1, <1>2 DEF Return
<1>3. CASE NoteAt(j).len # 0
  <2> DEFINE note == [hz |-> NoteAt(i).hz, len |-> NoteAt(j).len]
  <2>1. task' = [task EXCEPT !.at = "tune", !.note = note]
    BY <1>1, <1>3
  <2> HIDE DEF note
  <2> QED
    BY <2>1 DEF DataTypes
<1> QED
  BY <1>2, <1>3

LEMMA RoomStep == Types /\ Room /\ [Next]_vars => Room'
<1> SUFFICES ASSUME Types, Room, [Next]_vars
             PROVE  Room'
  OBVIOUS
<1>0. /\ fifo \in Seq(Note) /\ Len(fifo) \in Nat
      /\ irq \in BOOLEAN
      /\ task \in [at : Places, note : Note, index : Nat]
  BY DEF Types, DataTypes, QueueTypes, FlagTypes
<1> USE <1>0 DEF Room, OnTheWay, Count, Fetching
<1>1. ASSUME NEW notes \in Songs, Compose(notes)
      PROVE  Room'
  BY <1>1 DEF Compose
<1>2. CASE Drain
  <2>1. Len(fifo') = 0
    BY <1>2 DEF Drain
  <2> QED
    BY <1>2, <2>1 DEF Drain
<1>3. CASE Rewind \/ Acknowledge
  BY <1>3 DEF Rewind, Acknowledge, At, Goto, composed
<1>4. CASE Fetch
  BY <1>4 DEF Fetch, Return, At, composed
<1>5. CASE ReadNote
  <2>1. task.at = "read" /\ UNCHANGED <<fifo, playing, irq>>
    BY <1>5 DEF ReadNote, At
  <2>2. task'.at \in {"idle", "tune"}
    BY <1>5, ReadNoteGoesOn DEF Types
  <2> QED
    BY <2>1, <2>2
<1>6. CASE Tune
  BY <1>6 DEF Tune, At, composed
<1>7. CASE Put
  <2>1. Len(fifo') = Len(fifo) + 1
    BY <1>7 DEF Put, Types, DataTypes
  <2>2. task.at = "put" /\ task'.at = "advance"
    BY <1>7 DEF Put, At, Goto
  <2> QED
    BY <1>7, <2>1, <2>2 DEF Put
<1>8. CASE Advance
  BY <1>8 DEF Advance, Return, At, composed
<1>9. CASE ResumeHandler
  <2>1. irq = TRUE /\ irq' = FALSE /\ UNCHANGED <<task, playing>>
    BY <1>9 DEF ResumeHandler
  <2>2. fifo' = fifo \/ fifo' = Append(fifo, NoteAt(index))
    BY <1>9 DEF ResumeHandler
  <2>3. Len(fifo') <= Len(fifo) + 1 /\ Len(fifo') \in Nat
    BY <2>2, NoteAtTyped DEF Types, DataTypes
  <2> QED
    BY <2>1, <2>3
<1>10. CASE Pull
  <2>1. Len(fifo') = Len(fifo) - 1
    BY <1>10 DEF Pull
  <2> QED
    BY <1>10, <2>1 DEF Pull
<1>11. CASE Finish
  <2>1. playing # Nothing /\ playing' = Nothing /\ UNCHANGED <<task, fifo>>
    BY <1>11 DEF Finish
  <2> QED
    BY <2>1
<1>12. CASE UNCHANGED vars
  BY <1>12 DEF vars
<1> QED
  BY <1>1, <1>2, <1>3, <1>4, <1>5, <1>6, <1>7, <1>8, <1>9, <1>10, <1>11, <1>12 DEF Next, Replay

(* pio_sm_put_blocking never waits: whenever the handler or Sounder_replay *)
(* may reach it, at most two notes are in the FIFO, which holds four.      *)
THEOREM PutIsImmediate == Spec => []PutNeverBlocks
<1>1. Init => Room
  BY DEF Init, Room, OnTheWay, Count, Fetching
<1>2. Types /\ Room => PutNeverBlocks
  <2> SUFFICES ASSUME Types, Room, irq \/ At("put")
               PROVE  Len(fifo) < FifoDepth
    BY DEF PutNeverBlocks
  <2>1. Len(fifo) \in Nat /\ irq \in BOOLEAN
    BY DEF Types, QueueTypes, FlagTypes
  <2>2. OnTheWay >= 1
    BY <2>1 DEF OnTheWay, Count, Fetching, At
  <2> QED
    BY <2>1, <2>2 DEF Room, FifoDepth, OnTheWay, Count
<1> QED
  BY <1>1, <1>2, TypesInit, TypesStep, RoomStep, PTL DEF Spec

(***************************************************************************)
(* An undisturbed song                                                     *)
(***************************************************************************)
(* A song is written whole: there are notes to its length.                 *)
Written == data.len <= Len(data.notes)

(* The first k notes are to be heard; they have been started.              *)
Sounds(k) == k \in 0 .. data.len /\ \A m \in 1 .. k : data.notes[m].len # 0
HeardTo(k) == Len(heard) = k /\ \A m \in 1 .. k : heard[m] = data.notes[m]

(* Where the k-th note may be, the k - 1 before it being over.             *)
Queued(k) ==
  /\ k >= 1 /\ clkdiv = Tuning(data.notes[k])
  /\ fifo = <<data.notes[k]>> /\ playing = Nothing /\ irq = FALSE /\ HeardTo(k - 1)
Playing(k) ==
  /\ k >= 1 /\ clkdiv = Tuning(data.notes[k])
  /\ fifo = <<>> /\ playing = data.notes[k] /\ irq = FALSE /\ HeardTo(k)
Ended(k) == fifo = <<>> /\ playing = Nothing /\ irq = TRUE /\ HeardTo(k)
Acknowledged(k) == fifo = <<>> /\ playing = Nothing /\ irq = FALSE /\ HeardTo(k)

(* A song nobody disturbs: Sounder_replay starts its first note, the       *)
(* interrupt's handler the others.  The first one does not end before      *)
(* Sounder_replay has incremented the index.                               *)
Replayed ==
  /\ mayEnd = FALSE
  /\ task.at # "rewind" => index = 0
  /\ task.at # "advance" => Acknowledged(0)
  /\ task.at = "read" => task.index = 0 /\ data.len # 0
  /\ task.at \in {"tune", "put", "advance"} => Sounds(1)
  /\ task.at \in {"tune", "put"} => task.note = data.notes[1]
  /\ task.at = "put" => clkdiv = Tuning(data.notes[1])
  /\ task.at \in {"put", "advance"} => task.index = 0
  /\ task.at = "advance" => Queued(1) \/ Playing(1)

Continued ==
  /\ Sounds(index)
  /\ \/ Queued(index) \/ Playing(index) \/ Ended(index)
     \/ Acknowledged(index) /\ SongIsOver(index)

LeftAlone ==
  undisturbed = TRUE =>
    /\ task.at # "idle" => Replayed
    /\ task.at = "idle" => Continued

LEMMA SongKept ==
  ASSUME UNCHANGED composed
  PROVE  data' = data /\ undisturbed' = undisturbed
BY DEF composed

(* The note after the first k, if the song does not end with them.         *)
LEMMA NextSounds ==
  ASSUME Types, Written, NEW k \in Nat, Sounds(k), ~SongIsOver(k)
  PROVE  Sounds(k + 1) /\ NoteAt(k) = data.notes[k + 1]
<1>1. /\ data.notes \in Seq(Note) /\ data.len \in Nat
      /\ k < data.len /\ k < Len(data.notes)
  BY DEF Types, DataTypes, Written, Sounds, SongIsOver
<1>2. NoteAt(k) = data.notes[k + 1]
  BY <1>1 DEF NoteAt
<1>3. data.notes[k + 1].len # 0
  BY <1>2 DEF SongIsOver
<1>4. \A m \in 1 .. k + 1 : m \in 1 .. k \/ m = k + 1
  OBVIOUS
<1> QED
  BY <1>1, <1>2, <1>3, <1>4 DEF Sounds

LEMMA QueuedIsPulled ==
  ASSUME Types, NEW k \in Nat, Queued(k), Pull
  PROVE  /\ fifo' = <<>> /\ playing' = data.notes[k]
         /\ Len(heard') = k /\ \A m \in 1 .. k : heard'[m] = data.notes[m]
<1>1. heard \in Seq(Note) /\ Len(heard) = k - 1
  BY DEF Types, QueueTypes, Queued, HeardTo
<1>2. Head(fifo) = data.notes[k] /\ Tail(fifo) = <<>>
  BY DEF Queued
<1>3. heard' = Append(heard, data.notes[k])
  BY <1>2 DEF Pull
<1>4. Len(heard') = k /\ heard'[k] = data.notes[k]
  BY <1>1, <1>3
<1>5. ASSUME NEW m \in 1 .. k PROVE heard'[m] = data.notes[m]
  <2>1. m \in 1 .. k - 1 => heard'[m] = heard[m] /\ heard[m] = data.notes[m]
    BY <1>1, <1>3 DEF Queued, HeardTo
  <2> QED
    BY <1>4, <1>5, <2>1
<1> QED
  BY <1>2, <1>4, <1>5 DEF Pull

LEMMA LeftAloneStep == Types /\ Written /\ LeftAlone /\ [Next]_vars => LeftAlone'
<1> SUFFICES ASSUME Types, Written, LeftAlone, [Next]_vars, undisturbed' = TRUE
             PROVE  (task'.at # "idle" => Replayed') /\ (task'.at = "idle" => Continued')
  BY DEF LeftAlone
<1>0. /\ data \in [notes : Seq(Note), len : Nat] /\ index \in Nat
      /\ task \in [at : Places, note : Note, index : Nat]
      /\ irq \in BOOLEAN /\ undisturbed \in BOOLEAN
  BY DEF Types, DataTypes, FlagTypes
<1>1. ASSUME NEW notes \in Songs, Compose(notes)
      PROVE  FALSE
  BY <1>1 DEF Compose
<1>2. CASE Drain
  <2>1. playing = Nothing /\ irq = FALSE
    BY <1>0, <1>2 DEF Drain, Silent
  <2>2. /\ fifo' = <<>> /\ playing' = Nothing /\ irq' = FALSE
        /\ heard' = <<>> /\ mayEnd' = FALSE /\ task'.at = "rewind"
    BY <1>0, <1>2, <2>1 DEF Drain, Goto
  <2> QED
    BY <2>2 DEF Replayed, Acknowledged, HeardTo
<1> USE DEF LeftAlone
<1>3. CASE Rewind
  <2>1. /\ Replayed /\ task.at = "rewind" /\ task'.at = "acknowledge" /\ index' = 0
        /\ UNCHANGED <<fifo, playing, irq, heard, mayEnd>>
    BY <1>0, <1>3, SongKept DEF Rewind, At, Goto
  <2> QED
    BY <2>1 DEF Replayed, Acknowledged, HeardTo
<1>4. CASE Acknowledge
  <2>1. /\ Replayed /\ task.at = "acknowledge" /\ task'.at = "fetch" /\ irq' = FALSE
        /\ UNCHANGED <<fifo, playing, index, heard, mayEnd>>
    BY <1>0, <1>4, SongKept DEF Acknowledge, At, Goto
  <2> QED
    BY <2>1 DEF Replayed, Acknowledged, HeardTo
<1>5. CASE Fetch
  <2>1. /\ Replayed /\ task.at = "fetch"
        /\ UNCHANGED <<data, fifo, playing, index, irq, heard, mayEnd>>
    BY <1>5, SongKept DEF Fetch, At
  <2>2. index = 0 /\ Sounds(0) /\ Acknowledged(0)
    BY <1>0, <2>1 DEF Replayed, Sounds
  <2>3. Acknowledged(0)'
    BY <2>1, <2>2 DEF Acknowledged, HeardTo
  <2>4. CASE index = data.len
    <3>1. task'.at = "idle"
      BY <1>5, <2>4 DEF Fetch, Return
    <3>2. Sounds(index)' /\ SongIsOver(index)' /\ Acknowledged(index)'
      BY <2>1, <2>2, <2>3, <2>4 DEF Sounds, SongIsOver, NoteAt, Acknowledged, HeardTo
    <3> QED
      BY <3>1, <3>2 DEF Continued
  <2>5. CASE index # data.len
    <3>1. task'.at = "read" /\ task'.index = index
      BY <1>0, <1>5, <2>5 DEF Fetch
    <3> QED
      BY <2>1, <2>2, <2>3, <2>5, <3>1 DEF Replayed
  <2> QED
    BY <2>4, <2>5
<1>6. CASE ReadNote
  <2>1. /\ Replayed /\ task.at = "read"
        /\ UNCHANGED <<data, fifo, playing, index, irq, heard, mayEnd>>
    BY <1>6, SongKept DEF ReadNote, At
  <2>2. index = 0 /\ task.index = 0 /\ data.len # 0 /\ Sounds(0) /\ Acknowledged(0)
    BY <1>0, <2>1 DEF Replayed, Sounds
  <2>3. Acknowledged(0)'
    BY <2>1, <2>2 DEF Acknowledged, HeardTo
  <2>4. CASE NoteAt(0).len = 0
    <3>1. task'.at = "idle"
      BY <1>6, <2>2, <2>4 DEF ReadNote, Return
    <3>2. Sounds(index)' /\ SongIsOver(index)' /\ Acknowledged(index)'
      BY <2>1, <2>2, <2>3, <2>4 DEF Sounds, SongIsOver, NoteAt, Acknowledged, HeardTo
    <3> QED
      BY <3>1, <3>2 DEF Continued
  <2>5. CASE NoteAt(0).len # 0
    <3>1. task' = [task EXCEPT !.at = "tune",
                               !.note = [hz |-> NoteAt(0).hz, len |-> NoteAt(0).len]]
      BY <1>6, <2>2, <2>5 DEF ReadNote
    <3>2. [hz |-> NoteAt(0).hz, len |-> NoteAt(0).len] = NoteAt(0)
      <4>1. NoteAt(0) \in Note
        BY NoteAtTyped DEF Types
      <4> QED
        BY <4>1 DEF Note
    <3>3. task'.at = "tune" /\ task'.note = NoteAt(0)
      BY <1>0, <3>1, <3>2
    <3>4. Sounds(1) /\ NoteAt(0) = data.notes[1]
      BY <2>2, <2>5, NextSounds DEF SongIsOver
    <3>5. Sounds(1)'
      BY <2>1, <3>4 DEF Sounds
    <3> QED
      BY <2>1, <2>2, <2>3, <3>3, <3>4, <3>5 DEF Replayed
  <2> QED
    BY <2>4, <2>5
<1>7. CASE Tune
  <2>1. /\ Replayed /\ task.at = "tune" /\ task'.at = "put"
        /\ task'.index = index /\ task'.note = task.note
        /\ clkdiv' = Tuning(task.note)
        /\ UNCHANGED <<data, fifo, playing, index, irq, heard, mayEnd>>
    BY <1>0, <1>7, SongKept DEF Tune, At
  <2>2. Acknowledged(0)' /\ Sounds(1)'
    BY <2>1 DEF Replayed, Acknowledged, HeardTo, Sounds
  <2> QED
    BY <2>1, <2>2 DEF Replayed
<1>8. CASE Put
  <2>1. /\ Replayed /\ task.at = "put" /\ task'.at = "advance" /\ task'.index = task.index
        /\ fifo' = Append(fifo, task.note)
        /\ UNCHANGED <<data, playing, index, irq, heard, clkdiv, mayEnd>>
    BY <1>0, <1>8, SongKept DEF Put, At, Goto
  <2>2. fifo = <<>> /\ task.note = data.notes[1]
    BY <2>1 DEF Replayed, Acknowledged
  <2>3. fifo' = <<data.notes[1]>>
    BY <2>1, <2>2
  <2>4. Queued(1)' /\ Sounds(1)'
    BY <2>1, <2>3 DEF Replayed, Acknowledged, Queued, HeardTo, Sounds
  <2> QED
    BY <2>1, <2>4 DEF Replayed
<1>9. CASE Advance
  <2>1. /\ Replayed /\ task.at = "advance" /\ task'.at = "idle"
        /\ index' \in {task.index + 1, index + 1}
        /\ UNCHANGED <<data, fifo, playing, irq, heard, clkdiv>>
    BY <1>9, SongKept DEF Advance, Return, At
  <2>2. index' = 1 /\ Sounds(1) /\ (Queued(1) \/ Playing(1))
    BY <2>1 DEF Replayed
  <2>3. Sounds(index)' /\ (Queued(index)' \/ Playing(index)')
    BY <2>1, <2>2 DEF Sounds, Queued, Playing, HeardTo
  <2> QED
    BY <2>1, <2>3 DEF Continued
<1>10. CASE ResumeHandler
  <2>1. irq = TRUE /\ irq' = FALSE
        /\ UNCHANGED <<data, undisturbed, task, playing, heard, mayEnd>>
    BY <1>10, SongKept DEF ResumeHandler
  <2>2. task.at = "idle" /\ Continued
    BY <2>1 DEF Replayed, Acknowledged, Queued, Playing
  <2>3. Sounds(index) /\ Ended(index)
    BY <2>1, <2>2 DEF Continued, Acknowledged, Queued, Playing
  <2>4. CASE SongIsOver(index)
    <3>1. UNCHANGED <<fifo, index>>
      BY <1>10, <2>4 DEF ResumeHandler
    <3>2. Sounds(index)' /\ Acknowledged(index)' /\ SongIsOver(index)'
      BY <2>1, <2>3, <2>4, <3>1
         DEF Sounds, Ended, Acknowledged, HeardTo, SongIsOver, NoteAt
    <3> QED
      BY <2>1, <2>2, <3>2 DEF Continued
  <2>5. CASE ~SongIsOver(index)
    <3>1. Sounds(index + 1) /\ NoteAt(index) = data.notes[index + 1]
      BY <1>0, <2>3, <2>5, NextSounds
    <3>2. /\ clkdiv' = Tuning(data.notes[index + 1]) /\ index' = index + 1
          /\ fifo' = Append(<<>>, data.notes[index + 1])
      BY <1>10, <2>3, <2>5, <3>1 DEF ResumeHandler, Ended
    <3>3. fifo' = <<data.notes[index + 1]>>
      BY <3>2
    <3>4. Sounds(index)' /\ Queued(index)'
      BY <1>0, <2>1, <2>3, <3>1, <3>2, <3>3 DEF Sounds, Ended, Queued, HeardTo
    <3> QED
      BY <2>1, <2>2, <3>4 DEF Continued
  <2> QED
    BY <2>4, <2>5
<1>11. CASE Pull
  <2>1. /\ fifo # <<>>
        /\ UNCHANGED <<data, undisturbed, index, task, clkdiv, irq, mayEnd>>
    BY <1>11, SongKept DEF Pull
  <2>2. CASE task.at = "idle"
    <3>1. Sounds(index) /\ Queued(index)
      BY <2>1, <2>2 DEF Continued, Ended, Acknowledged, Playing
    <3>2. Sounds(index)' /\ Playing(index)'
      BY <1>0, <1>11, <2>1, <3>1, QueuedIsPulled DEF Sounds, Queued, Playing, HeardTo
    <3> QED
      BY <2>1, <2>2, <3>2 DEF Continued
  <2>3. CASE task.at # "idle"
    <3>1. Replayed /\ task.at = "advance" /\ Queued(1)
      BY <2>1, <2>3 DEF Replayed, Acknowledged, Playing
    <3>2. Playing(1)' /\ Sounds(1)'
      BY <1>11, <2>1, <3>1, QueuedIsPulled DEF Replayed, Sounds, Queued, Playing, HeardTo
    <3> QED
      BY <2>1, <3>1, <3>2 DEF Replayed
  <2> QED
    BY <2>2, <2>3
<1>12. CASE Finish
  <2>1. /\ playing # Nothing /\ playing' = Nothing /\ irq' = TRUE
        /\ UNCHANGED <<data, undisturbed, index, task, fifo, heard>>
    BY <1>12, SongKept DEF Finish
  <2>2. task.at = "idle" /\ Continued
    BY <1>12, <2>1 DEF Finish, At, Replayed
  <2>3. Sounds(index) /\ Playing(index)
    BY <2>1, <2>2 DEF Continued, Ended, Acknowledged, Queued
  <2>4. Sounds(index)' /\ Ended(index)'
    BY <2>1, <2>3 DEF Sounds, Playing, Ended, HeardTo
  <2> QED
    BY <2>1, <2>2, <2>4 DEF Continued
<1>13. CASE UNCHANGED vars
  <2>1. UNCHANGED <<data, undisturbed, index, task, clkdiv, fifo, playing, irq, mayEnd, heard>>
    BY <1>13 DEF vars, composed
  <2> QED
    BY <2>1 DEF Replayed, Continued, Queued, Playing, Ended, Acknowledged, HeardTo, Sounds,
                SongIsOver, NoteAt
<1> QED
  BY <1>1, <1>2, <1>3, <1>4, <1>5, <1>6, <1>7, <1>8, <1>9, <1>10, <1>11, <1>12, <1>13
     DEF Next, Replay

LEMMA WrittenStep == Types /\ Written /\ [Next]_vars => Written'
<1> SUFFICES ASSUME Types, Written, [Next]_vars
             PROVE  Written'
  OBVIOUS
<1>1. ASSUME NEW notes \in Songs, Compose(notes)
      PROVE  Written'
  <2> DEFINE rest == SubSeq(data.notes, Len(notes) + 1, Len(data.notes))
  <2>1. notes \in Seq(Note) /\ data.notes \in Seq(Note)
    BY SongAssumption DEF Types, DataTypes
  <2>2. rest \in Seq(Note)
    BY <2>1
  <2>3. Len(notes \o rest) = Len(notes) + Len(rest) /\ Len(rest) \in Nat /\ Len(notes) \in Nat
    BY <2>1, <2>2
  <2> QED
    BY <1>1, <2>3 DEF Compose, Written
<1>2. CASE data' = data
  BY <1>2 DEF Written
<1> QED
  BY <1>1, <1>2
     DEF Next, Replay, Drain, Rewind, Acknowledge, Fetch, ReadNote, Tune, Put,
         Advance, ResumeHandler, Pull, Finish, vars, composed

LEMMA SongLeftAlone == Spec => [](Types /\ Written /\ LeftAlone)
<1>1. Init => Written /\ LeftAlone
  BY DEF Init, Written, LeftAlone
<1> QED
  BY <1>1, TypesInit, TypesStep, WrittenStep, LeftAloneStep, PTL DEF Spec

(* A song that is started in silence and left alone is played at its       *)
(* pitch: the machine is tuned for the note it plays, from the first to    *)
(* the last, although the handler tunes it before it hands the note over.  *)
THEOREM PitchOfSong == Spec => []UndisturbedPitch
<1>1. LeftAlone => UndisturbedPitch
  BY DEF LeftAlone, UndisturbedPitch, Replayed, Continued, Queued, Playing, Ended,
         Acknowledged
<1> QED
  BY <1>1, SongLeftAlone, PTL

(* How many notes are audible is where the song is over.                   *)
LEMMA AudibleIsWhereItEnds ==
  ASSUME Types, Written, Sounds(index), SongIsOver(index)
  PROVE  Audible = index
<1> DEFINE Ends(n) ==
      /\ n = data.len \/ data.notes[n + 1].len = 0
      /\ \A m \in 1 .. n : data.notes[m].len # 0
<1>1. data.len \in Nat /\ index \in 0 .. data.len /\ data.len <= Len(data.notes)
      /\ data.notes \in Seq(Note)
  BY DEF Types, DataTypes, Written, Sounds
<1>2. Ends(index)
  <2>1. index # data.len => NoteAt(index) = data.notes[index + 1]
    BY <1>1 DEF NoteAt
  <2> QED
    BY <2>1 DEF Sounds, SongIsOver
<1>3. ASSUME NEW n \in 0 .. data.len, Ends(n)
      PROVE  n = index
  <2>1. n < index => n + 1 \in 1 .. index /\ n # data.len
    BY <1>1
  <2>2. index < n => index + 1 \in 1 .. n /\ index # data.len
    BY <1>1
  <2> QED
    BY <1>1, <1>2, <1>3, <2>1, <2>2
<1> QED
  BY <1>1, <1>2, <1>3 DEF Audible

(* ... and to its end: when the sounder falls silent, each of its audible  *)
(* notes has been played, once and in order, however the end of a note and *)
(* the rest of Sounder_replay fall together.                               *)
THEOREM SongToItsEnd == Spec => []UndisturbedSong
<1>1. ASSUME Types, Written, LeftAlone
      PROVE  UndisturbedSong
  <2> SUFFICES ASSUME undisturbed, At("idle"), Silent
               PROVE  heard = SubSeq(data.notes, 1, Audible)
    BY DEF UndisturbedSong
  <2>1. /\ data.notes \in Seq(Note) /\ heard \in Seq(Note) /\ index \in Nat
        /\ data.len \in Nat /\ data.len <= Len(data.notes)
        /\ irq \in BOOLEAN /\ undisturbed \in BOOLEAN
    BY <1>1 DEF Types, DataTypes, QueueTypes, FlagTypes, Written
  <2>2. Continued
    BY <1>1, <2>1 DEF LeftAlone, At
  <2>3. Sounds(index) /\ SongIsOver(index) /\ HeardTo(index)
    <3>1. CASE Playing(index)
      <4>1. data.notes[index] = Nothing /\ index \in 1 .. data.len
        BY <2>2, <3>1 DEF Silent, Playing, Continued, Sounds
      <4> QED
        BY <2>2, <4>1 DEF Continued, Sounds, Nothing
    <3> QED
      BY <2>2, <3>1 DEF Continued, Silent, Queued, Ended, Acknowledged
  <2>4. Audible = index
    BY <1>1, <2>3, AudibleIsWhereItEnds
  <2> DEFINE played == SubSeq(data.notes, 1, index)
  <2>5. played \in Seq(Note) /\ Len(played) = index
        /\ \A m \in 1 .. index : played[m] = data.notes[m]
    BY <2>1, <2>3 DEF Sounds
  <2>6. Len(heard) = index /\ \A m \in 1 .. index : heard[m] = data.notes[m]
    BY <2>3 DEF HeardTo
  <2>7. heard = played
    BY <2>1, <2>5, <2>6, SeqEqual
  <2> QED
    BY <2>4, <2>7
<1> QED
  BY <1>1, SongLeftAlone, PTL
=============================================================================
