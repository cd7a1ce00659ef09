------------------------------ MODULE Sounder ------------------------------
(***************************************************************************)
(* The sounder (src/sounder.c, src/sounder.pio): a PIO state machine plays *)
(* one note after the other and raises an interrupt at the end of each;    *)
(* sounder_resume_handler, the interrupt's handler, tunes the machine for  *)
(* the next note and hands it over through the TX FIFO.  Sounder_replay    *)
(* calls the same handler from the program, with the interrupt enabled.    *)
(***************************************************************************)
EXTENDS Naturals, Sequences

CONSTANTS
  Songs,        \* sequences of notes [hz, len]; hz 0 is a rest
  DefaultHz     \* the pitch a rest is counted at

Note == [hz : Nat, len : Nat]

ASSUME SongAssumption ==
  /\ Songs \subseteq Seq(Note)
  /\ DefaultHz \in Nat

FifoDepth == 4
Nothing == [hz |-> 0, len |-> 0]

VARIABLES
  data,      \* Sounder_song_data, Sounder_song_len and Sounder_song_data_len
  index,     \* Sounder_song_data_index
  task,      \* where Sounder_replay is, and its locals
  clkdiv,    \* the pitch the machine is tuned to
  fifo,      \* the machine's TX FIFO
  playing,   \* the note in the machine's registers, Nothing if it waits in pull
  irq,       \* the machine's interrupt flag
  mayEnd,    \* may the note playing end before Sounder_replay does?
  undisturbed, \* history: was the song started in silence, and left alone?
  heard      \* history: the notes started since Sounder_replay was called

composed == <<data, undisturbed>>
vars == <<composed, index, task, clkdiv, fifo, playing, irq, mayEnd, heard>>

(* Definitions named ...Mutated are variants of the one that follows, each  *)
(* with a bug the properties must notice; the specification uses none.     *)

(* The arrays are static and longer than any song: past what was ever      *)
(* written they hold zeros.                                                *)
NoteAt(i) == IF i < Len(data.notes) THEN data.notes[i + 1] ELSE Nothing
SongIsOverTooSoonMutated(i) == i + 1 = data.len \/ NoteAt(i).len = 0
SongIsOverAtItsLengthMutated(i) == i = data.len
SongIsOver(i) == i = data.len \/ NoteAt(i).len = 0

Tuning(note) == IF note.hz = 0 THEN DefaultHz ELSE note.hz

Silent == playing = Nothing /\ fifo = <<>> /\ ~irq

-----------------------------------------------------------------------------
(* Sounder_replay, interruptible between its steps.                        *)
At(place) == task.at = place
Goto(place) == task' = [task EXCEPT !.at = place]

DrainNotMutated ==
  /\ At("idle")
  /\ undisturbed' = Silent
  /\ heard' = <<>>
  /\ mayEnd' = (playing # Nothing)
  /\ Goto("rewind")
  /\ UNCHANGED <<data, index, clkdiv, fifo, playing, irq>>

Drain ==
  /\ At("idle")
  /\ fifo' = <<>>
  /\ undisturbed' = Silent
  /\ heard' = <<>>
  /\ mayEnd' = (playing # Nothing)
  /\ Goto("rewind")
  /\ UNCHANGED <<data, index, clkdiv, playing, irq>>

Rewind ==
  /\ At("rewind")
  /\ index' = 0
  /\ Goto("acknowledge")
  /\ UNCHANGED <<composed, clkdiv, fifo, playing, irq, mayEnd, heard>>

Acknowledge ==
  /\ At("acknowledge")
  /\ irq' = FALSE
  /\ Goto("fetch")
  /\ UNCHANGED <<composed, index, clkdiv, fifo, playing, mayEnd, heard>>

Return == task' = [at |-> "idle", note |-> Nothing, index |-> 0]

(* The end is tested ...                                                   *)
Fetch ==
  /\ At("fetch")
  /\ IF index = data.len THEN Return
     ELSE task' = [task EXCEPT !.at = "read", !.index = index]
  /\ UNCHANGED <<composed, index, clkdiv, fifo, playing, irq, mayEnd, heard>>

(* ... then the two arrays are read, each with the index that was tested or*)
(* with what an interrupt has made of it since.                            *)
ReadNote ==
  /\ At("read")
  /\ \E i, j \in {task.index, index} :
       IF NoteAt(j).len = 0 THEN Return
       ELSE task' = [task EXCEPT !.at = "tune",
                                 !.note = [hz |-> NoteAt(i).hz, len |-> NoteAt(j).len]]
  /\ UNCHANGED <<composed, index, clkdiv, fifo, playing, irq, mayEnd, heard>>

(* The index is read again for its increment, at the earliest after the    *)
(* call of clock_get_hz, here.                                             *)
Tune ==
  /\ At("tune")
  /\ clkdiv' = Tuning(task.note)
  /\ task' = [task EXCEPT !.at = "put", !.index = index]
  /\ UNCHANGED <<composed, index, fifo, playing, irq, mayEnd, heard>>

Put ==
  /\ At("put")
  /\ Len(fifo) < FifoDepth
  /\ fifo' = Append(fifo, task.note)
  /\ Goto("advance")
  /\ UNCHANGED <<composed, index, clkdiv, playing, irq, mayEnd, heard>>

Advance ==
  /\ At("advance")
  /\ index' \in {task.index + 1, index + 1}
  /\ Return
  /\ UNCHANGED <<composed, clkdiv, fifo, playing, irq, mayEnd, heard>>

ResumeHandlerRestsAtLastPitchMutated ==
  /\ irq
  /\ irq' = FALSE
  /\ \/ /\ SongIsOver(index)
        /\ UNCHANGED <<clkdiv, fifo, index>>
     \/ /\ ~SongIsOver(index)
        /\ Len(fifo) < FifoDepth
        /\ clkdiv' = IF NoteAt(index).hz = 0 THEN clkdiv ELSE NoteAt(index).hz
        /\ fifo' = Append(fifo, NoteAt(index))
        /\ index' = index + 1
  /\ UNCHANGED <<composed, task, playing, mayEnd, heard>>

ResumeHandlerReturnsFirstMutated ==
  /\ irq
  /\ \/ /\ SongIsOver(index)
        /\ UNCHANGED <<irq, clkdiv, fifo, index>>
     \/ /\ ~SongIsOver(index)
        /\ Len(fifo) < FifoDepth
        /\ irq' = FALSE
        /\ clkdiv' = Tuning(NoteAt(index))
        /\ fifo' = Append(fifo, NoteAt(index))
        /\ index' = index + 1
  /\ UNCHANGED <<composed, task, playing, mayEnd, heard>>

(* sounder_resume_handler as the interrupt's handler: nothing of the       *)
(* program runs before it returns.                                         *)
ResumeHandler ==
  /\ irq
  /\ irq' = FALSE
  /\ \/ /\ SongIsOver(index)
        /\ UNCHANGED <<clkdiv, fifo, index>>
     \/ /\ ~SongIsOver(index)
        /\ Len(fifo) < FifoDepth
        /\ clkdiv' = Tuning(NoteAt(index))
        /\ fifo' = Append(fifo, NoteAt(index))
        /\ index' = index + 1
  /\ UNCHANGED <<composed, task, playing, mayEnd, heard>>

(* The state machine: pull a note, play it, irq 1.  The notes Sounder_replay*)
(* starts last longer than the rest of its code.                           *)
Pull ==
  /\ playing = Nothing
  /\ fifo # <<>>
  /\ playing' = Head(fifo)
  /\ fifo' = Tail(fifo)
  /\ heard' = Append(heard, Head(fifo))
  /\ UNCHANGED <<composed, index, task, clkdiv, irq, mayEnd>>

Finish ==
  /\ playing # Nothing
  /\ At("idle") \/ mayEnd
  /\ playing' = Nothing
  /\ irq' = TRUE
  /\ mayEnd' = FALSE
  /\ UNCHANGED <<composed, index, task, clkdiv, fifo, heard>>

(* External: the gem writes a song into the arrays, over the last one.     *)
Compose(notes) ==
  /\ At("idle")
  /\ data' = [notes |-> notes \o SubSeq(data.notes, Len(notes) + 1, Len(data.notes)),
              len |-> Len(notes)]
  /\ undisturbed' = FALSE
  /\ UNCHANGED <<index, task, clkdiv, fifo, playing, irq, mayEnd, heard>>
-----------------------------------------------------------------------------
Init ==
  /\ data = [notes |-> <<>>, len |-> 0]
  /\ index = 0
  /\ task = [at |-> "idle", note |-> Nothing, index |-> 0]
  /\ clkdiv = DefaultHz
  /\ fifo = <<>>
  /\ playing = Nothing
  /\ irq = FALSE
  /\ mayEnd = FALSE
  /\ undisturbed = FALSE
  /\ heard = <<>>

Replay == Rewind \/ Acknowledge \/ Fetch \/ ReadNote \/ Tune \/ Put \/ Advance

Next ==
  \/ \E notes \in Songs : Compose(notes)
  \/ Drain \/ Replay
  \/ ResumeHandler
  \/ Pull \/ Finish

Spec == Init /\ [][Next]_vars

(* The program's code, the interrupt and the machine all make progress.    *)
FairSpec ==
  Spec /\ WF_vars(Replay) /\ WF_vars(ResumeHandler) /\ WF_vars(Pull) /\ WF_vars(Finish)
-----------------------------------------------------------------------------
(* Every variable keeps its type.  Replays that race with the ends of      *)
(* notes may increment the index past the song, which the handler's test   *)
(* for equality then misses; the zeros after it hold it there.             *)
TypeOK ==
  /\ data \in [notes : Seq(Note), len : Nat]
  /\ index \in 0 .. Len(data.notes) + 1
  /\ task \in [at : {"idle", "rewind", "acknowledge", "fetch", "read", "tune", "put",
                     "advance"},
               note : Note, index : Nat]
  /\ clkdiv \in Nat
  /\ fifo \in Seq(Note) /\ heard \in Seq(Note)
  /\ playing \in Note
  /\ {irq, mayEnd, undisturbed} \subseteq BOOLEAN

(* pio_sm_put_blocking never waits, in the interrupt least of all: however *)
(* replays and ends of notes fall together, the FIFO has room.             *)
PutNeverBlocks == irq \/ At("put") => Len(fifo) < FifoDepth

(* A song started in silence and left alone is played at its pitch ...     *)
UndisturbedPitch ==
  undisturbed /\ playing # Nothing => clkdiv = Tuning(playing)

(* How many notes are to be heard: those up to the first of length 0.      *)
Audible ==
  CHOOSE n \in 0 .. data.len :
    /\ n = data.len \/ data.notes[n + 1].len = 0
    /\ \A m \in 1 .. n : data.notes[m].len # 0

(* ... and to its end, each note once and in order: silence means that     *)
(* all its audible notes were played.                                      *)
UndisturbedSong ==
  undisturbed /\ At("idle") /\ Silent => heard = SubSeq(data.notes, 1, Audible)

(* Left alone, the sounder falls silent.                                   *)
FallsSilent ==
  <>[][Replay \/ ResumeHandler \/ Pull \/ Finish]_vars => <>[]Silent
=============================================================================
