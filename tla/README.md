# PRK Firmware in TLA+

Models of the C and PIO core of PRK Firmware, a keyboard firmware for RP2040
boards, with TLC runs and TLAPS proofs. The reference is the source:
`src/*.c`, `src/*.pio`, `include/*.h` and `mrblib/usb_task.rb`. `PROJECT.json`
maps every definition to the lines it translates.

The keyboard, mouse, VIA, joystick and sounder classes, the PicoRuby VM, the
mass-storage disk, TinyUSB and the Pico SDK are in submodules or other
repositories. Here they are the environment: what they may do is modelled from
how the code of this repository uses them and marked *external* in the map.

## 1. Inventory

| Component | State | Operations | Model |
|---|---|---|---|
| HID report scheduler (`usb_descriptors.c` 264-422, 447-507) | `input_updated_bitmap`, values to report, `mouse_zero_report`, `via_active` | `USB.hid_task`, `merge_mouse_report`, `merge_joystick_report`, `report_raw_hid`, `send_hid_report`, `tud_hid_report_complete_cb` | `HidReport`, `LatestState` |
| Output reports and VIA exchange (199-257, 355-368, 424-445) | raw report mailbox and flag, LED byte, observation switch | `tud_hid_set_report_cb`, `raw_hid_report_received?`, `get_last_received_raw_hid_report`, start/stop observing | `Via` |
| Gamepad report (`joystick.c`) | `zero_reported`, what the inputs read | `joystick_report_hid` | scheduling in `HidReport`, arithmetic in `Joystick` |
| Split UART (`keyboard.c` 8-220) | the pin, sample counters, the words | `c_Keyboard_uart_anchor`, `Keyboard_mutual_partner_get8_put24_blocking` | `SplitUart` |
| Identity in flash (`usb_descriptors.c` 509-576) | a flash sector, `desc_device`, `prk_conf_name` | `USB.save_prk_conf`, `prk_init_USB` | `PrkConf` |
| Start, main loop, autoreload (`main.c`, `usb_task.rb`, `keyboard.c` 222-249) | `autoreload_state`, where the loop is | `main`, the loop, `tud_msc_write10_complete_cb`, `autoreload_ready?`, `autoreload_off`, `Machine.reset_usb_boot` | `Firmware` |
| Sounder (`sounder.c`, `sounder.pio`) | song index, clock divider, TX FIFO, interrupt flag | `Sounder_init`, `Sounder_replay`, `sounder_resume_handler`, the PIO program | `Sounder`, `Pio` |
| RGB LEDs (`ws2812.c`, `ws2812.pio`) | the DMA channel, the PIO block's instruction memory | `RGB_init_pio`, `RGB_init_dma_ws2812`, `RGB_dma_channel_set_read_addr`, the PIO program | `Pio` |
| Rotary encoder, rest of `machine.c`, CDC callbacks | none of their own | register and SDK wrappers | not modelled |
| Descriptors, build files | constant | | not modelled |

**Interactions.** The Ruby tasks run on a VM that switches between bytecodes
only, so a C method is never interrupted by another one. TinyUSB's callbacks
run inside `Machine.tud_task`, which only `usb_task` calls. The scheduler is
entered from both sides and shares the bitmap, the accumulators and interface
0 with keyboard, mouse, consumer and raw HID reports; the joystick has
interface 1; its axes are sampled whenever a report is built, also inside a
callback, its buttons and hat are merged before. LEDs and sounder share the
instruction memory of one PIO block, into which two gems load their programs in
either order. Really concurrent are: the host and the endpoints, the state
machines of the PIO block, the DMA channel, the sounder's interrupt handler
(which interrupts `Sounder_replay`, that calls the same function), the two
halves of a split keyboard, and a loss of power.

**What is hard.** Updates dropped because an interface is busy or the bus
suspended; completions that arrive later than newer values; one endpoint for four kinds of report;
buses that suspend and reset; one-place mailboxes; two programs synchronised by
nothing but sleeps, with sampling counters of eight bits; an interrupt inside
the function it shares; power lost between erase and program; a reload
requested while one is made; two programs in one memory, initialised again at
any moment; several sticks on one axis. `PROJECT.json` lists each hazard at its line.

**What makes the parts correct.** *Scheduler:* the host sees only states the
scan produced, in order; state that stays put arrives; no motion is lost or
doubled. *VIA:* the last command is not lost, none is executed twice, answers
reach their command. *Split UART:* only frames are taken for frames, words
arrive unchanged, a listening partner is served. *Identity:* the next power-on
reads what was saved. *Autoreload:* no keymap stays stale. *Sounder:* the
handler never blocks; notes in order, at their pitch, to the end. *LEDs:* every
frame gets out whole and in legal pulses. *PIO block:* both programs stay whole
at their places. *Axes and hat:* they keep their width, further is never less,
the hat points where the keys do.

## 2. Modules

| Module | Role |
|---|---|
| `LatestState` | Abstract: what one report promises. A current state, at most one copy on the wire, delivered in order. |
| `HidReport` | The scheduler with both endpoints, TinyUSB, host and bus. `KeyboardChannel`, `ConsumerChannel`, `GamepadChannel` map it to `LatestState`. |
| `Via` | Extends `HidReport` with the mailboxes and the exchange of commands and answers. |
| `SplitUart` | Both ends of the one-wire UART in ticks of 10 microseconds. |
| `Joystick` | The arithmetic of a gamepad report: axes from samples, hat from direction bits. |
| `Pio` | The instruction memory, both state machines cycle by cycle, the DMA channel, and the initialisations. |
| `Sounder` | The program, the interrupt handler and the state machine. |
| `PrkConf` | The flash sector and the identity read from it. |
| `Firmware` | Extends `PrkConf` with power, the loop of `usb_task`, the disk and reloads. |
| `MC...` | Values for TLC. |
| `..._proofs` | Theorems and proofs. |

`HidReport` comes first, as every key press passes through it; `Via` extends
it and `Firmware` extends `PrkConf`, the other modules stand alone, as the
parts of the code they model share no state, with one exception: `Sounder` and
`Pio` both have the sounder's FIFO. `Sounder` has the handler and abstracts how
long a note lasts, `Pio` has the time and takes the notes as they come. No module has a RECURSIVE
operator, so that all of them can be proved about.

A definition named `...Mutated` is a variant of the one next to it with a
plausible bug. The specifications use none of them; each property is shown to
fail with one of them in place, so that a property that holds says something.

### HidReport

State is named as in the source; the bitmap is the set of IDs whose bit is 1,
`keyboard` is modifier and keycodes together. `SendHidReport` is
`send_hid_report`, used by `HidTask` and by `ReportComplete`: first
`StillUpdated` clears the bits of interfaces that are not ready, then the
lowest ID has the turn, whether or not it can send (`CONSUMER_CONTROL` under
`via_active` sends nothing and keeps the turn). `in_flight` is what the
endpoints hold and `delivered` says that the host has taken it while `tud_task`
has not yet noticed. `TudReport` refuses a report on a busy endpoint silently,
as the callers ignore its result. `owed` is a history variable: motion merged
and neither taken by the host nor lost with a reset. The host counts motion in
the eight bits of an axis, so accounts are modulo 256.

`ScanWhileBusy` and `MergeWhileBusy` say how fast the Ruby side is. With both
FALSE it works more slowly than the host polls: on a configured bus `hid_task`
and `merge_mouse_report` never find a report on its way (`Unhurried`), which is
what a loop slower than the 8 ms of the descriptor approximates. On a bus that
is suspended or not configured they are called as ever and find what there is.

The USB interrupt sets TinyUSB's flag of a suspended bus at once, so a bus may
suspend while a completion waits for `tud_task`; the callback then finds the
interface not ready and drops bits. A reset is handled by `tud_task` in the
order of the events, after the completions before it.

Remote wakeup is not offered by the configuration descriptor (attribute 0), so
`tud_remote_wakeup` does nothing.

The sticks move at any moment (`MoveSticks`), `JoystickReportHid` reads where
they are. `GamepadChannel` has buttons, hat and axes as one state, so a report
whose parts are of different moments has to be one that was current when it was
built.

### Via

A report of the host ends in `SetReport`. Commands are numbered so that a later
one can be told from an earlier one. The Ruby task takes a command when the
flag is set, and tries its answer until `report_raw_hid` is true. The order in
the C code (the copy and then the flag) cannot be interrupted, as the callback
runs in `tud_task`; a report that comes between the question and the copy is
the one that is copied, and is read once, which is one step of the model.

The steps of the scheduler are sorted by what becomes of updates: a scan
(`ScanReports`) asks for some and may forget some, a completion (`Completes`)
may forget some, after a reset (`BusIsReset`) the host knows nothing of what is
held, all others (`GoesOn`) do neither. `missed` is a history of it: the
keyboard or consumer report whose last change was forgotten, which means that
its bit was cleared and the report that went out was another one, or that a
reset took it from the host. The next change scanned takes it off. It is the
exception `KeysArrive` and `ConsumerKeysArrive` make. `hasty` becomes TRUE when
the host sends a command before it has its answer, or a reset takes the answer
away.

### Joystick

A variable holds what each input reads. `Value` is the product with the
sensitivity, cut to an `int16_t`; `Gain` stands for the multiplication by a
float and is any function of the deviation. `Axis` is what the loop over the
inputs leaves in the report: the last input of the axis outside its drift.
`HatOf` is the pair of switches, with the argument cut to `uint8_t`.
`FurtherIsNeverLess` is about sticks that are alone on their axis and whose
products fit 16 bits and do not fall (`Moderate`); the instance also has an
input whose products wrap, which keeps its width and no more.

### Pio

An instruction is its operation, one argument and its delay. `Relocated`,
`CanAdd` and `Loaded` are what the Pico SDK does when a program is added:
refuse if a word is taken, move the targets of jumps. `Started` is
`pio_sm_init`, which empties FIFOs and shift register and jumps to the
program's first instruction. `RGB_init_pio` starts its machine only when it
has added its program, `Sounder_init` always; both may be called again at any
moment. `Execute` is one instruction of a machine. `expected` is a history of
the bits the LEDs are still to get, `due` of the cycles until the sounder's
note should end. `run` counts how long a pin has had its level, up to 8 cycles,
since pulses of 3 and 7 and a gap of at least 7 are told apart.

The channel is configured and triggered only while it is idle, and triggered
only when the machine was initialised; the RGB gem, which calls these
functions, is external.

### SplitUart

A tick is SAMPLING_INTERVAL. `anchor` and `partner` are records of a place in
the code, the ticks its sleep still lasts, a loop counter, the levels the pin
drives and the locals. `Line` is the set of levels a pin may read: the pull-up
if nobody drives, either one if both do. What both do in the same tick happens
in any order. `Oversleep` lets a sleep last a tick longer.

Bounds and limits. The partner may call the receiving function at any tick.
`Pause` is the time the anchor stays idle between calls at least. With a pause
of 85 ticks and a sleep that is a tick late `FrameUnderstood` does not hold: a
partner that starts to listen inside a frame can take data bits and the next
stop bit for a frame. The runs use 86, the smallest pause for which the proofs
hold, which is less than a millisecond; the keyboard's loop, which is external,
does more between two calls. `MaxLate` is 1: a single sleep of an exchange
oversleeps by a tick; the comments ask for stop bits that are "roughly" their
length. With two late ticks in the worst places TLC finds, for longer pauses
too, an exchange that fails although the partner was listening (`MetSucceeds`),
and with three a frame that is misread, so the properties are about this bound.
Bytes are all zeros, all ones, one that looks like a stop bit, and alternating
bits; the 24-bit word has its first and last bit set, so an exchange shifted by
a bit is noticed. Its other bits are sampled by the same code.

### Sounder

`Sounder_replay` is cut where the interrupt can see a difference: drain,
rewind, acknowledge, fetch, read, tune, put, advance. The handler is one step.
`clkdiv` is the pitch the machine is tuned to. A note is abstracted to its
pitch and length; `mayEnd` says that a note that was already playing may end
while `Sounder_replay` runs, and notes that it starts itself outlast the few
instructions that follow. The index is read by the comparison (`Fetch`), by the
reads of the two arrays (`ReadNote`) and by `index++`. An array may be read with
the index that was compared or with what an interrupt has made of it since, as
no call lies between that would make the compiler read it again; `Advance`
allows both values an interrupted increment can write.

### PrkConf and Firmware

A text is the sequence of its fields between colons, a field the number
`strtol` reads in it and its characters. An erased sector is 0xff bytes: a
field without a digit that need not end, so whatever lies on the stack may
follow (`Junk`). Power may fail before, between and in the two flash
operations; a torn sector reads as anything. `Firmware` adds the host that
writes or deletes `/keymap.rb`, the callback, and the reload of the loop in two
steps: `Restart` finds a reload due and turns autoreload off, `Load` reads the
file that is there then. Writes and callbacks may come between the two.
Assumed: a build with a disk, texts shorter than PRK_CONF_SIZE (the code does
not check), and that `Keyboard.restart`, which is external, turns autoreload
off before it reads the file.

## 3. Runs

| Run | Checks | Shows |
|---|---|---|
| `hid_mouse_keys` | `TypeOK` `MotionAccounted` `CompletionClearsOnlyDelivered` `KeyboardInOrder` | With scans, merges, raw reports, suspensions and resets in any order, no motion is lost or doubled, and the keyboard report implements `LatestState`. Steps of 64 and -64 wrap an axis within a few merges. |
| `hid_gamepad` | `PendingIsOnTheMove` `SilentPadIsNeutral` `ConsumerInOrder` `GamepadInOrder` `GamepadConverges` | Two interfaces whose completions drop each other's bits: nothing pending is forgotten by the completions, the silent pad is neutral, the gamepad converges. |
| `hid_impatient_live` | `KeyboardConverges` **violated** | A program that scans during a transfer can leave a release unreported. |
| `hid_mouse_release` | `ButtonsReleased` **violated** | Scanning more slowly than the host polls is not enough for the mouse, not even on a bus without suspensions and resets. |
| `via` | `ViaTypeOK` `LastCommandKept` `TakenInOrder` `OwnAnswer` `EveryCommandAnswered` `KeysArrive` `ConsumerKeysArrive` | For a Ruby side slower than the host: two commands of a hasty or patient host, with keys, consumer keys, a mouse button and LED reports, on a bus that suspends and resets at any moment and is scanned throughout. Commands and answers keep together, and keys at rest arrive but for the changes said below. |
| `uart` | `TypeOK` `FrameUnderstood` `ContentionIsBrief` `WordIsPartners` `MetSucceeds` `PartnerServed` | The exchange works within the limits above. |
| `uart_nil` | `NilOnError` **violated** | An error's NIL is overwritten. |
| `sounder` | `TypeOK` `PutNeverBlocks` `UndisturbedPitch` `UndisturbedSong` `FallsSilent` | The handler and `Sounder_replay` share their state without blocking, wherever the interrupt falls. |
| `joystick` | `TypeOK` `DeflectionShown` `HatPoints` `FurtherIsNeverLess` | Two inputs share an axis, one wraps, one is plain; the hat gets every byte that matters. |
| `pio` | `ProgramsIntact` `WireCarriesFrames` `FramesShown` `NoteTakesItsTime` | Initialisations in any order and again at any moment, frames longer than the FIFO, notes next to them. |
| `firmware` | `TypeOK` `NoStaleKeymap` `BootsAsSaved` `LastKeymapRuns` | Reloads and saves survive power loss and hosts that write at any time, in the middle of a restart too. |
| `firmware_default` | `DefaultMeansDefault` **violated** | A never written sector is not the default. |

Bounds. Two values per report (neutral and not) are enough for properties that
compare values for equality: every interleaving of change and return to
neutral is there, and the proofs cover all value sets. One mouse axis stands
for four, which the code treats alike and the proofs cover. Two commands
are one to be read or answered and one that overwrites or overtakes it. Songs have a rest, a
note of length 0 before the end, and one is shorter than the other, so that the
arrays keep notes of an older song. Two keymaps with texts of one name and
different IDs make a comparison of names fail. A colour of two bits, or three
with white, has a first and a last bit, and one the strip is not to get without
white; a FIFO of one word makes the channel wait within a frame of three. Notes
of lengths 0 and 1 end the sounder's loop at once and after a turn. Samples are
both ends, the middle and both sides of the drift.

Fairness. Scans and joystick merges are weakly fair with the values as they
are, since the Ruby loops call `hid_task` and `merge_joystick_report` for ever,
changed or not. Completions are, since `usb_task.rb` calls `tud_task` for ever.
The host polls the endpoints of a configured device and ends a suspension.
In `SplitUart` sleeps end, and each side calls its function again. In
`Sounder` notes end and interrupts are taken. In `Firmware` the loop runs and
the keymap calls `save_prk_conf` once loaded. Nothing is assumed of users, of
VIA's host, of power or of the bus; `BusSettles` is a premise where a property
needs it. In `Pio` the DMA channel and the machines go on by themselves; frames,
notes and initialisations are owed by nobody.

What the convergence properties leave out. `hid_task` reports changes, and a
change is gone when its bit is dropped: on a suspended or unconfigured bus every
scan's is, and a key that is held over a bus reset does not change. `KeysArrive`
and `ConsumerKeysArrive` except exactly these (`missed`), and what they show is
that nothing else gets lost and that the next change of the keys repairs it.
After an answer VIA's switch stays on until a consumer key is seen pressed, so
a release scanned before that is not sent; `ConsumerKeysArrive` says that then
its bit is still set (`Withheld`). `EveryCommandAnswered` needs keys and mouse to
come to rest: their reports take the interface before the answer is tried again,
for ever if the mouse never stops. `GamepadConverges` has as a premise that no
withheld consumer update keeps the turn. `hid_gamepad`, whose scans come at any
time, is checked on buses that suspend and resume. Of mouse buttons nothing is
shown but the finding.

## 4. Findings

* `usb_descriptors.c:292` drops the update bit of a report when interface 0 is
  busy, while `hid_task` already stored the new values: a key change scanned
  during a transfer is not reported until the keys change again
  (`hid_impatient_live`). On a suspended bus this happens to every change.
* `usb_descriptors.c:408` takes the all-zero mouse report as done when it is
  asked for; a button merged while it waits takes its place and is not
  released (`hid_mouse_release`). With resets and suspensions there are more ways
  to this: the bit of the all-zero report survives a reset that loses the report,
  and a suspended bus drops the bit and leaves the mark that it was asked for.
* `keyboard.c:119` sets NIL and line 121 overwrites it (`uart_nil`).
* `usb_descriptors.c:564` takes an erased sector for a text: the VID becomes 0
  under the name "Default VID/PID" (`firmware_default`).

Known limits that no text of the repository contradicts. `sounder.c:33` tunes
the machine at once for the note it queues: a song replayed while another note
plays is queued behind it, and each of its notes is heard at the pitch of the
next, which is why `UndisturbedPitch` is about songs started in silence. After
an answer to VIA the release of a consumer key is not sent before the next
consumer key is pressed (`usb_descriptors.c` 323, 411), and its bit keeps the
gamepad from its turn (336). A sensitivity whose products do not fit 16 bits
wraps an axis to the other side (`joystick.c:58`). The
test for too many idle bits (`keyboard.c:85`) is never true, as the loop ends at
the limit; a silent partner fails the test of the stop bit instead. LED reports
that arrive while nobody observes are dropped. A second `RGB_init_pio` ignores
its pin and its colour order.

## 5. Proofs

The assumptions are the named ASSUMEs of the modules, which say that the
neutral values are values and that settings are of their type.

**HidReport_proofs.** Everything rests on `SendSummary`: a call of
`send_hid_report` puts at most one report on one idle endpoint, made of the
current values, and a keyboard or mouse bit that survives the call belongs to a
busy interface. From it:

* `TypeCorrect`: `Typed`, which is `TypeOK` with `IdleIsNotTaken` (an idle
  endpoint is not marked as taken), is inductive. The second part is needed
  because completions would otherwise report an ID that is none.
* `MotionConserved`: `MotionAccounted` is inductive relative to `Typed`;
  `ToInt8Facts` gives the arithmetic modulo 256.
* `CompletionIsHarmless`, `PendingMoves`: inductive relative to `Typed`.
* `SilentPad`: `SilentPadIsNeutral` alone is not inductive, since a report with
  a button might still be under way to a host that has the zero report;
  `LastPadIsZero` strengthens it.
* `KeyboardRefines`: the keyboard report implements `LatestState`, step by step
  under the mapping `KeyboardChannel`.

**HidChannels_proofs.** `ConsumerRefines` and `GamepadRefines`: the other two
reports implement `LatestState` as well, by the same `SendSummary`. Each rests
on a list of the four kinds of step the channel allows (`ConsumerSteps`,
`PadSteps`); every action of `HidReport` is shown to be one of them. For the
gamepad, a move of the sticks is a change of the channel's state, so a report
carries buttons and axes of one moment.

The invariants are proved inductive for `AnyNext`: the scheduler's steps, and a
raw report at any moment, whether the program sends it itself or a VIA task does
beside it. `SpecIsAny` carries them to `Spec`. `Via` takes only such steps, so
the results hold there too.

**Via_proofs.** `Mailbox` (the mailbox holds the last command, and its flag
says exactly whether that one is still to be taken) is inductive, which gives
`LastCommandIsKept` and `CommandsTakenInOrder` for any number of commands.

* `ReportsBesideVia`: every step of `ViaNext` is a step of `AnyNext` or leaves
  the scheduler alone; the three reports stay in order and the motion accounted
  for beside VIA.
* `TypesOfVia`: `Typed` and `Mailbox` with the types of the exchange.
* `AnswerIsOwn`: `OneAtATime` says that with a host that waits at most one
  command is about, and at one place: unread in the mailbox, with the task, or
  answered on the wire. Without `Mailbox` it is not inductive, since a command
  taken has to be the last one sent.

**Joystick_proofs.** `TypeCorrect` needs that `Clamp` maps every integer into
eight bits. `DeflectionIsShown`: a value outside its drift is not 0, and `Clamp`
keeps its sign; `LastIsLast` says that a set of inputs that is not empty has a
last one, by the well-founded order of the natural numbers.
`FurtherStaysFurther`: `Clamp` is monotone and drift suppression is, as the
drift contains 0. `HatPointsAsAsked`: the tables are compared with the geometry
of the hat for every argument of a byte, by its bits (`HatWays`).

**Pio_proofs.** `Inv` says of each machine that its part of the memory holds its
program if it was asked for and is free if not, and that it runs inside that
part exactly if it was asked for. Freeness makes the first initialisation
succeed whatever the other one did (`CanAddOnce`); that jumps stay inside comes
from the two programs (`JumpsStay`). `ProgramsStayIntact` follows.

* `NotesTakeTheirTime`: `OnTime` says for each of the nine instructions how many
  cycles the note still has: the rounds X counts, and the rest of this one. The
  two ways through the loop differ by the cycle in 128.
* `WireCarries`: `Carrying` gives for each of the eleven instructions the level
  of the pin and how long it has had it, and says that what the LEDs still
  expect is the bit on the wire, then the shift register, then the words of the
  FIFO and those not yet moved. That a word is cut to the width of a colour at
  the right bits is a fact about division (`ColoursConcat`). A trigger, a
  transfer by the channel and a pull move bits between these places; a second
  initialisation leaves them, because `Inv` makes it fail.

**Firmware_proofs.**

* `TypeCorrect`: VID and PID fit 16 bits whatever is in the flash, also after a
  torn write, for any texts and any `Junk`.
* `ReloadsHappen`: `NoStaleKeymap` speaks of the loop only and is not
  inductive, because the host may write between power-on and the loop.
  `ReloadIsDue` says the same of both places. In the middle of a restart nothing
  is due, but the file is still to be read.
* `SavedIdentityBoots`: `SavedIsInFlash` relates the history of ended saves to
  the sector and says that none has ended while one is under way.

**Sounder_proofs.**

* `TypeCorrect`: `Types` holds the bounds of the index at each place of
  `Sounder_replay`. The index may get one past the arrays, since the handler
  may increment between the two reads of the program's own increment, and no
  further, since it then reads a note of length 0. At the read, the index is the
  one that was tested or, incremented by the handler, inside the arrays.
* `PutIsImmediate`: `Room` adds up the notes in the FIFO, the one being
  fetched, the one that plays and the one whose end has not been handled.
  Only a drain, which empties the FIFO, adds to that sum, so it stays at most
  3, and whoever may put a note finds at most two in the FIFO.
* `PitchOfSong`, `SongToItsEnd`: `LeftAlone` follows a song nobody disturbs, note
  by note: the one of the index is queued, playing or over, those before it have
  been heard, and the machine is tuned to it. While `Sounder_replay` runs, the
  first note does not end (`mayEnd`). `Audible`, a CHOOSE in the property, is
  where the song is over (`AudibleIsWhereItEnds`).

**SplitUart_proofs.** `Fine` has the types and, for each place in the code, which
levels a pin drives and how long its sleep can still be; it needs no assumption
on the timing (`TypesOfUart`). The other four theorems assume `Timely`: at most
one late tick from call to call, and 85 + `MaxLate` idle ticks between two calls
at least. With `MaxLate` = 1, TLC finds counterexamples for a pause one tick
shorter, and for a second late tick. `Timed` adds `InStep` to `Fine`: the
argument for the protocol, with two clocks that count the ticks since the anchor
called and since the partner took a fall of the line for a start bit.

* `SeesLow`, `CountsData`: a partner that counts ones notices a 0 within a tick,
  so what it counts among the data bits began there and is shorter than a long
  stop bit.
* `FrameTaken`: a partner that samples has taken the anchor's start bit, and the
  clocks differ by a tick or two (`Aligned`); or the anchor's extra bit, and
  finds the short stop bit too long (`Behind`); or the beginning of its idling,
  and the next call comes too late to look like a short stop bit (`Idles`,
  `CalledLate`; this is what the pause is needed for).
* `Turning`, `Answering`: the roles exchanged. The anchor hunts for the start bit
  and samples each bit of the word while it is on the line.
* `Unanswered`, `Met`: an anchor that nobody answers sees an error at once; a
  partner that was listening when the anchor called follows the whole exchange.

`TimeMoves` proves that a tick and a late sleep keep all of this, and one lemma
per action (`...InStep`) the rest. `PartnerUnderstands`, `ContentionAtTheEnd`,
`AnchorUnderstands` and `MetIsAnswered` follow, for all bytes, words and pauses.

## 6. What is not proved, and what is not modelled

Every safety invariant and every action property of a passing run is a theorem.
Only model-checked is liveness, which is beyond the prover under fairness:
`KeysArrive`, `ConsumerKeysArrive`, `GamepadConverges`, `EveryCommandAnswered`,
`FramesShown`, `PartnerServed`, `FallsSilent`, `LastKeymapRuns`. The findings of
section 4 are shown by their runs alone.

Not modelled:

* Rotary encoder, CDC callbacks and the methods of `Machine` other than
  `reset_usb_boot`: calls of registers and of the SDK. What changes state behind
  them is in gems.
* Descriptors and build files: constants. What the scheduler depends on (two
  interfaces, the report IDs, no remote wakeup) is in `HidReport`. The copy of a
  string into its descriptor keeps no state and is not modelled.
* Pins, clock dividers of the PIO block other than the sounder's, and the buffer
  of colours, which the RGB gem fills.
* Missing or empty arguments, and lengths of reports: they change nothing.
* The VM, its gems, the disk and TinyUSB: not in this repository.

## 7. Plan

In this order:

1. The safety behind the liveness properties: a machine of the PIO block never
   stops but at an empty FIFO, a song nobody disturbs never stops but at its
   end, and a waiting host's command is always at exactly one place.
2. An abstract mailbox and an abstract player of songs, refined by `Via` and
   `Sounder` as the reports refine `LatestState`.
3. The conversion of a string into its descriptor (`usb_descriptors.c` 172-197),
   whose buffer has 32 places, if a property worth a run is found.
