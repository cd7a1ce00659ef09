----------------------------- MODULE HidReport -----------------------------
(***************************************************************************)
(* The HID report scheduler of src/usb_descriptors.c: the Ruby side calls  *)
(* USB.hid_task, USB.merge_mouse_report, USB.merge_joystick_report and     *)
(* USB.report_raw_hid; TinyUSB calls tud_hid_report_complete_cb from       *)
(* tud_task.  They share input_updated_bitmap, the values still to be      *)
(* reported, and the two IN endpoints (interface 0: keyboard, mouse,       *)
(* consumer control, raw HID; interface 1: gamepad).                       *)
(*                                                                         *)
(* Every C function and every callback runs to its end before another one  *)
(* starts (mruby/c switches tasks between bytecodes only, and callbacks    *)
(* run inside Machine.tud_task), so each is one action.                    *)
(***************************************************************************)
EXTENDS Integers

CONSTANTS
  Keys,           \* what a keyboard report says: modifier byte, six keycodes
  NoKeys,         \* no key, no modifier
  ConsumerKeys,   \* values of consumer_keycode
  NoConsumer,     \* consumer_keycode 0
  MouseButtons,   \* the mouse's buttons
  Axes,           \* x, y, vertical, horizontal
  Motions,        \* arguments of merge_mouse_report for one axis
  Pads,           \* joystick_buttons with joystick_hat
  NeutralPad,     \* no button, hat centred
  Sticks,         \* what Joystick makes of the readings of the analog axes
  CenteredStick,  \* all axes 0
  ScanWhileBusy,  \* may hid_task run while the host is still to take a report?
  MergeWhileBusy, \* may merge_mouse_report?
  UsesVia,        \* does the program send raw HID reports?
  UsesJoystick,   \* does the program merge joystick reports?
  BusEvents       \* which of "suspend", "reset" the bus may go through

ASSUME ValueAssumption ==
  /\ NoKeys \in Keys
  /\ NoConsumer \in ConsumerKeys
  /\ Motions \subseteq Int
  /\ NeutralPad \in Pads
  /\ CenteredStick \in Sticks

ASSUME SettingAssumption ==
  /\ {ScanWhileBusy, MergeWhileBusy, UsesVia, UsesJoystick} \subseteq BOOLEAN
  /\ BusEvents \subseteq {"suspend", "reset"}

(* Report IDs: the bit positions of input_updated_bitmap.                  *)
NONE == 0
KEYBOARD == 1
MOUSE == 2
CONSUMER_CONTROL == 3
GAMEPAD == 4
RAWHID == 5

Updates == {KEYBOARD, MOUSE, CONSUMER_CONTROL, GAMEPAD}

HID0_REPORT_ID_BITS == {KEYBOARD, MOUSE, CONSUMER_CONTROL, RAWHID}

Interface == {0, 1}

(* Definitions named ...Mutated are variants of the one that follows, each  *)
(* with a bug the properties must notice; the specification uses none.     *)
ToInt8Mutated(n) == n

(* Conversion of a C int to int8_t, the type of the mouse's axes.          *)
Int8 == -128 .. 127
ToInt8(n) == ((n + 128) % 256) - 128

VARIABLES
  input_updated_bitmap,  \* the set of report IDs whose bit is 1
  keyboard,              \* keyboard_modifier and keyboard_keycodes
  consumer_keycode,
  mouse,                 \* motion and buttons merged since the last report
  mouse_zero_report,     \* has hid_task already asked for an all-zero report?
  joystick,              \* joystick_buttons and joystick_hat
  sticks,                \* where the analog sticks are
  zero_reported,         \* joystick_report_hid: was the last report all zero?
  via_active,
  in_flight,             \* the report each IN endpoint holds
  delivered,             \* the host took it, tud_task has not noticed yet
  bus,                   \* the device's state on the bus
  host,                  \* what the host last heard of each report
  owed                   \* history: motion merged and neither taken nor lost

device == <<keyboard, consumer_keycode, mouse, mouse_zero_report, joystick,
            sticks, zero_reported, via_active>>
vars == <<input_updated_bitmap, device, in_flight, delivered, bus, host, owed>>

(***************************************************************************)
(* Reports                                                                 *)
(***************************************************************************)
StillMouse == [buttons |-> {}, motion |-> [a \in Axes |-> 0]]
ZeroPad == [pad |-> NeutralPad, stick |-> CenteredStick]
NeutralHost == [keys |-> NoKeys, consumer |-> NoConsumer, buttons |-> {},
                pad |-> ZeroPad]

Report(id, data) == [id |-> id, data |-> data]
Idle == Report(NONE, NONE)

MouseState == [buttons : SUBSET MouseButtons, motion : [Axes -> Int8]]
PadState == [pad : Pads, stick : Sticks]

HidReports ==
  [id : {KEYBOARD}, data : Keys] \cup [id : {MOUSE}, data : MouseState]
  \cup [id : {CONSUMER_CONTROL}, data : ConsumerKeys] \cup [id : {RAWHID}, data : {RAWHID}]
JoystickReports == [id : {GAMEPAD}, data : PadState]

(* What the endpoints of the two interfaces can hold.                      *)
Endpoints ==
  {endpoints \in [Interface -> HidReports \cup JoystickReports \cup {Idle}] :
     /\ endpoints[0] \in HidReports \cup {Idle}
     /\ endpoints[1] \in JoystickReports \cup {Idle}}

(* tud_hid_n_ready: configured, not suspended, endpoint idle.              *)
HidReady(n, endpoints) == bus = "configured" /\ endpoints[n].id = NONE

(* tud_hid_n_report: the report is queued on an idle endpoint; on a busy   *)
(* one it is refused, and no caller but report_raw_hid looks at the        *)
(* result.                                                                 *)
TudReport(n, report, endpoints) ==
  in_flight' = IF endpoints[n].id = NONE THEN [endpoints EXCEPT ![n] = report]
               ELSE endpoints

JoystickReportMemsetLastMutated(stick) == [pad |-> NeutralPad, stick |-> stick]
JoystickReport(stick) == [pad |-> joystick, stick |-> stick]

ZeroReportedOnceMutated(report) == zero_reported \/ report = ZeroPad
ZeroReported(report) == report = ZeroPad

(* joystick_report_hid: the axes are read now, an all-zero report is sent  *)
(* once.                                                                   *)
JoystickReportHid(endpoints) ==
  LET report == JoystickReport(sticks) IN
  IF report # ZeroPad \/ ~zero_reported
    THEN /\ TudReport(1, Report(GAMEPAD, report), endpoints)
         /\ zero_reported' = ZeroReported(report)
    ELSE /\ in_flight' = endpoints
         /\ UNCHANGED zero_reported

StillUpdatedMutated(bitmap, endpoints) == bitmap

(* The bits send_hid_report keeps: it clears, for good, those of an        *)
(* interface that is not ready.                                            *)
StillUpdated(bitmap, endpoints) ==
  {id \in bitmap : /\ id \in HID0_REPORT_ID_BITS => HidReady(0, endpoints)
                   /\ id = GAMEPAD => HidReady(1, endpoints)}

(* send_hid_report looks at the report IDs in ascending order and returns  *)
(* after the first one whose bit is set, sent or not.                      *)
IsTurnOf(id, bitmap) == id \in bitmap /\ \A other \in bitmap : id <= other

SendHidReport(bitmap, keys, consumer, via, endpoints) ==
  LET updated == StillUpdated(bitmap, endpoints) IN
  /\ input_updated_bitmap' = updated
  /\ \/ /\ IsTurnOf(KEYBOARD, updated)
        /\ TudReport(0, Report(KEYBOARD, keys), endpoints)
        /\ UNCHANGED <<mouse, zero_reported>>
     \/ /\ IsTurnOf(MOUSE, updated)
        /\ TudReport(0, Report(MOUSE, mouse), endpoints)
        /\ mouse' = StillMouse
        /\ UNCHANGED zero_reported
     \/ /\ IsTurnOf(CONSUMER_CONTROL, updated)
        /\ IF via THEN in_flight' = endpoints
           ELSE TudReport(0, Report(CONSUMER_CONTROL, consumer), endpoints)
        /\ UNCHANGED <<mouse, zero_reported>>
     \/ /\ IsTurnOf(GAMEPAD, updated)
        /\ JoystickReportHid(endpoints)
        /\ UNCHANGED mouse
     \/ /\ updated = {}
        /\ in_flight' = endpoints
        /\ UNCHANGED <<mouse, zero_reported>>

(***************************************************************************)
(* The Ruby side                                                           *)
(***************************************************************************)
MouseMoved == mouse # StillMouse

UpdatedByPressesOnlyMutated(keys, consumer) ==
  {id \in {KEYBOARD, MOUSE, CONSUMER_CONTROL} :
     \/ id = KEYBOARD /\ keys # NoKeys
     \/ id = CONSUMER_CONTROL /\ consumer # NoConsumer
     \/ id = MOUSE /\ MouseMoved}

UpdatedBy(keys, consumer) ==
  {id \in {KEYBOARD, MOUSE, CONSUMER_CONTROL} :
     \/ id = KEYBOARD /\ keys # keyboard
     \/ id = CONSUMER_CONTROL /\ consumer # consumer_keycode
     \/ id = MOUSE /\ (MouseMoved \/ ~mouse_zero_report)}

HidTaskLeavesItToViaMutated(keys, consumer) ==
  /\ keyboard' = keys
  /\ consumer_keycode' = consumer
  /\ mouse_zero_report' = ~MouseMoved
  /\ via_active' = (via_active /\ consumer # NoConsumer)
  /\ SendHidReport(input_updated_bitmap \cup UpdatedBy(keys, consumer),
                   keys, consumer, via_active', in_flight)
  /\ UNCHANGED <<joystick, sticks, delivered, bus, host, owed>>

HidTaskSendsOldMutated(keys, consumer) ==
  /\ keyboard' = keys
  /\ consumer_keycode' = consumer
  /\ mouse_zero_report' = ~MouseMoved
  /\ via_active' = (via_active /\ consumer = NoConsumer)
  /\ SendHidReport(input_updated_bitmap \cup UpdatedBy(keys, consumer),
                   keyboard, consumer_keycode, via_active', in_flight)
  /\ UNCHANGED <<joystick, sticks, delivered, bus, host, owed>>

(* USB.hid_task: what the keyboard scan found is compared with what was    *)
(* stored, differences set their bit, and one report may go out.  The      *)
(* configuration descriptor does not offer remote wakeup, so the call of   *)
(* tud_remote_wakeup in suspend has no effect.                             *)
HidTask(keys, consumer) ==
  /\ keyboard' = keys
  /\ consumer_keycode' = consumer
  /\ mouse_zero_report' = ~MouseMoved
  /\ via_active' = (via_active /\ consumer = NoConsumer)
  /\ SendHidReport(input_updated_bitmap \cup UpdatedBy(keys, consumer),
                   keys, consumer, via_active', in_flight)
  /\ UNCHANGED <<joystick, sticks, delivered, bus, host, owed>>

(* USB.merge_mouse_report: buttons are or-ed, axes added in eight bits.    *)
MergeMouseReport(buttons, motion) ==
  /\ mouse' = [buttons |-> mouse.buttons \cup buttons,
               motion |-> [a \in Axes |-> ToInt8(mouse.motion[a] + motion[a])]]
  /\ owed' = [a \in Axes |-> ToInt8(owed[a] + motion[a])]
  /\ UNCHANGED <<input_updated_bitmap, keyboard, consumer_keycode,
                 mouse_zero_report, joystick, sticks, zero_reported,
                 via_active, in_flight, delivered, bus, host>>

(* USB.merge_joystick_report always sets the bit and sends nothing.        *)
MergeJoystickReport(pad) ==
  /\ joystick' = pad
  /\ input_updated_bitmap' = input_updated_bitmap \cup {GAMEPAD}
  /\ UNCHANGED <<keyboard, consumer_keycode, mouse, mouse_zero_report, sticks,
                 zero_reported, via_active, in_flight, delivered, bus, host,
                 owed>>

ReportRawHidAnywayMutated ==
  /\ via_active' = TRUE
  /\ TudReport(0, Report(RAWHID, RAWHID), in_flight)
  /\ UNCHANGED <<input_updated_bitmap, keyboard, consumer_keycode, mouse,
                 mouse_zero_report, joystick, sticks, zero_reported, delivered,
                 bus, host, owed>>

(* USB.report_raw_hid; when interface 0 is not ready it returns false and  *)
(* changes nothing.                                                        *)
ReportRawHid ==
  /\ HidReady(0, in_flight)
  /\ via_active' = TRUE
  /\ TudReport(0, Report(RAWHID, RAWHID), in_flight)
  /\ UNCHANGED <<input_updated_bitmap, keyboard, consumer_keycode, mouse,
                 mouse_zero_report, joystick, sticks, zero_reported, delivered,
                 bus, host, owed>>

(***************************************************************************)
(* The host and TinyUSB (external)                                         *)
(***************************************************************************)
Taken(n) == in_flight[n].id # NONE /\ delivered[n]
OnItsWay(n) == in_flight[n].id # NONE /\ ~delivered[n]

(* Motion of a mouse report the host has not taken yet.                    *)
MotionInFlight(a) ==
  IF in_flight[0].id = MOUSE /\ ~delivered[0] THEN in_flight[0].data.motion[a]
  ELSE 0

Settled == [a \in Axes |-> ToInt8(owed[a] - MotionInFlight(a))]

(* The host polls the endpoint and takes the report.                       *)
HostPoll(n) ==
  LET report == in_flight[n] IN
  /\ bus = "configured"
  /\ OnItsWay(n)
  /\ delivered' = [delivered EXCEPT ![n] = TRUE]
  /\ host' = CASE report.id = KEYBOARD -> [host EXCEPT !.keys = report.data]
               [] report.id = MOUSE -> [host EXCEPT !.buttons = report.data.buttons]
               [] report.id = CONSUMER_CONTROL -> [host EXCEPT !.consumer = report.data]
               [] report.id = GAMEPAD -> [host EXCEPT !.pad = report.data]
               [] report.id = RAWHID -> host
  /\ owed' = IF n = 0 THEN Settled ELSE owed
  /\ UNCHANGED <<input_updated_bitmap, device, in_flight, bus>>

ReportCompleteSendsNothingMutated(n) ==
  /\ Taken(n)
  /\ delivered' = [delivered EXCEPT ![n] = FALSE]
  /\ input_updated_bitmap' = input_updated_bitmap \ {in_flight[n].id}
  /\ in_flight' = [in_flight EXCEPT ![n] = Idle]
  /\ UNCHANGED <<device, bus, host, owed>>

(* tud_task finds the transfer complete: the endpoint is idle again and    *)
(* tud_hid_report_complete_cb is called with the report.                   *)
ReportComplete(n) ==
  /\ Taken(n)
  /\ delivered' = [delivered EXCEPT ![n] = FALSE]
  /\ SendHidReport(input_updated_bitmap \ {in_flight[n].id}, keyboard,
                   consumer_keycode, via_active,
                   [in_flight EXCEPT ![n] = Idle])
  /\ UNCHANGED <<keyboard, consumer_keycode, mouse_zero_report, joystick,
                 sticks, via_active, bus, host, owed>>

(* tud_task handles a reset after the completions that came before; that   *)
(* the bus is suspended or resumed, the USB interrupt notes at once.       *)
NothingTaken == \A n \in Interface : ~Taken(n)

Mount ==
  /\ bus = "unmounted"
  /\ bus' = "configured"
  /\ UNCHANGED <<input_updated_bitmap, device, in_flight, delivered, host, owed>>

Suspend ==
  /\ bus = "configured"
  /\ bus' = "suspended"
  /\ UNCHANGED <<input_updated_bitmap, device, in_flight, delivered, host, owed>>

Resume ==
  /\ bus = "suspended"
  /\ bus' = "configured"
  /\ UNCHANGED <<input_updated_bitmap, device, in_flight, delivered, host, owed>>

(* A bus reset closes the endpoints: what they held is gone and never      *)
(* completes.  The host starts over with a neutral device.                 *)
BusReset ==
  /\ bus # "unmounted"
  /\ NothingTaken
  /\ bus' = "unmounted"
  /\ in_flight' = [n \in Interface |-> Idle]
  /\ host' = NeutralHost
  /\ owed' = Settled
  /\ UNCHANGED <<input_updated_bitmap, device, delivered>>

-----------------------------------------------------------------------------
Init ==
  /\ input_updated_bitmap = {}
  /\ keyboard = NoKeys
  /\ consumer_keycode = NoConsumer
  /\ mouse = StillMouse
  /\ mouse_zero_report = FALSE
  /\ joystick = NeutralPad
  /\ sticks = CenteredStick
  /\ zero_reported = FALSE
  /\ via_active = FALSE
  /\ in_flight = [n \in Interface |-> Idle]
  /\ delivered = [n \in Interface |-> FALSE]
  /\ bus = "unmounted"
  /\ host = NeutralHost
  /\ owed = [a \in Axes |-> 0]

(* What the program and the bus do, as the constants allow.  A program that*)
(* works more slowly than the host polls never finds a report on its way;  *)
(* on a bus that is suspended or not configured it finds what there is.    *)
Unhurried == bus = "configured" => in_flight[0].id = NONE

Scan(keys, consumer) ==
  /\ ScanWhileBusy \/ Unhurried
  /\ HidTask(keys, consumer)

MergeMouse(buttons, motion) ==
  /\ MergeWhileBusy \/ Unhurried
  /\ MergeMouseReport(buttons, motion)

MergeJoystick(pad) == UsesJoystick /\ MergeJoystickReport(pad)

Ruby ==
  \/ \E keys \in Keys, consumer \in ConsumerKeys : Scan(keys, consumer)
  \/ \E buttons \in SUBSET MouseButtons, motion \in [Axes -> Motions] :
       MergeMouse(buttons, motion)
  \/ \E pad \in Pads : MergeJoystick(pad)
  \/ UsesVia /\ ReportRawHid

Usb ==
  \/ \E n \in Interface : HostPoll(n) \/ ReportComplete(n)
  \/ Mount \/ Resume
  \/ "suspend" \in BusEvents /\ Suspend
  \/ "reset" \in BusEvents /\ BusReset

(* External: the user moves the sticks, at any moment.                     *)
MoveSticks ==
  /\ sticks' \in Sticks
  /\ UNCHANGED <<input_updated_bitmap, keyboard, consumer_keycode, mouse,
                 mouse_zero_report, joystick, zero_reported, via_active,
                 in_flight, delivered, bus, host, owed>>

Next == Ruby \/ Usb \/ MoveSticks

Spec == Init /\ [][Next]_vars

(* The keyboard and joystick loops of the Ruby side run for ever and report*)
(* what they see even when it has not changed; usb_task.rb calls tud_task  *)
(* for ever; the host polls the endpoints of a configured device and ends  *)
(* a suspension.  Users, VIA and the bus owe nothing.                      *)
Fairness ==
  /\ WF_vars(Scan(keyboard, consumer_keycode))
  /\ WF_vars(MergeJoystick(joystick))
  /\ \A n \in Interface : WF_vars(HostPoll(n)) /\ WF_vars(ReportComplete(n))
  /\ WF_vars(Mount)
  /\ WF_vars(Resume)

FairSpec == Spec /\ Fairness
-----------------------------------------------------------------------------
(***************************************************************************)
(* Properties                                                              *)
(***************************************************************************)
(* Every variable keeps its type; the bit of a raw HID report is never     *)
(* set, and what the endpoints hold are well-formed reports of their       *)
(* interface.                                                              *)
TypeOK ==
  /\ input_updated_bitmap \subseteq Updates
  /\ keyboard \in Keys
  /\ consumer_keycode \in ConsumerKeys
  /\ mouse \in MouseState
  /\ mouse_zero_report \in BOOLEAN
  /\ joystick \in Pads
  /\ sticks \in Sticks
  /\ zero_reported \in BOOLEAN
  /\ via_active \in BOOLEAN
  /\ in_flight \in Endpoints
  /\ delivered \in [Interface -> BOOLEAN]
  /\ bus \in {"unmounted", "configured", "suspended"}
  /\ host \in [keys : Keys, consumer : ConsumerKeys,
               buttons : SUBSET MouseButtons, pad : PadState]
  /\ owed \in [Axes -> Int8]

(* No mouse motion is lost or counted twice: modulo the eight bits of an   *)
(* axis, what merge_mouse_report was given and the host has not got is     *)
(* exactly what waits in the accumulators and in the report on its way,    *)
(* although send_hid_report drops mouse updates of a busy interface and    *)
(* clears the accumulators when it sends.                                  *)
MotionAccounted ==
  \A a \in Axes : owed[a] = ToInt8(mouse.motion[a] + MotionInFlight(a))

(* tud_hid_report_complete_cb clears the bit of the report that completed  *)
(* without looking at the values: that loses nothing because a bit still   *)
(* set while its report is on the wire means the report carries the        *)
(* current keys or consumer key.                                           *)
CompletionClearsOnlyDelivered ==
  /\ in_flight[0].id = KEYBOARD /\ KEYBOARD \in input_updated_bitmap
       => in_flight[0].data = keyboard
  /\ in_flight[0].id = CONSUMER_CONTROL /\ CONSUMER_CONTROL \in input_updated_bitmap
       => in_flight[0].data = consumer_keycode

(* Nobody but the completion of a report (or the next hid_task) sends what *)
(* is pending, so a keyboard or mouse update must never be pending on an   *)
(* idle interface; a bus reset, whose endpoints complete nothing, is the   *)
(* exception.                                                              *)
PendingIsOnTheMove ==
  "reset" \notin BusEvents /\ input_updated_bitmap \cap {KEYBOARD, MOUSE} # {}
    => in_flight[0].id # NONE

(* joystick_report_hid stays silent on an all-zero report after the first: *)
(* it may, because the host has the zero report or is about to.            *)
SilentPadIsNeutral ==
  zero_reported => \/ host.pad = ZeroPad
                   \/ OnItsWay(1) /\ in_flight[1].data = ZeroPad

(* Each report behaves as a LatestState channel of its own.                *)
OnWire(n, id) ==
  IF in_flight[n].id = id /\ ~delivered[n] THEN {in_flight[n].data} ELSE {}

KeyboardChannel == INSTANCE LatestState WITH
  State <- Keys, Initial <- NoKeys,
  current <- keyboard, wire <- OnWire(0, KEYBOARD), seen <- host.keys

ConsumerChannel == INSTANCE LatestState WITH
  State <- ConsumerKeys, Initial <- NoConsumer,
  current <- consumer_keycode, wire <- OnWire(0, CONSUMER_CONTROL),
  seen <- host.consumer

GamepadChannel == INSTANCE LatestState WITH
  State <- PadState, Initial <- ZeroPad,
  current <- [pad |-> joystick, stick |-> sticks],
  wire <- OnWire(1, GAMEPAD), seen <- host.pad

(* The host never sees a keyboard state other than those the scan handed   *)
(* to hid_task, nor an older one after a newer one, whatever mouse,        *)
(* consumer, raw HID and bus events do in between.                         *)
KeyboardInOrder == KeyboardChannel!Spec

(* The same for the consumer key.                                          *)
ConsumerInOrder == ConsumerChannel!Spec

(* The same for the gamepad's buttons, hat and axes, although the axes are *)
(* read when a report is built and the buttons were merged before.         *)
GamepadInOrder == GamepadChannel!Spec

(* Suspensions and resets come to an end.                                  *)
BusSettles == <>[](bus = "configured")

(* Keys that are held or released for good are eventually what the host    *)
(* sees: no stuck and no missing key.                                      *)
KeyboardConverges == BusSettles => KeyboardChannel!Converges

(* Buttons and sticks that stay put reach the host, although the gamepad   *)
(* has the last turn in send_hid_report and any busy moment of interface 1 *)
(* drops its bit.  A consumer update VIA keeps waiting blocks the turn.    *)
GamepadConverges ==
  BusSettles /\ <>[]~(via_active /\ CONSUMER_CONTROL \in input_updated_bitmap)
    => GamepadChannel!Converges

(* When the mouse comes to rest and VIA leaves interface 0 alone, the host *)
(* sees every button released: mouse_zero_report, which says the release   *)
(* has been reported, is set when the report is asked for and not when it  *)
(* is sent.                                                                *)
ButtonsReleased ==
  BusSettles /\ <>[](mouse = StillMouse) /\ <>[](in_flight[0].id # RAWHID)
    => <>[](host.buttons = {})
=============================================================================
