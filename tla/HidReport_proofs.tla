-------------------------- MODULE HidReport_proofs --------------------------
(***************************************************************************)
(* Proofs about HidReport for all values of its constants.  Everything     *)
(* rests on one fact about send_hid_report (lemma SendSummary): at most    *)
(* one idle endpoint gets one report, made of the current values, and a    *)
(* keyboard or mouse bit that survives the call belongs to a busy          *)
(* interface.                                                              *)
(***************************************************************************)
EXTENDS HidReport, TLAPS

(* The steps of the scheduler, whether the program itself sends raw HID    *)
(* reports or, as in Via, a task does so beside it.                        *)
AnyNext == Next \/ ReportRawHid

AnySpec == Init /\ [][AnyNext]_vars

LEMMA SpecIsAny == Spec => AnySpec
<1>1. [Next]_vars => [AnyNext]_vars
  BY DEF AnyNext
<1> QED BY <1>1, PTL DEF Spec, AnySpec

(* tud_task empties an endpoint and forgets it was taken in one step.      *)
IdleIsNotTaken == \A n \in Interface : delivered[n] => in_flight[n].id # NONE

(* What send_hid_report may do to each endpoint.                           *)
Keeps0(endpoints) == in_flight'[0] = endpoints[0] /\ mouse' = mouse

Sends0(keys, consumer, endpoints) ==
  /\ endpoints[0].id = NONE
  /\ \/ in_flight'[0] = Report(KEYBOARD, keys) /\ mouse' = mouse
     \/ in_flight'[0] = Report(MOUSE, mouse) /\ mouse' = StillMouse
     \/ in_flight'[0] = Report(CONSUMER_CONTROL, consumer) /\ mouse' = mouse

Keeps1(endpoints) ==
  in_flight'[1] = endpoints[1] /\ zero_reported' = zero_reported

Gamepad == [pad |-> joystick, stick |-> sticks]

Sends1(endpoints) ==
  /\ endpoints[1].id = NONE
  /\ in_flight'[1] = Report(GAMEPAD, Gamepad)
  /\ zero_reported' = (Gamepad = ZeroPad)

(* Bits that survive send_hid_report.                                      *)
KeepsBits(bitmap, keys, endpoints) ==
  /\ input_updated_bitmap' \subseteq bitmap
  /\ input_updated_bitmap' \cap HID0_REPORT_ID_BITS # {} => endpoints[0].id = NONE
  /\ KEYBOARD \in input_updated_bitmap' => in_flight'[0] = Report(KEYBOARD, keys)
  /\ input_updated_bitmap' \cap {KEYBOARD, MOUSE} # {} => in_flight'[0].id # NONE

-----------------------------------------------------------------------------
(* Eight-bit addition may be reduced early or late.                        *)
LEMMA ToInt8Facts ==
  /\ \A p, q \in Int8 : p + q \in Int /\ p - q \in Int
  /\ \A n \in Int : ToInt8(n) \in Int8
  /\ \A p, q \in Int : ToInt8(ToInt8(p) + q) = ToInt8(p + q)
  /\ \A p, q \in Int : ToInt8(ToInt8(p + q) - q) = ToInt8(p)
<1>1. \A n \in Int : ToInt8(n) \in Int8
  BY DEF ToInt8, Int8
<1>2. ASSUME NEW p \in Int, NEW q \in Int
      PROVE  ToInt8(ToInt8(p) + q) = ToInt8(p + q)
  BY DEF ToInt8
<1>3. \A p, q \in Int8 : p + q \in Int /\ p - q \in Int
  BY DEF Int8
<1>4. ASSUME NEW p \in Int, NEW q \in Int
      PROVE  ToInt8(ToInt8(p + q) - q) = ToInt8(p)
  BY DEF ToInt8
<1> QED BY <1>1, <1>2, <1>3, <1>4

(* The report IDs are pairwise different.                                  *)
LEMMA IdFacts ==
  /\ NONE = 0 /\ KEYBOARD = 1 /\ MOUSE = 2 /\ CONSUMER_CONTROL = 3
  /\ GAMEPAD = 4 /\ RAWHID = 5
BY DEF NONE, KEYBOARD, MOUSE, CONSUMER_CONTROL, GAMEPAD, RAWHID

LEMMA SendSummary ==
  ASSUME NEW STATE bitmap, bitmap \in SUBSET Updates, NEW STATE keys,
         NEW STATE consumer, NEW ACTION via, NEW STATE endpoints, endpoints \in Endpoints,
         SendHidReport(bitmap, keys, consumer, via, endpoints)
  PROVE  /\ in_flight' = [n \in Interface |-> in_flight'[n]]
         /\ Keeps0(endpoints) \/ Sends0(keys, consumer, endpoints)
         /\ Keeps1(endpoints) \/ Sends1(endpoints)
         /\ KeepsBits(bitmap, keys, endpoints)
<1> DEFINE updated == StillUpdated(bitmap, endpoints)
<1>1. /\ updated \subseteq bitmap
      /\ updated \cap HID0_REPORT_ID_BITS # {} => endpoints[0].id = NONE
      /\ GAMEPAD \in updated => endpoints[1].id = NONE
  BY DEF StillUpdated, HidReady
<1>2. input_updated_bitmap' = updated
  BY DEF SendHidReport
<1>3. /\ endpoints = [n \in Interface |-> endpoints[n]]
      /\ 0 \in Interface /\ 1 \in Interface /\ 0 # 1
  BY DEF Endpoints, Interface
<1>4. /\ KEYBOARD \in HID0_REPORT_ID_BITS /\ MOUSE \in HID0_REPORT_ID_BITS
      /\ CONSUMER_CONTROL \in HID0_REPORT_ID_BITS
  BY DEF HID0_REPORT_ID_BITS
<1>5. \A id, data : Report(id, data).id = id
  BY DEF Report
<1>6. \A id \in Updates : IsTurnOf(id, updated) =>
         id \in updated /\ \A other \in updated : id <= other
  BY DEF IsTurnOf
<1>7. CASE /\ IsTurnOf(KEYBOARD, updated)
           /\ TudReport(0, Report(KEYBOARD, keys), endpoints)
           /\ UNCHANGED <<mouse, zero_reported>>
  <2>1. endpoints[0].id = NONE
    BY <1>1, <1>4, <1>7 DEF IsTurnOf
  <2>2. in_flight' = [endpoints EXCEPT ![0] = Report(KEYBOARD, keys)]
    BY <1>7, <2>1 DEF TudReport
  <2> QED
    BY <1>1, <1>2, <1>3, <1>5, <1>7, <2>1, <2>2, IdFacts
       DEF Sends0, Keeps1, KeepsBits
<1>8. CASE /\ IsTurnOf(MOUSE, updated)
           /\ TudReport(0, Report(MOUSE, mouse), endpoints)
           /\ mouse' = StillMouse
           /\ UNCHANGED zero_reported
  <2>1. endpoints[0].id = NONE
    BY <1>1, <1>4, <1>8 DEF IsTurnOf
  <2>2. in_flight' = [endpoints EXCEPT ![0] = Report(MOUSE, mouse)]
    BY <1>8, <2>1 DEF TudReport
  <2>3. KEYBOARD \notin updated
    BY <1>8, IdFacts DEF IsTurnOf
  <2> QED
    BY <1>1, <1>2, <1>3, <1>5, <1>8, <2>1, <2>2, <2>3, IdFacts
       DEF Sends0, Keeps1, KeepsBits
<1>9. CASE /\ IsTurnOf(CONSUMER_CONTROL, updated)
           /\ IF via THEN in_flight' = endpoints
              ELSE TudReport(0, Report(CONSUMER_CONTROL, consumer), endpoints)
           /\ UNCHANGED <<mouse, zero_reported>>
  <2>1. endpoints[0].id = NONE
    BY <1>1, <1>4, <1>9 DEF IsTurnOf
  <2>2. \/ in_flight' = endpoints
        \/ in_flight' = [endpoints EXCEPT ![0] = Report(CONSUMER_CONTROL, consumer)]
    BY <1>9, <2>1 DEF TudReport
  <2>3. updated \cap {KEYBOARD, MOUSE} = {}
    BY <1>9, IdFacts DEF IsTurnOf
  <2> QED
    BY <1>1, <1>2, <1>3, <1>5, <1>9, <2>1, <2>2, <2>3, IdFacts
       DEF Keeps0, Sends0, Keeps1, KeepsBits
<1>10. CASE /\ IsTurnOf(GAMEPAD, updated)
            /\ JoystickReportHid(endpoints)
            /\ UNCHANGED mouse
  <2>1. endpoints[1].id = NONE
    BY <1>1, <1>10 DEF IsTurnOf
  <2>2. updated \cap {KEYBOARD, MOUSE} = {}
    BY <1>10, IdFacts DEF IsTurnOf
  <2>3. IF Gamepad # ZeroPad \/ ~zero_reported
          THEN /\ TudReport(1, Report(GAMEPAD, Gamepad), endpoints)
               /\ zero_reported' = (Gamepad = ZeroPad)
          ELSE /\ in_flight' = endpoints
               /\ UNCHANGED zero_reported
    BY <1>10 DEF JoystickReportHid, JoystickReport, ZeroReported, Gamepad
  <2>4. \/ /\ in_flight' = [endpoints EXCEPT ![1] = Report(GAMEPAD, Gamepad)]
           /\ zero_reported' = (Gamepad = ZeroPad)
        \/ in_flight' = endpoints /\ zero_reported' = zero_reported
    BY <2>1, <2>3 DEF TudReport
  <2>5. Keeps1(endpoints) \/ Sends1(endpoints)
    BY <1>3, <2>1, <2>4 DEF Keeps1, Sends1
  <2>6. in_flight'[0] = endpoints[0] /\ in_flight' = [n \in Interface |-> in_flight'[n]]
    BY <1>3, <2>4
  <2> QED
    BY <1>1, <1>2, <1>10, <2>2, <2>5, <2>6 DEF Keeps0, KeepsBits
<1>11. CASE /\ updated = {}
            /\ in_flight' = endpoints
            /\ UNCHANGED <<mouse, zero_reported>>
  BY <1>2, <1>3, <1>11 DEF Keeps0, Keeps1, KeepsBits
<1> QED
  BY <1>7, <1>8, <1>9, <1>10, <1>11 DEF SendHidReport

(***************************************************************************)
(* Type correctness                                                        *)
(***************************************************************************)
LEMMA ReportTypes ==
  /\ StillMouse \in MouseState
  /\ ZeroPad \in PadState
  /\ NeutralHost \in [keys : Keys, consumer : ConsumerKeys,
                      buttons : SUBSET MouseButtons, pad : PadState]
  /\ \A keys \in Keys : Report(KEYBOARD, keys) \in HidReports
  /\ \A m \in MouseState : Report(MOUSE, m) \in HidReports
  /\ \A key \in ConsumerKeys : Report(CONSUMER_CONTROL, key) \in HidReports
  /\ Report(RAWHID, RAWHID) \in HidReports
  /\ \A pad \in PadState : Report(GAMEPAD, pad) \in JoystickReports
BY ValueAssumption
   DEF StillMouse, MouseState, ZeroPad, PadState, NeutralHost, Report,
       HidReports, JoystickReports, Int8

LEMMA SendTyped ==
  ASSUME TypeOK,
         NEW STATE bitmap, bitmap \in SUBSET Updates, NEW STATE keys, keys \in Keys,
         NEW STATE consumer, consumer \in ConsumerKeys, NEW ACTION via,
         NEW STATE endpoints, endpoints \in Endpoints,
         SendHidReport(bitmap, keys, consumer, via, endpoints)
  PROVE  /\ input_updated_bitmap' \subseteq Updates
         /\ mouse' \in MouseState
         /\ zero_reported' \in BOOLEAN
         /\ in_flight' \in Endpoints
<1>1. /\ in_flight' = [n \in Interface |-> in_flight'[n]]
      /\ Keeps0(endpoints) \/ Sends0(keys, consumer, endpoints)
      /\ Keeps1(endpoints) \/ Sends1(endpoints)
      /\ KeepsBits(bitmap, keys, endpoints)
  BY SendSummary
<1>2. in_flight'[0] \in HidReports \cup {Idle} /\ mouse' \in MouseState
  BY <1>1, ReportTypes DEF Keeps0, Sends0, Endpoints, TypeOK
<1>3. in_flight'[1] \in JoystickReports \cup {Idle} /\ zero_reported' \in BOOLEAN
  <2>1. CASE Keeps1(endpoints)
    BY <2>1 DEF Keeps1, Endpoints, TypeOK
  <2>2. CASE Sends1(endpoints)
    <3>1. Gamepad \in PadState
      BY DEF Gamepad, PadState, TypeOK
    <3> QED BY <2>2, <3>1, ReportTypes DEF Sends1
  <2> QED BY <1>1, <2>1, <2>2
<1>4. in_flight' \in Endpoints
  <2> DEFINE pair == [n \in Interface |-> in_flight'[n]]
  <2>1. pair \in Endpoints
    BY <1>2, <1>3 DEF Endpoints, Interface
  <2> QED BY <1>1, <2>1
<1> QED BY <1>1, <1>2, <1>4, <1>3 DEF KeepsBits

(* The part of the invariant every other proof starts from.                *)
Typed == TypeOK /\ IdleIsNotTaken

LEMMA InitTyped == Init => Typed
<1> SUFFICES ASSUME Init PROVE Typed
  OBVIOUS
<1>1. in_flight \in Endpoints
  BY DEF Init, Endpoints, Interface
<1>2. /\ mouse \in MouseState
      /\ host \in [keys : Keys, consumer : ConsumerKeys,
                  buttons : SUBSET MouseButtons, pad : PadState]
  BY ReportTypes DEF Init
<1>3. owed \in [Axes -> Int8]
  BY DEF Init, Int8
<1>4. delivered \in [Interface -> BOOLEAN] /\ \A n \in Interface : ~delivered[n]
  BY DEF Init
<1>5. TypeOK
  BY <1>1, <1>2, <1>3, <1>4, ValueAssumption DEF Init, TypeOK
<1> QED BY <1>4, <1>5 DEF Typed, IdleIsNotTaken

LEMMA EndpointChanges ==
  ASSUME NEW STATE endpoints, endpoints \in Endpoints
  PROVE  /\ \A n \in Interface : [endpoints EXCEPT ![n] = Idle] \in Endpoints
         /\ \A report \in HidReports :
              [endpoints EXCEPT ![0] = report] \in Endpoints
         /\ [n \in Interface |-> Idle] \in Endpoints
         /\ endpoints[0] \in HidReports \cup {Idle}
         /\ endpoints[1] \in JoystickReports \cup {Idle}
BY DEF Endpoints, Interface

LEMMA IdleFacts ==
  /\ Idle.id = NONE
  /\ \A report \in HidReports \cup JoystickReports : report.id # NONE
  /\ \A report \in HidReports : report.id # GAMEPAD
BY IdFacts DEF Idle, Report, HidReports, JoystickReports

LEMMA OwedTyped ==
  ASSUME TypeOK
  PROVE  /\ \A a \in Axes : MotionInFlight(a) \in Int8
         /\ Settled \in [Axes -> Int8]
<1>1. ASSUME NEW a \in Axes PROVE MotionInFlight(a) \in Int8
  <2>1. CASE in_flight[0].id = MOUSE
    <3>1. in_flight[0] \in HidReports \cup {Idle}
      BY DEF TypeOK, Endpoints
    <3>2. in_flight[0].data \in MouseState
      BY <2>1, <3>1, IdFacts DEF HidReports, Idle, Report
    <3> QED BY <3>2 DEF MotionInFlight, MouseState, Int8
  <2>2. CASE in_flight[0].id # MOUSE
    BY <2>2 DEF MotionInFlight, Int8
  <2> QED BY <2>1, <2>2
<1>2. ASSUME NEW a \in Axes PROVE ToInt8(owed[a] - MotionInFlight(a)) \in Int8
  <2>1. owed[a] \in Int8 /\ MotionInFlight(a) \in Int8
    BY <1>1 DEF TypeOK
  <2>2. owed[a] - MotionInFlight(a) \in Int
    BY <2>1, ToInt8Facts
  <2> QED BY <2>2, ToInt8Facts
<1> QED BY <1>1, <1>2 DEF Settled

LEMMA TypedStep == Typed /\ [AnyNext]_vars => Typed'
<1> SUFFICES ASSUME Typed, [AnyNext]_vars PROVE Typed'
  OBVIOUS
<1> USE DEF Typed
<1>1. ASSUME NEW keys \in Keys, NEW consumer \in ConsumerKeys, Scan(keys, consumer)
      PROVE  Typed'
  <2> DEFINE bitmap == input_updated_bitmap \cup UpdatedBy(keys, consumer)
  <2>1. HidTask(keys, consumer)
    BY <1>1 DEF Scan
  <2>2. bitmap \in SUBSET Updates
    BY DEF UpdatedBy, Updates, TypeOK
  <2>3. SendHidReport(bitmap, keys, consumer, via_active', in_flight)
    BY <2>1 DEF HidTask
  <2>4. in_flight \in Endpoints
    BY DEF TypeOK
  <2>5. TypeOK'
    <3>1. /\ input_updated_bitmap' \subseteq Updates /\ mouse' \in MouseState
          /\ zero_reported' \in BOOLEAN /\ in_flight' \in Endpoints
      BY <2>2, <2>3, <2>4, SendTyped
    <3>2. /\ keyboard' \in Keys /\ consumer_keycode' \in ConsumerKeys
          /\ mouse_zero_report' \in BOOLEAN /\ via_active' \in BOOLEAN
      BY <2>1 DEF HidTask, TypeOK
    <3>3. UNCHANGED <<joystick, sticks, delivered, bus, host, owed>>
      BY <2>1 DEF HidTask
    <3> QED BY <3>1, <3>2, <3>3 DEF TypeOK
  <2>6. IdleIsNotTaken'
    <3>1. /\ Keeps0(in_flight) \/ Sends0(keys, consumer, in_flight)
          /\ Keeps1(in_flight) \/ Sends1(in_flight)
      BY <2>2, <2>3, <2>4, SendSummary
    <3>2. delivered' = delivered
      BY <2>1 DEF HidTask
    <3> QED
      BY <3>1, <3>2, IdFacts
         DEF IdleIsNotTaken, Interface, Keeps0, Sends0, Keeps1, Sends1, Report
  <2> QED BY <2>5, <2>6
<1>2. ASSUME NEW buttons \in SUBSET MouseButtons, NEW motion \in [Axes -> Motions],
             MergeMouse(buttons, motion)
      PROVE  Typed'
  <2>1. MergeMouseReport(buttons, motion)
    BY <1>2 DEF MergeMouse
  <2>2. ASSUME NEW a \in Axes
        PROVE  mouse.motion[a] + motion[a] \in Int /\ owed[a] + motion[a] \in Int
    <3>1. mouse.motion[a] \in Int8 /\ owed[a] \in Int8
      BY DEF TypeOK, MouseState
    <3>2. motion[a] \in Int
      BY ValueAssumption
    <3> QED BY <3>1, <3>2 DEF Int8
  <2>3. mouse' \in MouseState
    BY <2>1, <2>2, ToInt8Facts DEF MergeMouseReport, TypeOK, MouseState
  <2>4. owed' \in [Axes -> Int8]
    BY <2>1, <2>2, ToInt8Facts DEF MergeMouseReport
  <2> QED BY <2>1, <2>3, <2>4 DEF MergeMouseReport, TypeOK, IdleIsNotTaken
<1>3. ASSUME NEW pad \in Pads, MergeJoystick(pad)
      PROVE  Typed'
  BY <1>3 DEF MergeJoystick, MergeJoystickReport, TypeOK, Updates, IdleIsNotTaken
<1>4. CASE ReportRawHid
  <2>1. in_flight' = [in_flight EXCEPT ![0] = Report(RAWHID, RAWHID)]
    BY <1>4 DEF ReportRawHid, HidReady, TudReport
  <2>2. in_flight' \in Endpoints
    BY <2>1, EndpointChanges, ReportTypes DEF TypeOK
  <2>3. in_flight'[0].id # NONE /\ in_flight'[1] = in_flight[1]
    BY <2>1, IdFacts DEF TypeOK, Endpoints, Interface, Report
  <2> QED
    BY <1>4, <2>2, <2>3 DEF ReportRawHid, TypeOK, IdleIsNotTaken, Interface
<1>5. ASSUME NEW n \in Interface, HostPoll(n)
      PROVE  Typed'
  <2>1. in_flight[n] \in HidReports \cup JoystickReports
    BY <1>5, IdleFacts DEF HostPoll, OnItsWay, TypeOK, Endpoints, Idle, Report
  <2>2. host' \in [keys : Keys, consumer : ConsumerKeys,
                   buttons : SUBSET MouseButtons, pad : PadState]
    BY <1>5, <2>1, IdFacts
       DEF HostPoll, HidReports, JoystickReports, TypeOK, MouseState
  <2>3. owed' \in [Axes -> Int8]
    BY <1>5, OwedTyped DEF HostPoll, TypeOK
  <2>4. IdleIsNotTaken' /\ delivered' \in [Interface -> BOOLEAN]
    BY <1>5 DEF HostPoll, OnItsWay, IdleIsNotTaken, TypeOK
  <2> QED BY <1>5, <2>2, <2>3, <2>4 DEF HostPoll, device, TypeOK
<1>6. ASSUME NEW n \in Interface, ReportComplete(n)
      PROVE  Typed'
  <2> DEFINE bitmap == input_updated_bitmap \ {in_flight[n].id}
             endpoints == [in_flight EXCEPT ![n] = Idle]
  <2>1. bitmap \in SUBSET Updates /\ endpoints \in Endpoints
    BY EndpointChanges DEF TypeOK
  <2>2. SendHidReport(bitmap, keyboard, consumer_keycode, via_active, endpoints)
    BY <1>6 DEF ReportComplete
  <2>3. TypeOK'
    <3>1. /\ input_updated_bitmap' \subseteq Updates /\ mouse' \in MouseState
          /\ zero_reported' \in BOOLEAN /\ in_flight' \in Endpoints
      BY <2>1, <2>2, SendTyped DEF TypeOK
    <3>2. delivered' \in [Interface -> BOOLEAN]
      BY <1>6 DEF ReportComplete, TypeOK
    <3>3. UNCHANGED <<keyboard, consumer_keycode, mouse_zero_report, joystick,
                    sticks, via_active, bus, host, owed>>
      BY <1>6 DEF ReportComplete
    <3> QED BY <3>1, <3>2, <3>3 DEF TypeOK
  <2>4. IdleIsNotTaken'
    <3>1. /\ Keeps0(endpoints) \/ Sends0(keyboard, consumer_keycode, endpoints)
          /\ Keeps1(endpoints) \/ Sends1(endpoints)
      BY <2>1, <2>2, SendSummary
    <3>2. delivered' = [delivered EXCEPT ![n] = FALSE]
      BY <1>6 DEF ReportComplete
    <3>3. \A m \in Interface : delivered'[m] => m # n /\ endpoints[m].id # NONE
      BY <3>2 DEF TypeOK, IdleIsNotTaken, Endpoints
    <3> QED
      BY <3>1, <3>3, IdFacts
         DEF IdleIsNotTaken, Interface, Keeps0, Sends0, Keeps1, Sends1, Report
  <2> QED BY <2>3, <2>4
<1>7. CASE Mount \/ Suspend \/ Resume
  BY <1>7 DEF Mount, Suspend, Resume, device, TypeOK, IdleIsNotTaken
<1>8. CASE BusReset
  <2>1. in_flight' \in Endpoints /\ owed' \in [Axes -> Int8]
    BY <1>8, EndpointChanges, OwedTyped DEF BusReset, TypeOK
  <2>2. IdleIsNotTaken'
    BY <1>8 DEF BusReset, NothingTaken, Taken, IdleIsNotTaken
  <2> QED BY <1>8, <2>1, <2>2, ReportTypes DEF BusReset, device, TypeOK
<1>9. CASE MoveSticks \/ UNCHANGED vars
  BY <1>9 DEF MoveSticks, vars, device, TypeOK, IdleIsNotTaken
<1> QED
  BY <1>1, <1>2, <1>3, <1>4, <1>5, <1>6, <1>7, <1>8, <1>9 DEF AnyNext, Next, Ruby, Usb

LEMMA AnyTyped == AnySpec => []Typed
BY InitTyped, TypedStep, PTL DEF AnySpec

(* Every reachable state is well typed: in particular the mouse's axes fit *)
(* their eight bits, a raw HID report never has a bit of its own and each  *)
(* endpoint holds reports of its own interface only.                       *)
THEOREM TypeCorrect == Spec => []TypeOK
<1>1. Typed => TypeOK
  BY DEF Typed
<1> QED BY <1>1, AnyTyped, SpecIsAny, PTL

(***************************************************************************)
(* What the two callers of send_hid_report hand to it                      *)
(***************************************************************************)
LEMMA ScanSends ==
  ASSUME Typed, NEW keys \in Keys, NEW consumer \in ConsumerKeys,
         Scan(keys, consumer)
  PROVE  /\ Keeps0(in_flight) \/ Sends0(keys, consumer, in_flight)
         /\ Keeps1(in_flight) \/ Sends1(in_flight)
         /\ KeepsBits(input_updated_bitmap \cup UpdatedBy(keys, consumer),
                      keys, in_flight)
         /\ keyboard' = keys /\ consumer_keycode' = consumer
         /\ UNCHANGED <<joystick, sticks, delivered, bus, host, owed>>
<1>1. HidTask(keys, consumer)
  BY DEF Scan
<1>2. input_updated_bitmap \cup UpdatedBy(keys, consumer) \in SUBSET Updates
  BY DEF UpdatedBy, Updates, Typed, TypeOK
<1>3. SendHidReport(input_updated_bitmap \cup UpdatedBy(keys, consumer),
                    keys, consumer, via_active', in_flight)
  BY <1>1 DEF HidTask
<1>4. in_flight \in Endpoints
  BY DEF Typed, TypeOK
<1>5. /\ Keeps0(in_flight) \/ Sends0(keys, consumer, in_flight)
      /\ Keeps1(in_flight) \/ Sends1(in_flight)
      /\ KeepsBits(input_updated_bitmap \cup UpdatedBy(keys, consumer),
                   keys, in_flight)
  BY <1>2, <1>3, <1>4, SendSummary
<1> QED BY <1>1, <1>5 DEF HidTask

LEMMA CompletionSends ==
  ASSUME Typed, NEW n \in Interface, ReportComplete(n),
         NEW STATE endpoints, endpoints = [in_flight EXCEPT ![n] = Idle]
  PROVE  /\ Keeps0(endpoints) \/ Sends0(keyboard, consumer_keycode, endpoints)
         /\ Keeps1(endpoints) \/ Sends1(endpoints)
         /\ KeepsBits(input_updated_bitmap \ {in_flight[n].id}, keyboard, endpoints)
         /\ endpoints \in Endpoints
         /\ Taken(n) /\ delivered' = [delivered EXCEPT ![n] = FALSE]
         /\ UNCHANGED <<keyboard, consumer_keycode, joystick, sticks, bus, host, owed>>
<1>1. /\ input_updated_bitmap \ {in_flight[n].id} \in SUBSET Updates
      /\ endpoints \in Endpoints
  BY EndpointChanges DEF Typed, TypeOK
<1>2. SendHidReport(input_updated_bitmap \ {in_flight[n].id}, keyboard,
                    consumer_keycode, via_active, endpoints)
  BY DEF ReportComplete
<1>3. /\ Keeps0(endpoints) \/ Sends0(keyboard, consumer_keycode, endpoints)
      /\ Keeps1(endpoints) \/ Sends1(endpoints)
      /\ KeepsBits(input_updated_bitmap \ {in_flight[n].id}, keyboard, endpoints)
  BY <1>1, <1>2, SendSummary
<1> QED BY <1>1, <1>3 DEF ReportComplete

(***************************************************************************)
(* Motion                                                                  *)
(***************************************************************************)
(* Motion on endpoint 0 when it holds report.                              *)
MotionOf(report, taken, a) ==
  IF report.id = MOUSE /\ ~taken THEN report.data.motion[a] ELSE 0

LEMMA SendKeepsMotion ==
  ASSUME Typed, NEW STATE keys, NEW STATE consumer, NEW STATE endpoints,
         Keeps0(endpoints) \/ Sends0(keys, consumer, endpoints),
         endpoints[0].id = NONE => ~delivered'[0],
         NEW a \in Axes
  PROVE  \/ /\ mouse'.motion[a] = mouse.motion[a]
            /\ MotionInFlight(a)' = MotionOf(endpoints[0], delivered'[0], a)
         \/ /\ mouse'.motion[a] = 0 /\ MotionInFlight(a)' = mouse.motion[a]
            /\ MotionOf(endpoints[0], delivered'[0], a) = 0
<1>1. CASE Keeps0(endpoints)
  BY <1>1 DEF Keeps0, MotionInFlight, MotionOf
<1>2. CASE Sends0(keys, consumer, endpoints)
  <2>1. MotionOf(endpoints[0], delivered'[0], a) = 0
    BY <1>2, IdFacts DEF Sends0, MotionOf
  <2>2. CASE in_flight'[0] = Report(MOUSE, mouse) /\ mouse' = StillMouse
    BY <1>2, <2>1, <2>2, IdFacts DEF Sends0, MotionInFlight, Report, StillMouse
  <2>3. CASE /\ mouse' = mouse
             /\ \/ in_flight'[0] = Report(KEYBOARD, keys)
                \/ in_flight'[0] = Report(CONSUMER_CONTROL, consumer)
    BY <2>1, <2>3, IdFacts DEF MotionInFlight, Report
  <2> QED BY <1>2, <2>2, <2>3 DEF Sends0
<1> QED BY <1>1, <1>2

LEMMA MotionStep == Typed /\ MotionAccounted /\ [AnyNext]_vars => MotionAccounted'
<1> SUFFICES ASSUME Typed, MotionAccounted, [AnyNext]_vars, NEW a \in Axes
             PROVE  owed'[a] = ToInt8(mouse'.motion[a] + MotionInFlight(a)')
  BY DEF MotionAccounted
<1> DEFINE m == mouse.motion[a]
           f == MotionInFlight(a)
<1>1. /\ m \in Int8 /\ f \in Int8 /\ m \in Int /\ f \in Int
      /\ owed[a] = ToInt8(m + f)
  BY OwedTyped DEF Typed, TypeOK, MouseState, MotionAccounted, Int8
<1>2. m + 0 = 0 + m /\ ToInt8(m) = ToInt8(m + 0)
  BY <1>1
<1> HIDE DEF m, f
<1>3. ASSUME NEW keys \in Keys, NEW consumer \in ConsumerKeys, Scan(keys, consumer)
      PROVE  owed'[a] = ToInt8(mouse'.motion[a] + MotionInFlight(a)')
  <2>1. /\ Keeps0(in_flight) \/ Sends0(keys, consumer, in_flight)
        /\ delivered' = delivered /\ owed' = owed
    BY <1>3, ScanSends
  <2>2. in_flight[0].id = NONE => ~delivered'[0]
    BY <2>1 DEF Typed, IdleIsNotTaken, Interface
  <2>3. f = MotionOf(in_flight[0], delivered'[0], a)
    BY <2>1 DEF f, MotionInFlight, MotionOf
  <2>4. \/ mouse'.motion[a] = m /\ MotionInFlight(a)' = f
        \/ mouse'.motion[a] = 0 /\ MotionInFlight(a)' = m /\ f = 0
    BY <2>1, <2>2, <2>3, SendKeepsMotion DEF m
  <2> QED BY <1>1, <1>2, <2>1, <2>4
<1>4. ASSUME NEW buttons \in SUBSET MouseButtons, NEW motion \in [Axes -> Motions],
             MergeMouse(buttons, motion)
      PROVE  owed'[a] = ToInt8(mouse'.motion[a] + MotionInFlight(a)')
  <2>1. motion[a] \in Int
    BY ValueAssumption
  <2>2. /\ mouse'.motion[a] = ToInt8(m + motion[a])
        /\ owed'[a] = ToInt8(owed[a] + motion[a])
        /\ MotionInFlight(a)' = f
    BY <1>4 DEF MergeMouse, MergeMouseReport, MotionInFlight, m, f
  <2>3. owed'[a] = ToInt8(m + f + motion[a])
    <3>1. m + f \in Int
      BY <1>1
    <3>2. ToInt8(ToInt8(m + f) + motion[a]) = ToInt8(m + f + motion[a])
      BY <2>1, <3>1, ToInt8Facts
    <3> QED BY <1>1, <2>2, <3>2
  <2>4. ToInt8(ToInt8(m + motion[a]) + f) = ToInt8(m + motion[a] + f)
    BY <1>1, <2>1, ToInt8Facts
  <2>5. m + motion[a] + f = m + f + motion[a]
    BY <1>1, <2>1
  <2> QED BY <2>2, <2>3, <2>4, <2>5
<1>5. ASSUME NEW pad \in Pads, MergeJoystick(pad)
      PROVE  owed'[a] = ToInt8(mouse'.motion[a] + MotionInFlight(a)')
  BY <1>1, <1>5 DEF MergeJoystick, MergeJoystickReport, MotionInFlight, m, f
<1>6. CASE ReportRawHid
  <2>1. in_flight'[0] = Report(RAWHID, RAWHID) /\ in_flight[0].id = NONE
    BY <1>6 DEF ReportRawHid, HidReady, TudReport, Typed, TypeOK, Endpoints, Interface
  <2>2. f = 0 /\ MotionInFlight(a)' = 0
    BY <2>1, IdFacts DEF f, MotionInFlight, Report
  <2> QED BY <1>1, <1>6, <2>2 DEF ReportRawHid, m
<1>7. ASSUME NEW n \in Interface, HostPoll(n)
      PROVE  owed'[a] = ToInt8(mouse'.motion[a] + MotionInFlight(a)')
  <2>1. mouse' = mouse /\ in_flight' = in_flight
        /\ delivered' = [delivered EXCEPT ![n] = TRUE]
    BY <1>7 DEF HostPoll, device
  <2>2. CASE n = 0
    <3>1. MotionInFlight(a)' = 0
      BY <2>1, <2>2 DEF MotionInFlight, Typed, TypeOK, Interface
    <3>2. owed'[a] = ToInt8(owed[a] - f)
      BY <1>7, <2>2 DEF HostPoll, Settled, f
    <3>3. owed'[a] = ToInt8(m)
      BY <1>1, <3>2, ToInt8Facts
    <3> QED BY <1>2, <2>1, <3>1, <3>3 DEF m
  <2>3. CASE n = 1
    <3>1. MotionInFlight(a)' = f /\ owed' = owed
      BY <1>7, <2>1, <2>3 DEF HostPoll, MotionInFlight, Typed, TypeOK, Interface, f
    <3> QED BY <1>1, <2>1, <3>1 DEF m
  <2> QED BY <2>2, <2>3 DEF Interface
<1>8. ASSUME NEW n \in Interface, ReportComplete(n)
      PROVE  owed'[a] = ToInt8(mouse'.motion[a] + MotionInFlight(a)')
  <2> DEFINE endpoints == [in_flight EXCEPT ![n] = Idle]
  <2>1. /\ Keeps0(endpoints) \/ Sends0(keyboard, consumer_keycode, endpoints)
        /\ endpoints \in Endpoints /\ Taken(n) /\ owed' = owed
        /\ delivered' = [delivered EXCEPT ![n] = FALSE]
    BY <1>8, CompletionSends
  <2>2. endpoints[0].id = NONE => ~delivered'[0]
    BY <2>1 DEF Typed, TypeOK, IdleIsNotTaken, Endpoints, Interface
  <2>3. f = MotionOf(endpoints[0], delivered'[0], a)
    <3>1. CASE n = 0
      BY <2>1, <3>1, IdFacts, IdleFacts
         DEF Taken, f, MotionInFlight, MotionOf, Typed, TypeOK, Endpoints, Interface
    <3>2. CASE n = 1
      BY <2>1, <3>2 DEF f, MotionInFlight, MotionOf, Typed, TypeOK, Endpoints, Interface
    <3> QED BY <3>1, <3>2 DEF Interface
  <2> HIDE DEF endpoints
  <2>4. \/ mouse'.motion[a] = m /\ MotionInFlight(a)' = f
        \/ mouse'.motion[a] = 0 /\ MotionInFlight(a)' = m /\ f = 0
    BY <2>1, <2>2, <2>3, SendKeepsMotion DEF m
  <2> QED BY <1>1, <1>2, <2>1, <2>4
<1>9. CASE Mount \/ Suspend \/ Resume \/ MoveSticks \/ UNCHANGED vars
  <2>1. UNCHANGED <<mouse, in_flight, delivered, owed>>
    BY <1>9 DEF Mount, Suspend, Resume, MoveSticks, vars, device
  <2> QED BY <1>1, <2>1 DEF MotionInFlight, m, f
<1>10. CASE BusReset
  <2>1. MotionInFlight(a)' = 0 /\ mouse' = mouse
    BY <1>10, IdFacts, IdleFacts DEF BusReset, MotionInFlight, Interface, device
  <2>2. owed'[a] = ToInt8(owed[a] - f)
    BY <1>10 DEF BusReset, Settled, f
  <2>3. owed'[a] = ToInt8(m)
    BY <1>1, <2>2, ToInt8Facts
  <2> QED BY <1>2, <2>1, <2>3 DEF m
<1> QED
  BY <1>3, <1>4, <1>5, <1>6, <1>7, <1>8, <1>9, <1>10 DEF AnyNext, Next, Ruby, Usb

LEMMA AnyMotion == AnySpec => []MotionAccounted
<1>1. Init => MotionAccounted
  <2> SUFFICES ASSUME Init, NEW a \in Axes
               PROVE  owed[a] = ToInt8(mouse.motion[a] + MotionInFlight(a))
    BY DEF MotionAccounted
  <2>1. mouse.motion[a] = 0 /\ MotionInFlight(a) = 0 /\ owed[a] = 0
    BY IdFacts, IdleFacts DEF Init, StillMouse, MotionInFlight, Interface
  <2>2. ToInt8(0 + 0) = 0
    BY DEF ToInt8
  <2> QED BY <2>1, <2>2
<1> QED BY <1>1, InitTyped, TypedStep, MotionStep, PTL DEF AnySpec

(* No motion is lost or counted twice, for any axes, any merged values and *)
(* any interleaving of scans, merges, completions and bus events.          *)
THEOREM MotionConserved == Spec => []MotionAccounted
BY AnyMotion, SpecIsAny, PTL

(***************************************************************************)
(* Pending updates                                                         *)
(***************************************************************************)
LEMMA CompletionStep ==
  Typed /\ CompletionClearsOnlyDelivered /\ [AnyNext]_vars
    => CompletionClearsOnlyDelivered'
<1> SUFFICES ASSUME Typed, CompletionClearsOnlyDelivered, [AnyNext]_vars
             PROVE  CompletionClearsOnlyDelivered'
  OBVIOUS
<1>1. CONSUMER_CONTROL \in HID0_REPORT_ID_BITS
  BY DEF HID0_REPORT_ID_BITS
<1>2. ASSUME NEW keys \in Keys, NEW consumer \in ConsumerKeys, Scan(keys, consumer)
      PROVE  CompletionClearsOnlyDelivered'
  <2>1. /\ Keeps0(in_flight) \/ Sends0(keys, consumer, in_flight)
        /\ KeepsBits(input_updated_bitmap \cup UpdatedBy(keys, consumer),
                     keys, in_flight)
        /\ keyboard' = keys /\ consumer_keycode' = consumer
    BY <1>2, ScanSends
  <2> QED
    BY <1>1, <2>1, IdFacts
       DEF KeepsBits, Keeps0, Sends0, Report, CompletionClearsOnlyDelivered
<1>3. ASSUME NEW n \in Interface, ReportComplete(n)
      PROVE  CompletionClearsOnlyDelivered'
  <2> DEFINE endpoints == [in_flight EXCEPT ![n] = Idle]
  <2>1. /\ Keeps0(endpoints) \/ Sends0(keyboard, consumer_keycode, endpoints)
        /\ KeepsBits(input_updated_bitmap \ {in_flight[n].id}, keyboard, endpoints)
        /\ UNCHANGED <<keyboard, consumer_keycode>>
    BY <1>3, CompletionSends
  <2> HIDE DEF endpoints
  <2> QED
    BY <1>1, <2>1, IdFacts
       DEF KeepsBits, Keeps0, Sends0, Report, CompletionClearsOnlyDelivered
<1>4. ASSUME NEW pad \in Pads, MergeJoystick(pad)
      PROVE  CompletionClearsOnlyDelivered'
  BY <1>4, IdFacts
     DEF MergeJoystick, MergeJoystickReport, CompletionClearsOnlyDelivered
<1>5. CASE ReportRawHid
  <2>1. in_flight'[0] = Report(RAWHID, RAWHID)
    BY <1>5 DEF ReportRawHid, HidReady, TudReport, Typed, TypeOK, Endpoints, Interface
  <2> QED BY <2>1, IdFacts DEF Report, CompletionClearsOnlyDelivered
<1>6. CASE BusReset
  <2>1. in_flight'[0].id = NONE
    BY <1>6, IdleFacts DEF BusReset, Interface
  <2> QED BY <2>1, IdFacts DEF CompletionClearsOnlyDelivered
<1>7. CASE UNCHANGED <<input_updated_bitmap, keyboard, consumer_keycode, in_flight>>
  BY <1>7 DEF CompletionClearsOnlyDelivered
<1>8. CASE \E n \in Interface : HostPoll(n)
  BY <1>7, <1>8 DEF HostPoll, device
<1>9. CASE \E buttons \in SUBSET MouseButtons, motion \in [Axes -> Motions] :
             MergeMouse(buttons, motion)
  BY <1>7, <1>9 DEF MergeMouse, MergeMouseReport
<1>10. CASE Mount \/ Suspend \/ Resume \/ MoveSticks \/ UNCHANGED vars
  BY <1>7, <1>10 DEF Mount, Suspend, Resume, MoveSticks, vars, device
<1> QED
  BY <1>2, <1>3, <1>4, <1>5, <1>6, <1>8, <1>9, <1>10 DEF AnyNext, Next, Ruby, Usb

(* The completion callback never clears the bit of a keyboard or consumer  *)
(* update whose values are not the ones that were delivered.               *)
THEOREM CompletionIsHarmless == Spec => []CompletionClearsOnlyDelivered
<1>1. Init => CompletionClearsOnlyDelivered
  BY DEF Init, CompletionClearsOnlyDelivered
<1> QED BY <1>1, InitTyped, TypedStep, CompletionStep, SpecIsAny, PTL DEF AnySpec

LEMMA PendingStep ==
  Typed /\ PendingIsOnTheMove /\ [AnyNext]_vars => PendingIsOnTheMove'
<1> SUFFICES ASSUME Typed, PendingIsOnTheMove, [AnyNext]_vars, "reset" \notin BusEvents
             PROVE  input_updated_bitmap' \cap {KEYBOARD, MOUSE} # {}
                      => in_flight'[0].id # NONE
  BY DEF PendingIsOnTheMove
<1>1. ASSUME NEW keys \in Keys, NEW consumer \in ConsumerKeys, Scan(keys, consumer)
      PROVE  input_updated_bitmap' \cap {KEYBOARD, MOUSE} # {}
               => in_flight'[0].id # NONE
  BY <1>1, ScanSends DEF KeepsBits
<1>2. ASSUME NEW n \in Interface, ReportComplete(n)
      PROVE  input_updated_bitmap' \cap {KEYBOARD, MOUSE} # {}
               => in_flight'[0].id # NONE
  BY <1>2, CompletionSends DEF KeepsBits
<1>3. ASSUME NEW pad \in Pads, MergeJoystick(pad)
      PROVE  input_updated_bitmap' \cap {KEYBOARD, MOUSE} # {}
               => in_flight'[0].id # NONE
  BY <1>3, IdFacts DEF MergeJoystick, MergeJoystickReport, PendingIsOnTheMove
<1>4. CASE ReportRawHid
  <2>1. in_flight'[0] = Report(RAWHID, RAWHID)
    BY <1>4 DEF ReportRawHid, HidReady, TudReport, Typed, TypeOK, Endpoints, Interface
  <2> QED BY <2>1, IdFacts DEF Report
<1>5. CASE UNCHANGED <<input_updated_bitmap, in_flight>>
  BY <1>5 DEF PendingIsOnTheMove
<1> QED
  BY <1>1, <1>2, <1>3, <1>4, <1>5
     DEF AnyNext, Next, Ruby, Usb, MergeMouse, MergeMouseReport, HostPoll, Mount,
         Suspend, Resume, MoveSticks, vars, device

(* Without bus resets no keyboard or mouse update waits on an idle         *)
(* interface, where no completion would ever send it.                      *)
THEOREM PendingMoves == Spec => []PendingIsOnTheMove
<1>1. Init => PendingIsOnTheMove
  BY DEF Init, PendingIsOnTheMove
<1> QED BY <1>1, InitTyped, TypedStep, PendingStep, SpecIsAny, PTL DEF AnySpec

(***************************************************************************)
(* The silent gamepad                                                      *)
(***************************************************************************)
(* SilentPadIsNeutral is not inductive: a report with a button in it might *)
(* still be under way to a host that holds the zero report.                *)
LastPadIsZero ==
  zero_reported =>
    IF OnItsWay(1) THEN in_flight[1].data = ZeroPad ELSE host.pad = ZeroPad

LEMMA SendKeepsPad ==
  ASSUME Typed, NEW STATE endpoints,
         Keeps1(endpoints) \/ Sends1(endpoints),
         endpoints[1].id = NONE => ~delivered'[1],
         host' = host,
         zero_reported => \/ endpoints[1].id # NONE /\ ~delivered'[1]
                             /\ endpoints[1].data = ZeroPad
                          \/ ~(endpoints[1].id # NONE /\ ~delivered'[1])
                             /\ host.pad = ZeroPad
  PROVE  LastPadIsZero'
<1>1. CASE Keeps1(endpoints)
  BY <1>1 DEF Keeps1, LastPadIsZero, OnItsWay
<1>2. CASE Sends1(endpoints)
  <2>1. in_flight'[1] = Report(GAMEPAD, Gamepad)
    BY <1>2 DEF Sends1
  <2>2. zero_reported' => Gamepad = ZeroPad
    BY <1>2, Zenon DEF Sends1
  <2>3. endpoints[1].id = NONE /\ ~delivered'[1]
    BY <1>2 DEF Sends1
  <2>4. /\ in_flight'[1].id # NONE
        /\ in_flight'[1].data = Gamepad
    BY <2>1, IdFacts DEF Report
  <2> QED BY <2>2, <2>3, <2>4 DEF LastPadIsZero, OnItsWay
<1> QED BY <1>1, <1>2

LEMMA PadStep == Typed /\ LastPadIsZero /\ [AnyNext]_vars => LastPadIsZero'
<1> SUFFICES ASSUME Typed, LastPadIsZero, [AnyNext]_vars PROVE LastPadIsZero'
  OBVIOUS
<1>1. ASSUME NEW keys \in Keys, NEW consumer \in ConsumerKeys, Scan(keys, consumer)
      PROVE  LastPadIsZero'
  <2>1. /\ Keeps1(in_flight) \/ Sends1(in_flight)
        /\ delivered' = delivered /\ host' = host
    BY <1>1, ScanSends
  <2>2. in_flight[1].id = NONE => ~delivered'[1]
    BY <2>1 DEF Typed, IdleIsNotTaken, Interface
  <2>3. zero_reported => \/ in_flight[1].id # NONE /\ ~delivered'[1]
                            /\ in_flight[1].data = ZeroPad
                         \/ ~(in_flight[1].id # NONE /\ ~delivered'[1])
                            /\ host.pad = ZeroPad
    BY <2>1 DEF LastPadIsZero, OnItsWay
  <2> QED BY <2>1, <2>2, <2>3, SendKeepsPad
<1>2. ASSUME NEW n \in Interface, ReportComplete(n)
      PROVE  LastPadIsZero'
  <2> DEFINE endpoints == [in_flight EXCEPT ![n] = Idle]
  <2>1. /\ Keeps1(endpoints) \/ Sends1(endpoints)
        /\ endpoints \in Endpoints /\ Taken(n) /\ host' = host
        /\ delivered' = [delivered EXCEPT ![n] = FALSE]
    BY <1>2, CompletionSends
  <2>2. endpoints[1].id = NONE => ~delivered'[1]
    BY <2>1 DEF Typed, TypeOK, IdleIsNotTaken, Endpoints, Interface
  <2>3. zero_reported => \/ endpoints[1].id # NONE /\ ~delivered'[1]
                            /\ endpoints[1].data = ZeroPad
                         \/ ~(endpoints[1].id # NONE /\ ~delivered'[1])
                            /\ host.pad = ZeroPad
    <3>1. CASE n = 1
      <4>1. endpoints[1].id = NONE /\ ~OnItsWay(1)
        BY <2>1, <3>1, IdleFacts
           DEF Taken, OnItsWay, Typed, TypeOK, Endpoints, Interface
      <4> QED BY <4>1 DEF LastPadIsZero
    <3>2. CASE n = 0
      <4>1. endpoints[1] = in_flight[1] /\ delivered'[1] = delivered[1]
        BY <2>1, <3>2 DEF Typed, TypeOK, Endpoints, Interface
      <4> QED BY <4>1 DEF LastPadIsZero, OnItsWay
    <3> QED BY <3>1, <3>2 DEF Interface
  <2> HIDE DEF endpoints
  <2> QED BY <2>1, <2>2, <2>3, SendKeepsPad
<1>3. CASE ReportRawHid
  <2>1. in_flight'[1] = in_flight[1]
    BY <1>3 DEF ReportRawHid, TudReport, Typed, TypeOK, Endpoints, Interface
  <2> QED BY <1>3, <2>1 DEF ReportRawHid, LastPadIsZero, OnItsWay
<1>4. ASSUME NEW n \in Interface, HostPoll(n)
      PROVE  LastPadIsZero'
  <2>1. /\ UNCHANGED <<zero_reported, in_flight>> /\ OnItsWay(n)
        /\ delivered' = [delivered EXCEPT ![n] = TRUE]
    BY <1>4 DEF HostPoll, device
  <2>2. CASE n = 0
    <3>1. in_flight[0] \in HidReports
      BY <2>1, <2>2, IdleFacts DEF OnItsWay, Typed, TypeOK, Endpoints
    <3>2. host'.pad = host.pad
      BY <1>4, <2>2, <3>1, IdFacts DEF HostPoll, HidReports, Typed, TypeOK
    <3>3. delivered'[1] <=> delivered[1]
      BY <2>1, <2>2 DEF Typed, TypeOK, Interface
    <3> QED BY <2>1, <3>2, <3>3 DEF LastPadIsZero, OnItsWay
  <2>3. CASE n = 1
    <3>1. in_flight[1] \in JoystickReports
      BY <2>1, <2>3, IdleFacts DEF OnItsWay, Typed, TypeOK, Endpoints
    <3>2. host'.pad = in_flight[1].data
      BY <1>4, <2>3, <3>1, IdFacts DEF HostPoll, JoystickReports, Typed, TypeOK
    <3>3. delivered'[1]
      BY <2>1, <2>3 DEF Typed, TypeOK, Interface
    <3> QED BY <2>1, <2>3, <3>2, <3>3 DEF LastPadIsZero, OnItsWay
  <2> QED BY <2>2, <2>3 DEF Interface
<1>5. CASE BusReset
  <2>1. in_flight'[1].id = NONE /\ host'.pad = ZeroPad
    BY <1>5, IdleFacts DEF BusReset, Interface, NeutralHost
  <2> QED BY <2>1 DEF LastPadIsZero, OnItsWay
<1>6. CASE UNCHANGED <<zero_reported, in_flight, delivered, host>>
  BY <1>6 DEF LastPadIsZero, OnItsWay
<1> QED
  BY <1>1, <1>2, <1>3, <1>4, <1>5, <1>6
     DEF AnyNext, Next, Ruby, Usb, MergeMouse, MergeMouseReport, MergeJoystick,
         MergeJoystickReport, Mount, Suspend, Resume, MoveSticks, vars, device

(* While joystick_report_hid keeps silent, the host holds the all-zero     *)
(* report or is about to get it.                                           *)
THEOREM SilentPad == Spec => []SilentPadIsNeutral
<1>1. Init => LastPadIsZero
  BY DEF Init, LastPadIsZero
<1>2. LastPadIsZero => SilentPadIsNeutral
  BY DEF LastPadIsZero, SilentPadIsNeutral
<1> QED BY <1>1, <1>2, InitTyped, TypedStep, PadStep, SpecIsAny, PTL DEF AnySpec

(***************************************************************************)
(* The keyboard report refines LatestState                                 *)
(***************************************************************************)
KeyboardWire == OnWire(0, KEYBOARD)

KeyboardStep == [KeyboardChannel!Next]_(KeyboardChannel!channel)

(* A step of the channel is an offer of the new state, a change that puts  *)
(* nothing on the wire, a delivery or a reset.                             *)
LEMMA KeyboardSteps ==
  /\ /\ KeyboardWire = {} /\ keyboard' \in Keys /\ KeyboardWire' = {keyboard'}
     /\ host'.keys = host.keys
     => KeyboardStep
  /\ keyboard' \in Keys /\ KeyboardWire' = KeyboardWire /\ host'.keys = host.keys
     => KeyboardStep
  /\ host'.keys \in KeyboardWire /\ KeyboardWire' = {} /\ keyboard' = keyboard
     => KeyboardStep
  /\ KeyboardWire' = {} /\ host'.keys = NoKeys /\ keyboard' = keyboard
     => KeyboardStep
BY DEF KeyboardStep, KeyboardWire, KeyboardChannel!Next, KeyboardChannel!Change,
       KeyboardChannel!Offer, KeyboardChannel!Deliver, KeyboardChannel!Reset

LEMMA SendRefines ==
  ASSUME Typed, NEW STATE keys, keys \in Keys, NEW STATE consumer, NEW STATE endpoints,
         Keeps0(endpoints) \/ Sends0(keys, consumer, endpoints),
         keyboard' = keys, host' = host,
         endpoints[0].id = NONE => KeyboardWire = {} /\ ~delivered'[0],
         endpoints[0].id # NONE =>
           endpoints[0] = in_flight[0] /\ (delivered'[0] <=> delivered[0])
  PROVE  KeyboardStep
<1>1. keyboard' \in Keys /\ host'.keys = host.keys
  OBVIOUS
<1>2. CASE Keeps0(endpoints)
  <2>1. KeyboardWire' = KeyboardWire
    <3>1. CASE endpoints[0].id = NONE
      BY <1>2, <3>1, IdFacts DEF Keeps0, KeyboardWire, OnWire
    <3>2. CASE endpoints[0].id # NONE
      BY <1>2, <3>2 DEF Keeps0, KeyboardWire, OnWire
    <3> QED BY <3>1, <3>2
  <2> QED BY <1>1, <2>1, KeyboardSteps
<1>3. CASE Sends0(keys, consumer, endpoints)
  <2>1. KeyboardWire = {} /\ ~delivered'[0]
    BY <1>3 DEF Sends0
  <2>2. CASE in_flight'[0] = Report(KEYBOARD, keys)
    <3>1. KeyboardWire' = {keys}
      BY <2>1, <2>2 DEF KeyboardWire, OnWire, Report
    <3> QED BY <1>1, <2>1, <3>1, KeyboardSteps
  <2>3. CASE \/ in_flight'[0] = Report(MOUSE, mouse)
             \/ in_flight'[0] = Report(CONSUMER_CONTROL, consumer)
    <3>1. KeyboardWire' = {}
      BY <2>3, IdFacts DEF KeyboardWire, OnWire, Report
    <3> QED BY <1>1, <2>1, <3>1, KeyboardSteps
  <2> QED BY <1>3, <2>2, <2>3 DEF Sends0
<1> QED BY <1>2, <1>3

LEMMA KeyboardRefinement == Typed /\ [AnyNext]_vars => KeyboardStep
<1> SUFFICES ASSUME Typed, [AnyNext]_vars PROVE KeyboardStep
  OBVIOUS
<1>1. keyboard \in Keys
  BY DEF Typed, TypeOK
<1>2. ASSUME NEW keys \in Keys, NEW consumer \in ConsumerKeys, Scan(keys, consumer)
      PROVE  KeyboardStep
  <2>1. /\ Keeps0(in_flight) \/ Sends0(keys, consumer, in_flight)
        /\ keyboard' = keys /\ host' = host /\ delivered' = delivered
    BY <1>2, ScanSends
  <2>2. in_flight[0].id = NONE => KeyboardWire = {} /\ ~delivered'[0]
    BY <2>1, IdFacts
       DEF Typed, IdleIsNotTaken, Interface, KeyboardWire, OnWire
  <2> QED BY <2>1, <2>2, SendRefines
<1>3. ASSUME NEW n \in Interface, ReportComplete(n)
      PROVE  KeyboardStep
  <2> DEFINE endpoints == [in_flight EXCEPT ![n] = Idle]
  <2>1. /\ Keeps0(endpoints) \/ Sends0(keyboard, consumer_keycode, endpoints)
        /\ endpoints \in Endpoints /\ Taken(n)
        /\ delivered' = [delivered EXCEPT ![n] = FALSE]
        /\ keyboard' = keyboard /\ host' = host
    BY <1>3, CompletionSends
  <2>2. CASE n = 0
    <3>1. endpoints[0].id = NONE /\ KeyboardWire = {} /\ ~delivered'[0]
      BY <2>1, <2>2, IdleFacts
         DEF Taken, KeyboardWire, OnWire, Typed, TypeOK, Endpoints, Interface
    <3> HIDE DEF endpoints
    <3> QED BY <1>1, <2>1, <3>1, SendRefines
  <2>3. CASE n = 1
    <3>1. endpoints[0] = in_flight[0] /\ (delivered'[0] <=> delivered[0])
      BY <2>1, <2>3 DEF Typed, TypeOK, Endpoints, Interface
    <3>2. endpoints[0].id = NONE => KeyboardWire = {} /\ ~delivered'[0]
      BY <3>1, IdFacts DEF Typed, IdleIsNotTaken, Interface, KeyboardWire, OnWire
    <3> HIDE DEF endpoints
    <3> QED BY <1>1, <2>1, <3>1, <3>2, SendRefines
  <2> QED BY <2>2, <2>3 DEF Interface
<1>4. CASE ReportRawHid
  <2>1. in_flight'[0] = Report(RAWHID, RAWHID) /\ in_flight[0].id = NONE
    BY <1>4 DEF ReportRawHid, HidReady, TudReport, Typed, TypeOK, Endpoints, Interface
  <2>2. KeyboardWire = {} /\ KeyboardWire' = {}
    BY <2>1, IdFacts DEF KeyboardWire, OnWire, Report
  <2> QED BY <1>1, <1>4, <2>2, KeyboardSteps DEF ReportRawHid
<1>5. ASSUME NEW n \in Interface, HostPoll(n)
      PROVE  KeyboardStep
  <2>1. /\ in_flight' = in_flight /\ keyboard' = keyboard /\ OnItsWay(n)
        /\ delivered' = [delivered EXCEPT ![n] = TRUE]
    BY <1>5 DEF HostPoll, device
  <2>2. in_flight[n].id = KEYBOARD => n = 0
    BY IdFacts DEF Typed, TypeOK, Endpoints, Interface, JoystickReports, Idle, Report
  <2>3. CASE in_flight[n].id = KEYBOARD
    <3>1. host'.keys = in_flight[0].data
      BY <1>5, <2>2, <2>3, IdFacts DEF HostPoll, Typed, TypeOK
    <3>2. KeyboardWire = {in_flight[0].data}
      BY <2>1, <2>2, <2>3 DEF KeyboardWire, OnWire, OnItsWay
    <3>3. KeyboardWire' = {}
      BY <2>1, <2>2, <2>3 DEF KeyboardWire, OnWire, Typed, TypeOK, Interface
    <3> QED BY <2>1, <3>1, <3>2, <3>3, KeyboardSteps
  <2>4. CASE in_flight[n].id # KEYBOARD
    <3>1. in_flight[n] \in HidReports \cup JoystickReports
      BY <2>1, IdleFacts DEF OnItsWay, Typed, TypeOK, Endpoints, Interface
    <3>2. host'.keys = host.keys
      BY <1>5, <2>4, <3>1, IdFacts
         DEF HostPoll, HidReports, JoystickReports, Typed, TypeOK
    <3>3. KeyboardWire' = KeyboardWire
      <4>1. CASE n = 0
        BY <2>1, <2>4, <4>1 DEF KeyboardWire, OnWire
      <4>2. CASE n = 1
        BY <2>1, <4>2 DEF KeyboardWire, OnWire, Typed, TypeOK, Interface
      <4> QED BY <4>1, <4>2 DEF Interface
    <3> QED BY <1>1, <2>1, <3>2, <3>3, KeyboardSteps
  <2> QED BY <2>3, <2>4
<1>6. CASE BusReset
  <2>1. KeyboardWire' = {}
    BY <1>6, IdFacts, IdleFacts DEF BusReset, KeyboardWire, OnWire, Interface
  <2>2. host'.keys = NoKeys /\ keyboard' = keyboard
    BY <1>6 DEF BusReset, NeutralHost, device
  <2> QED BY <2>1, <2>2, KeyboardSteps
<1>7. CASE UNCHANGED <<keyboard, in_flight, delivered, host>>
  BY <1>1, <1>7, KeyboardSteps DEF KeyboardWire, OnWire
<1>8. CASE \/ \E buttons \in SUBSET MouseButtons, motion \in [Axes -> Motions] :
                MergeMouse(buttons, motion)
           \/ \E pad \in Pads : MergeJoystick(pad)
           \/ Mount \/ Suspend \/ Resume \/ MoveSticks \/ UNCHANGED vars
  BY <1>7, <1>8
     DEF MergeMouse, MergeMouseReport, MergeJoystick, MergeJoystickReport,
         Mount, Suspend, Resume, MoveSticks, vars, device
<1> QED
  BY <1>2, <1>3, <1>4, <1>5, <1>6, <1>8 DEF AnyNext, Next, Ruby, Usb

LEMMA AnyKeyboard == AnySpec => KeyboardInOrder
<1>1. Init => KeyboardChannel!Init
  BY IdleFacts, IdFacts
     DEF Init, NeutralHost, OnWire, Interface, KeyboardChannel!Init
<1>2. Typed /\ [AnyNext]_vars => [KeyboardChannel!Next]_(KeyboardChannel!channel)
  BY KeyboardRefinement DEF KeyboardStep
<1> QED
  BY <1>1, <1>2, InitTyped, TypedStep, PTL
     DEF AnySpec, KeyboardInOrder, KeyboardChannel!Spec

(* The host sees the keyboard states the scan reported, each as it was     *)
(* when its report was queued and none out of order, whatever else uses    *)
(* the interface and whatever happens on the bus.                          *)
THEOREM KeyboardRefines == Spec => KeyboardInOrder
BY AnyKeyboard, SpecIsAny, PTL
=============================================================================
