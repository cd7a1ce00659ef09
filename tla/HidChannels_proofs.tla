------------------------- MODULE HidChannels_proofs -------------------------
(***************************************************************************)
(* The consumer report and the gamepad report implement LatestState, as    *)
(* KeyboardRefines shows for the keyboard report, for all values of the    *)
(* constants of HidReport.                                                 *)
(***************************************************************************)
EXTENDS HidReport_proofs

(***************************************************************************)
(* The consumer report                                                     *)
(***************************************************************************)
ConsumerWire == OnWire(0, CONSUMER_CONTROL)

ConsumerStep == [ConsumerChannel!Next]_(ConsumerChannel!channel)

(* A step of the channel is an offer of the new state, a change that puts  *)
(* nothing on the wire, a delivery or a reset.                             *)
LEMMA ConsumerSteps ==
  /\ /\ consumer_keycode' \in ConsumerKeys /\ host'.consumer = host.consumer
     /\ ConsumerWire = {} /\ ConsumerWire' = {consumer_keycode'}
     => ConsumerStep
  /\ /\ consumer_keycode' \in ConsumerKeys /\ host'.consumer = host.consumer
     /\ ConsumerWire' = ConsumerWire
     => ConsumerStep
  /\ /\ consumer_keycode' = consumer_keycode
     /\ host'.consumer \in ConsumerWire /\ ConsumerWire' = {}
     => ConsumerStep
  /\ /\ consumer_keycode' = consumer_keycode
     /\ host'.consumer = NoConsumer /\ ConsumerWire' = {}
     => ConsumerStep
BY DEF ConsumerStep, ConsumerWire, ConsumerChannel!Next, ConsumerChannel!Change,
       ConsumerChannel!Offer, ConsumerChannel!Deliver, ConsumerChannel!Reset

LEMMA SendRefinesConsumer ==
  ASSUME Typed, NEW STATE keys, NEW STATE consumer, consumer \in ConsumerKeys,
         NEW STATE endpoints,
         Keeps0(endpoints) \/ Sends0(keys, consumer, endpoints),
         consumer_keycode' = consumer, host' = host,
         endpoints[0].id = NONE => ConsumerWire = {} /\ ~delivered'[0],
         endpoints[0].id # NONE =>
           endpoints[0] = in_flight[0] /\ (delivered'[0] <=> delivered[0])
  PROVE  ConsumerStep
<1>1. consumer_keycode' \in ConsumerKeys /\ host'.consumer = host.consumer
  OBVIOUS
<1>2. CASE Keeps0(endpoints)
  <2>1. ConsumerWire' = ConsumerWire
    <3>1. CASE endpoints[0].id = NONE
      BY <1>2, <3>1, IdFacts DEF Keeps0, ConsumerWire, OnWire
    <3>2. CASE endpoints[0].id # NONE
      BY <1>2, <3>2 DEF Keeps0, ConsumerWire, OnWire
    <3> QED BY <3>1, <3>2
  <2> QED BY <1>1, <2>1, ConsumerSteps
<1>3. CASE Sends0(keys, consumer, endpoints)
  <2>1. ConsumerWire = {} /\ ~delivered'[0]
    BY <1>3 DEF Sends0
  <2>2. CASE in_flight'[0] = Report(CONSUMER_CONTROL, consumer)
    <3>1. ConsumerWire' = {consumer}
      BY <2>1, <2>2 DEF ConsumerWire, OnWire, Report
    <3> QED BY <1>1, <2>1, <3>1, ConsumerSteps
  <2>3. CASE \/ in_flight'[0] = Report(MOUSE, mouse)
             \/ in_flight'[0] = Report(KEYBOARD, keys)
    <3>1. ConsumerWire' = {}
      BY <2>3, IdFacts DEF ConsumerWire, OnWire, Report
    <3> QED BY <1>1, <2>1, <3>1, ConsumerSteps
  <2> QED BY <1>3, <2>2, <2>3 DEF Sends0
<1> QED BY <1>2, <1>3

LEMMA ConsumerRefinement == Typed /\ [AnyNext]_vars => ConsumerStep
<1> SUFFICES ASSUME Typed, [AnyNext]_vars PROVE ConsumerStep
  OBVIOUS
<1>1. consumer_keycode \in ConsumerKeys
  BY DEF Typed, TypeOK
<1>2. ASSUME NEW keys \in Keys, NEW consumer \in ConsumerKeys, Scan(keys, consumer)
      PROVE  ConsumerStep
  <2>1. /\ Keeps0(in_flight) \/ Sends0(keys, consumer, in_flight)
        /\ consumer_keycode' = consumer /\ host' = host /\ delivered' = delivered
    BY <1>2, ScanSends
  <2>2. in_flight[0].id = NONE => ConsumerWire = {} /\ ~delivered'[0]
    BY <2>1, IdFacts
       DEF Typed, IdleIsNotTaken, Interface, ConsumerWire, OnWire
  <2> QED BY <2>1, <2>2, SendRefinesConsumer
<1>3. ASSUME NEW n \in Interface, ReportComplete(n)
      PROVE  ConsumerStep
  <2> DEFINE endpoints == [in_flight EXCEPT ![n] = Idle]
  <2>1. /\ Keeps0(endpoints) \/ Sends0(keyboard, consumer_keycode, endpoints)
        /\ endpoints \in Endpoints /\ Taken(n)
        /\ delivered' = [delivered EXCEPT ![n] = FALSE]
        /\ consumer_keycode' = consumer_keycode /\ host' = host
    BY <1>3, CompletionSends
  <2>2. CASE n = 0
    <3>1. endpoints[0].id = NONE /\ ConsumerWire = {} /\ ~delivered'[0]
      BY <2>1, <2>2, IdleFacts
         DEF Taken, ConsumerWire, OnWire, Typed, TypeOK, Endpoints, Interface
    <3> HIDE DEF endpoints
    <3> QED BY <1>1, <2>1, <3>1, SendRefinesConsumer
  <2>3. CASE n = 1
    <3>1. endpoints[0] = in_flight[0] /\ (delivered'[0] <=> delivered[0])
      BY <2>1, <2>3 DEF Typed, TypeOK, Endpoints, Interface
    <3>2. endpoints[0].id = NONE => ConsumerWire = {} /\ ~delivered'[0]
      BY <3>1, IdFacts DEF Typed, IdleIsNotTaken, Interface, ConsumerWire, OnWire
    <3> HIDE DEF endpoints
    <3> QED BY <1>1, <2>1, <3>1, <3>2, SendRefinesConsumer
  <2> QED BY <2>2, <2>3 DEF Interface
<1>4. CASE ReportRawHid
  <2>1. in_flight'[0] = Report(RAWHID, RAWHID) /\ in_flight[0].id = NONE
    BY <1>4 DEF ReportRawHid, HidReady, TudReport, Typed, TypeOK, Endpoints, Interface
  <2>2. ConsumerWire = {} /\ ConsumerWire' = {}
    BY <2>1, IdFacts DEF ConsumerWire, OnWire, Report
  <2> QED BY <1>1, <1>4, <2>2, ConsumerSteps DEF ReportRawHid
<1>5. ASSUME NEW n \in Interface, HostPoll(n)
      PROVE  ConsumerStep
  <2>1. /\ in_flight' = in_flight /\ consumer_keycode' = consumer_keycode /\ OnItsWay(n)
        /\ delivered' = [delivered EXCEPT ![n] = TRUE]
    BY <1>5 DEF HostPoll, device
  <2>2. in_flight[n].id = CONSUMER_CONTROL => n = 0
    BY IdFacts DEF Typed, TypeOK, Endpoints, Interface, JoystickReports, Idle, Report
  <2>3. CASE in_flight[n].id = CONSUMER_CONTROL
    <3>1. host'.consumer = in_flight[0].data
      BY <1>5, <2>2, <2>3, IdFacts DEF HostPoll, Typed, TypeOK
    <3>2. ConsumerWire = {in_flight[0].data}
      BY <2>1, <2>2, <2>3 DEF ConsumerWire, OnWire, OnItsWay
    <3>3. ConsumerWire' = {}
      BY <2>1, <2>2, <2>3 DEF ConsumerWire, OnWire, Typed, TypeOK, Interface
    <3> QED BY <2>1, <3>1, <3>2, <3>3, ConsumerSteps
  <2>4. CASE in_flight[n].id # CONSUMER_CONTROL
    <3>1. in_flight[n] \in HidReports \cup JoystickReports
      BY <2>1, IdleFacts DEF OnItsWay, Typed, TypeOK, Endpoints, Interface
    <3>2. host'.consumer = host.consumer
      BY <1>5, <2>4, <3>1, IdFacts
         DEF HostPoll, HidReports, JoystickReports, Typed, TypeOK
    <3>3. ConsumerWire' = ConsumerWire
      <4>1. CASE n = 0
        BY <2>1, <2>4, <4>1 DEF ConsumerWire, OnWire
      <4>2. CASE n = 1
        BY <2>1, <4>2 DEF ConsumerWire, OnWire, Typed, TypeOK, Interface
      <4> QED BY <4>1, <4>2 DEF Interface
    <3> QED BY <1>1, <2>1, <3>2, <3>3, ConsumerSteps
  <2> QED BY <2>3, <2>4
<1>6. CASE BusReset
  <2>1. ConsumerWire' = {}
    BY <1>6, IdFacts, IdleFacts DEF BusReset, ConsumerWire, OnWire, Interface
  <2>2. host'.consumer = NoConsumer /\ consumer_keycode' = consumer_keycode
    BY <1>6 DEF BusReset, NeutralHost, device
  <2> QED BY <2>1, <2>2, ConsumerSteps
<1>7. CASE UNCHANGED <<consumer_keycode, in_flight, delivered, host>>
  BY <1>1, <1>7, ConsumerSteps DEF ConsumerWire, OnWire
<1>8. CASE \/ \E buttons \in SUBSET MouseButtons, motion \in [Axes -> Motions] :
                MergeMouse(buttons, motion)
           \/ \E pad \in Pads : MergeJoystick(pad)
           \/ Mount \/ Suspend \/ Resume \/ MoveSticks \/ UNCHANGED vars
  BY <1>7, <1>8
     DEF MergeMouse, MergeMouseReport, MergeJoystick, MergeJoystickReport,
         Mount, Suspend, Resume, MoveSticks, vars, device
<1> QED
  BY <1>2, <1>3, <1>4, <1>5, <1>6, <1>8 DEF AnyNext, Next, Ruby, Usb

LEMMA AnyConsumer == AnySpec => ConsumerInOrder
<1>1. Init => ConsumerChannel!Init
  BY IdleFacts, IdFacts
     DEF Init, NeutralHost, OnWire, Interface, ConsumerChannel!Init
<1>2. Typed /\ [AnyNext]_vars => [ConsumerChannel!Next]_(ConsumerChannel!channel)
  BY ConsumerRefinement DEF ConsumerStep
<1> QED
  BY <1>1, <1>2, InitTyped, TypedStep, PTL
     DEF AnySpec, ConsumerInOrder, ConsumerChannel!Spec

(* The host sees the consumer keys hid_task was given, each as it was when *)
(* its report was queued and none out of order, although VIA switches      *)
(* these reports off and on again.                                         *)
THEOREM ConsumerRefines == Spec => ConsumerInOrder
BY AnyConsumer, SpecIsAny, PTL
(***************************************************************************)
(* The gamepad report                                                      *)
(***************************************************************************)
PadWire == OnWire(1, GAMEPAD)

PadChannelStep == [GamepadChannel!Next]_(GamepadChannel!channel)

(* As for the consumer report; the state is the one the next report would  *)
(* carry, the merged buttons with the axes of the moment.                  *)
LEMMA PadSteps ==
  /\ /\ Gamepad' \in PadState /\ host'.pad = host.pad
     /\ PadWire = {} /\ PadWire' = {Gamepad'}
     => PadChannelStep
  /\ /\ Gamepad' \in PadState /\ host'.pad = host.pad
     /\ PadWire' = PadWire
     => PadChannelStep
  /\ /\ Gamepad' = Gamepad
     /\ host'.pad \in PadWire /\ PadWire' = {}
     => PadChannelStep
  /\ /\ Gamepad' = Gamepad
     /\ host'.pad = ZeroPad /\ PadWire' = {}
     => PadChannelStep
BY DEF PadChannelStep, PadWire, Gamepad, GamepadChannel!Next,
       GamepadChannel!Change, GamepadChannel!Offer, GamepadChannel!Deliver,
       GamepadChannel!Reset, GamepadChannel!channel

LEMMA SendRefinesPad ==
  ASSUME Typed, NEW STATE endpoints,
         Keeps1(endpoints) \/ Sends1(endpoints),
         UNCHANGED <<joystick, sticks, host>>,
         endpoints[1].id = NONE => PadWire = {} /\ ~delivered'[1],
         endpoints[1].id # NONE =>
           endpoints[1] = in_flight[1] /\ (delivered'[1] <=> delivered[1])
  PROVE  PadChannelStep
<1>1. Gamepad' = Gamepad /\ Gamepad' \in PadState /\ host'.pad = host.pad
  BY DEF Gamepad, PadState, Typed, TypeOK
<1>2. CASE Keeps1(endpoints)
  <2>1. PadWire' = PadWire
    <3>1. CASE endpoints[1].id = NONE
      BY <1>2, <3>1, IdFacts DEF Keeps1, PadWire, OnWire
    <3>2. CASE endpoints[1].id # NONE
      BY <1>2, <3>2 DEF Keeps1, PadWire, OnWire
    <3> QED BY <3>1, <3>2
  <2> QED BY <1>1, <2>1, PadSteps
<1>3. CASE Sends1(endpoints)
  <2>1. PadWire = {} /\ ~delivered'[1]
    BY <1>3 DEF Sends1
  <2>2. in_flight'[1] = Report(GAMEPAD, Gamepad)
    BY <1>3 DEF Sends1
  <2>3. PadWire' = {Gamepad'}
    BY <1>1, <2>1, <2>2 DEF PadWire, OnWire, Report
  <2> QED BY <1>1, <2>1, <2>3, PadSteps
<1> QED BY <1>2, <1>3

LEMMA PadRefinement == Typed /\ [AnyNext]_vars => PadChannelStep
<1> SUFFICES ASSUME Typed, [AnyNext]_vars PROVE PadChannelStep
  OBVIOUS
<1>1. ASSUME NEW keys \in Keys, NEW consumer \in ConsumerKeys, Scan(keys, consumer)
      PROVE  PadChannelStep
  <2>1. /\ Keeps1(in_flight) \/ Sends1(in_flight)
        /\ UNCHANGED <<joystick, sticks, host, delivered>>
    BY <1>1, ScanSends
  <2>2. in_flight[1].id = NONE => PadWire = {} /\ ~delivered'[1]
    BY <2>1, IdFacts DEF Typed, IdleIsNotTaken, Interface, PadWire, OnWire
  <2> QED BY <2>1, <2>2, SendRefinesPad
<1>2. ASSUME NEW n \in Interface, ReportComplete(n)
      PROVE  PadChannelStep
  <2> DEFINE endpoints == [in_flight EXCEPT ![n] = Idle]
  <2>1. /\ Keeps1(endpoints) \/ Sends1(endpoints)
        /\ endpoints \in Endpoints /\ Taken(n)
        /\ delivered' = [delivered EXCEPT ![n] = FALSE]
        /\ UNCHANGED <<joystick, sticks, host>>
    BY <1>2, CompletionSends
  <2>2. CASE n = 1
    <3>1. endpoints[1].id = NONE /\ PadWire = {} /\ ~delivered'[1]
      BY <2>1, <2>2, IdleFacts
         DEF Taken, PadWire, OnWire, Typed, TypeOK, Endpoints, Interface
    <3> HIDE DEF endpoints
    <3> QED BY <2>1, <3>1, SendRefinesPad
  <2>3. CASE n = 0
    <3>1. endpoints[1] = in_flight[1] /\ (delivered'[1] <=> delivered[1])
      BY <2>1, <2>3 DEF Typed, TypeOK, Endpoints, Interface
    <3>2. endpoints[1].id = NONE => PadWire = {} /\ ~delivered'[1]
      BY <3>1, IdFacts DEF Typed, IdleIsNotTaken, Interface, PadWire, OnWire
    <3> HIDE DEF endpoints
    <3> QED BY <2>1, <3>1, <3>2, SendRefinesPad
  <2> QED BY <2>2, <2>3 DEF Interface
<1>3. ASSUME NEW n \in Interface, HostPoll(n)
      PROVE  PadChannelStep
  <2>1. /\ in_flight' = in_flight /\ Gamepad' = Gamepad /\ OnItsWay(n)
        /\ delivered' = [delivered EXCEPT ![n] = TRUE]
    BY <1>3 DEF HostPoll, device, Gamepad
  <2>2. CASE n = 1
    <3>1. in_flight[1] \in JoystickReports
      BY <2>1, <2>2, IdleFacts DEF OnItsWay, Typed, TypeOK, Endpoints
    <3>2. host'.pad = in_flight[1].data
      BY <1>3, <2>2, <3>1, IdFacts DEF HostPoll, JoystickReports, Typed, TypeOK
    <3>3. PadWire = {in_flight[1].data}
      BY <2>1, <2>2, <3>1 DEF PadWire, OnWire, OnItsWay, JoystickReports
    <3>4. PadWire' = {}
      BY <2>1, <2>2 DEF PadWire, OnWire, Typed, TypeOK, Interface
    <3> QED BY <2>1, <3>2, <3>3, <3>4, PadSteps
  <2>3. CASE n = 0
    <3>1. in_flight[0] \in HidReports
      BY <2>1, <2>3, IdleFacts DEF OnItsWay, Typed, TypeOK, Endpoints
    <3>2. host'.pad = host.pad
      BY <1>3, <2>3, <3>1, IdFacts DEF HostPoll, HidReports, Typed, TypeOK
    <3>3. PadWire' = PadWire
      BY <2>1, <2>3 DEF PadWire, OnWire, Typed, TypeOK, Interface
    <3>4. Gamepad' \in PadState
      BY <2>1 DEF Gamepad, PadState, Typed, TypeOK
    <3> QED BY <3>2, <3>3, <3>4, PadSteps
  <2> QED BY <2>2, <2>3 DEF Interface
<1>4. CASE BusReset
  <2>1. PadWire' = {}
    BY <1>4, IdFacts, IdleFacts DEF BusReset, PadWire, OnWire, Interface
  <2>2. host'.pad = ZeroPad /\ Gamepad' = Gamepad
    BY <1>4 DEF BusReset, NeutralHost, device, Gamepad
  <2> QED BY <2>1, <2>2, PadSteps
<1>5. CASE /\ joystick' \in Pads /\ sticks' \in Sticks
           /\ UNCHANGED <<in_flight, delivered, host>>
  <2>1. Gamepad' \in PadState
    BY <1>5 DEF Gamepad, PadState
  <2>2. PadWire' = PadWire /\ host'.pad = host.pad
    BY <1>5 DEF PadWire, OnWire
  <2> QED BY <2>1, <2>2, PadSteps
<1>6. CASE ReportRawHid
  <2>1. in_flight'[1] = in_flight[1]
    BY <1>6 DEF ReportRawHid, TudReport, Typed, TypeOK, Endpoints, Interface
  <2>2. PadWire' = PadWire /\ host'.pad = host.pad
    BY <1>6, <2>1 DEF ReportRawHid, PadWire, OnWire
  <2>3. Gamepad' \in PadState
    BY <1>6 DEF ReportRawHid, Gamepad, PadState, Typed, TypeOK
  <2> QED BY <2>2, <2>3, PadSteps
<1>7. joystick \in Pads /\ sticks \in Sticks
  BY DEF Typed, TypeOK
<1>8. CASE \/ \E buttons \in SUBSET MouseButtons, motion \in [Axes -> Motions] :
                MergeMouse(buttons, motion)
           \/ Mount \/ Suspend \/ Resume \/ UNCHANGED vars
  BY <1>5, <1>7, <1>8
     DEF MergeMouse, MergeMouseReport, Mount, Suspend, Resume, vars, device
<1>9. CASE (\E pad \in Pads : MergeJoystick(pad)) \/ MoveSticks
  BY <1>5, <1>7, <1>9 DEF MergeJoystick, MergeJoystickReport, MoveSticks
<1> QED
  BY <1>1, <1>2, <1>3, <1>4, <1>6, <1>8, <1>9 DEF AnyNext, Next, Ruby, Usb

LEMMA AnyGamepad == AnySpec => GamepadInOrder
<1>1. Init => GamepadChannel!Init
  BY IdleFacts, IdFacts
     DEF Init, NeutralHost, OnWire, Interface, ZeroPad, GamepadChannel!Init
<1>2. Typed /\ [AnyNext]_vars => [GamepadChannel!Next]_(GamepadChannel!channel)
  BY PadRefinement DEF PadChannelStep
<1> QED
  BY <1>1, <1>2, InitTyped, TypedStep, PTL
     DEF AnySpec, GamepadInOrder, GamepadChannel!Spec

(* The host sees the gamepad only as it was at some moment, buttons, hat   *)
(* and axes together, and in the order of those moments, although the axes *)
(* are read when a report is built and the buttons were merged before.     *)
THEOREM GamepadRefines == Spec => GamepadInOrder
BY AnyGamepad, SpecIsAny, PTL
=============================================================================
