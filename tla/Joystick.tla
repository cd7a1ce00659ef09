----------------------------- MODULE Joystick ------------------------------
(***************************************************************************)
(* The arithmetic of joystick_report_hid (src/joystick.c): the samples of  *)
(* the ADC become the axes of the gamepad report, the direction bits its   *)
(* hat.  How the report gets to the host is in HidReport, whose Sticks and *)
(* Pads are what Axis and Hat compute here.                                *)
(***************************************************************************)
EXTENDS Integers, FiniteSets

CONSTANTS
  MAX_ADC_COUNT, \* how many inputs the ADC has
  Axes,         \* x, y, z, rz, rx, ry
  NoAxis,       \* -1: the input has no stick
  AxisOf,       \* Joystick_axes
  Offset,       \* Joystick_adc_offset
  Gain,         \* a deviation times Joystick_sensitivity, a whole number
  DriftMinus, Drift, \* Joystick_drift_suppression_minus, and without minus
  Samples,      \* what adc_read may return
  HatArguments  \* the second argument of merge_joystick_report

Channels == 0 .. MAX_ADC_COUNT - 1

Uint12 == 0 .. 4095
Uint8 == 0 .. 255
Int8 == -128 .. 127
Int16 == -32768 .. 32767
Deviation == -255 .. 255

ASSUME StickAssumption ==
  /\ MAX_ADC_COUNT \in Nat
  /\ NoAxis \notin Axes
  /\ AxisOf \in [Channels -> Axes \cup {NoAxis}]
  /\ Offset \in [Channels -> Uint8]
  /\ Gain \in [Channels -> [Deviation -> Int]]
  /\ DriftMinus \in Int /\ Drift \in Int /\ DriftMinus <= 0 /\ 0 <= Drift
  /\ Samples \subseteq Uint12
  /\ HatArguments \subseteq Nat

VARIABLES
  adc,  \* what each input reads
  hat   \* joystick_hat

vars == <<adc, hat>>

(* Conversion of a C int to int16_t, and the limits of an axis.            *)
ToInt16(n) == ((n + 32768) % 65536) - 32768

ClampLowOnlyMutated(n) == IF n < -128 THEN -128 ELSE n
ClampWrapsMutated(n) == ((n + 128) % 256) - 128
Clamp(n) == IF n < -128 THEN -128 ELSE IF n > 127 THEN 127 ELSE n

(* A twelve-bit sample, its lowest four bits cut off, as a deviation from  *)
(* rest, times the sensitivity.  The product goes through an int16_t.      *)
Product(ch, sample) == Gain[ch][(sample \div 16) - Offset[ch]]
Value(ch, sample) == ToInt16(Product(ch, sample))

Drifts(value) == DriftMinus <= value /\ value <= Drift

Mapped(axis) == {ch \in Channels : AxisOf[ch] = axis}
Deflected(axis, readings) == {ch \in Mapped(axis) : ~Drifts(Value(ch, readings[ch]))}
Last(chs) == CHOOSE ch \in chs : \A other \in chs : other <= ch

AxisOfLastStickMutated(axis, readings) ==
  IF Mapped(axis) = {} \/ Last(Mapped(axis)) \notin Deflected(axis, readings) THEN 0
  ELSE Clamp(Value(Last(Mapped(axis)), readings[Last(Mapped(axis))]))

(* The loop over the inputs starts from a report of zeros and overwrites   *)
(* the axis of every stick that is not at rest.                            *)
Axis(axis, readings) ==
  IF Deflected(axis, readings) = {} THEN 0
  ELSE LET ch == Last(Deflected(axis, readings)) IN Clamp(Value(ch, readings[ch]))

(* GAMEPAD_HAT_CENTERED 0, UP 1 and clockwise to UP_LEFT 8.                *)
HatOfBelowFourMutated(bits) ==
  IF bits < 4 THEN IF bits = 0 THEN 0 ELSE <<3, 1, 2>>[bits]
  ELSE CASE bits = 5 -> 4 [] bits = 8 -> 7 [] bits = 10 -> 8 [] bits = 12 -> 6
         [] OTHER -> 0

HatOf(bits) ==
  IF bits <= 4 THEN IF bits = 0 THEN 0 ELSE <<3, 1, 2, 5>>[bits]
  ELSE CASE bits = 5 -> 4 [] bits = 8 -> 7 [] bits = 10 -> 8 [] bits = 12 -> 6
         [] OTHER -> 0

(* External: a stick moves; the program presses direction keys.            *)
Move(ch, sample) == adc' = [adc EXCEPT ![ch] = sample] /\ UNCHANGED hat

MergeHat(argument) == hat' = argument % 256 /\ UNCHANGED adc
-----------------------------------------------------------------------------
Init == adc \in [Channels -> Samples] /\ hat = 0

Next ==
  \/ \E ch \in Channels, sample \in Samples : Move(ch, sample)
  \/ \E argument \in HatArguments : MergeHat(argument)

Spec == Init /\ [][Next]_vars
-----------------------------------------------------------------------------
(* The inputs keep their width, and so do the axes.                        *)
TypeOK ==
  /\ adc \in [Channels -> Samples]
  /\ hat \in Uint8
  /\ \A axis \in Axes : Axis(axis, adc) \in Int8

(* A stick at rest never hides another one of its axis, nor does the eight-*)
(* bit limit: an axis is zero, and the report silent, only if every stick  *)
(* of the axis is within its drift.                                        *)
DeflectionShown ==
  \A axis \in Axes : Axis(axis, adc) = 0 <=> Deflected(axis, adc) = {}

Alone(ch) == AxisOf[ch] # NoAxis /\ Mapped(AxisOf[ch]) = {ch}

(* The sensitivities that joystick_report_hid can cope with: products fit  *)
(* the int16_t, and a higher sample is not a lower product.                *)
Moderate(ch) ==
  /\ \A s \in Samples : Product(ch, s) \in Int16
  /\ \A s, t \in Samples : s <= t => Product(ch, s) <= Product(ch, t)

(* Pushed further, a stick never reports less: neither the limits of the   *)
(* axis nor the edges of the drift turn the direction round.               *)
FurtherIsNeverLess ==
  [][\A ch \in Channels :
       Alone(ch) /\ Moderate(ch) /\ adc'[ch] >= adc[ch]
         => Axis(AxisOf[ch], adc') >= Axis(AxisOf[ch], adc)]_vars

(* The way the hat's direction points, and the one pressed bits ask for:   *)
(* opposite keys ask for none.                                             *)
Way == <<<<0, 1>>, <<1, 1>>, <<1, 0>>, <<1, -1>>, <<0, -1>>, <<-1, -1>>,
         <<-1, 0>>, <<-1, 1>>>>
Pointing(position) == IF position = 0 THEN <<0, 0>> ELSE Way[position]

Pressed(bit) == (hat \div bit) % 2
Asked ==
  IF hat > 15 \/ Pressed(1) + Pressed(8) = 2 \/ Pressed(2) + Pressed(4) = 2
    THEN <<0, 0>>
    ELSE <<Pressed(1) - Pressed(8), Pressed(2) - Pressed(4)>>

(* The two tables of the hat agree with its geometry, for every argument.  *)
HatPoints == Pointing(HatOf(hat)) = Asked
=============================================================================
