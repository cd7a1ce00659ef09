-------------------------- MODULE Joystick_proofs --------------------------
(***************************************************************************)
(* Proofs about Joystick, for any sticks, offsets, sensitivities and drift *)
(* around rest.                                                            *)
(***************************************************************************)
EXTENDS Joystick, TLAPS, WellFoundedInduction

(* Every set of inputs with a stick in it has a last one.                  *)
LEMMA LastIsLast ==
  ASSUME NEW STATE chs, chs \subseteq Channels, chs # {}
  PROVE  Last(chs) \in chs /\ \A other \in chs : other <= Last(chs)
<1> DEFINE N == MAX_ADC_COUNT
           T == {N - ch : ch \in chs}
<1>1. N \in Nat /\ \A ch \in chs : ch \in 0 .. N - 1
  BY StickAssumption DEF Channels
<1>2. T \subseteq Nat /\ T # {}
  BY <1>1
<1>3. PICK x \in T : \A y \in T : ~(<<y, x>> \in OpToRel(<, Nat))
  BY <1>2, NatLessThanWellFounded, WFMin
<1>4. \A y \in T : ~(y < x)
  BY <1>2, <1>3 DEF OpToRel
<1>5. PICK ch \in chs : x = N - ch
  OBVIOUS
<1>6. ASSUME NEW other \in chs
      PROVE  other <= ch
  <2>1. ~(N - other < N - ch)
    BY <1>4, <1>5
  <2> QED
    BY <1>1, <2>1
<1> QED
  BY <1>6 DEF Last
-----------------------------------------------------------------------------
LEMMA ClampFacts ==
  /\ \A n \in Int : Clamp(n) \in Int8
  /\ \A n \in Int : Clamp(n) = 0 <=> n = 0
  /\ \A m, n \in Int : m <= n => Clamp(m) <= Clamp(n)
  /\ \A n \in Int : n <= 0 => Clamp(n) <= 0
  /\ \A n \in Int : 0 <= n => 0 <= Clamp(n)
BY DEF Clamp, Int8

(* Every sample stays within the deviations Gain is defined for, and the   *)
(* int16_t keeps a product that fits it.                                   *)
LEMMA ProductType ==
  ASSUME NEW ch \in Channels, NEW sample \in Samples
  PROVE  Product(ch, sample) \in Int
<1>1. sample \in Uint12 /\ Offset[ch] \in Uint8
  BY StickAssumption
<1>2. (sample \div 16) - Offset[ch] \in Deviation
  <2>1. ASSUME NEW n \in Uint12, NEW rest \in Uint8
        PROVE  (n \div 16) - rest \in Deviation
    <3>1. n \div 16 \in Uint8
      BY DEF Uint12, Uint8
    <3>2. \A m \in Uint8 : m - rest \in Deviation
      BY DEF Uint8, Deviation
    <3> QED
      BY <3>1, <3>2
  <2> QED
    BY <1>1, <2>1
<1>3. Gain[ch] \in [Deviation -> Int]
  BY StickAssumption
<1> QED
  BY <1>2, <1>3 DEF Product

LEMMA ToInt16Facts ==
  /\ \A n \in Int : ToInt16(n) \in Int
  /\ \A n \in Int16 : ToInt16(n) = n
BY DEF ToInt16, Int16

LEMMA ValueType ==
  ASSUME NEW ch \in Channels, NEW sample \in Samples
  PROVE  Value(ch, sample) \in Int
BY ProductType, ToInt16Facts DEF Value

(* The axis is that of its last deflected stick.                           *)
LEMMA AxisValue ==
  ASSUME NEW readings \in [Channels -> Samples], NEW axis \in Axes,
         Deflected(axis, readings) # {}
  PROVE  \E ch \in Deflected(axis, readings) :
           /\ Axis(axis, readings) = Clamp(Value(ch, readings[ch]))
           /\ Value(ch, readings[ch]) \in Int
           /\ ~Drifts(Value(ch, readings[ch]))
<1> DEFINE ch == Last(Deflected(axis, readings))
<1>1. Deflected(axis, readings) \subseteq Channels
  BY DEF Deflected, Mapped
<1>2. ch \in Deflected(axis, readings)
  BY <1>1, LastIsLast
<1>3. Value(ch, readings[ch]) \in Int
  BY <1>1, <1>2, ValueType
<1> QED
  BY <1>2, <1>3 DEF Axis, Deflected

LEMMA AxisFacts ==
  ASSUME NEW readings \in [Channels -> Samples], NEW axis \in Axes
  PROVE  /\ Axis(axis, readings) \in Int8
         /\ Axis(axis, readings) = 0 <=> Deflected(axis, readings) = {}
<1>1. CASE Deflected(axis, readings) = {}
  BY <1>1 DEF Axis, Int8
<1>2. CASE Deflected(axis, readings) # {}
  <2>1. PICK ch \in Deflected(axis, readings) :
          /\ Axis(axis, readings) = Clamp(Value(ch, readings[ch]))
          /\ Value(ch, readings[ch]) \in Int
          /\ ~Drifts(Value(ch, readings[ch]))
    BY <1>2, AxisValue
  <2>2. Value(ch, readings[ch]) # 0
    BY <2>1, StickAssumption DEF Drifts
  <2> QED
    BY <1>2, <2>1, <2>2, ClampFacts
<1> QED
  BY <1>1, <1>2
-----------------------------------------------------------------------------
Inputs == adc \in [Channels -> Samples] /\ hat \in Uint8

LEMMA InputsInvariant == Spec => []Inputs
<1>1. Init => Inputs
  BY DEF Init, Inputs, Uint8
<1>2. Inputs /\ [Next]_vars => Inputs'
  <2> SUFFICES ASSUME Inputs, [Next]_vars
               PROVE  Inputs'
    OBVIOUS
  <2>1. ASSUME NEW ch \in Channels, NEW sample \in Samples, Move(ch, sample)
        PROVE  Inputs'
    BY <2>1 DEF Inputs, Move
  <2>2. ASSUME NEW argument \in HatArguments, MergeHat(argument)
        PROVE  Inputs'
    <3>1. argument \in Nat
      BY StickAssumption
    <3> QED
      BY <2>2, <3>1 DEF Inputs, MergeHat, Uint8
  <2>3. CASE UNCHANGED vars
    BY <2>3 DEF Inputs, vars
  <2> QED
    BY <2>1, <2>2, <2>3 DEF Next
<1> QED
  BY <1>1, <1>2, PTL DEF Spec

(* The inputs keep their width, and every axis fits the eight bits of the  *)
(* report, whatever the products were.                                     *)
THEOREM TypeCorrect == Spec => []TypeOK
<1>1. Inputs => TypeOK
  BY AxisFacts DEF Inputs, TypeOK
<1> QED
  BY <1>1, InputsInvariant, PTL

(* An axis is silent only if all its sticks are within their drift: none   *)
(* hides another one.                                                      *)
THEOREM DeflectionIsShown == Spec => []DeflectionShown
<1>1. Inputs => DeflectionShown
  BY AxisFacts DEF Inputs, DeflectionShown
<1> QED
  BY <1>1, InputsInvariant, PTL

(* The axis of a stick that has it for itself.                             *)
LEMMA AloneValue ==
  ASSUME NEW readings \in [Channels -> Samples], NEW ch \in Channels, Alone(ch)
  PROVE  Axis(AxisOf[ch], readings) =
           IF Drifts(Value(ch, readings[ch])) THEN 0
           ELSE Clamp(Value(ch, readings[ch]))
<1>1. AxisOf[ch] \in Axes /\ Mapped(AxisOf[ch]) = {ch}
  BY StickAssumption DEF Alone
<1>2. CASE Drifts(Value(ch, readings[ch]))
  <2>1. Deflected(AxisOf[ch], readings) = {}
    BY <1>1, <1>2 DEF Deflected
  <2> QED
    BY <1>2, <2>1 DEF Axis
<1>3. CASE ~Drifts(Value(ch, readings[ch]))
  <2>1. Deflected(AxisOf[ch], readings) = {ch}
    BY <1>1, <1>3 DEF Deflected
  <2>2. PICK other \in Deflected(AxisOf[ch], readings) :
          Axis(AxisOf[ch], readings) = Clamp(Value(other, readings[other]))
    BY <1>1, <2>1, AxisValue
  <2> QED
    BY <1>3, <2>1, <2>2
<1> QED
  BY <1>2, <1>3

(* Pushed further, a stick alone on its axis, with a moderate sensitivity, *)
(* never reports less.                                                     *)
THEOREM FurtherStaysFurther == Spec => FurtherIsNeverLess
<1>1. ASSUME Inputs, Inputs', NEW ch \in Channels, Alone(ch), Moderate(ch),
             adc'[ch] >= adc[ch]
      PROVE  Axis(AxisOf[ch], adc') >= Axis(AxisOf[ch], adc)
  <2> DEFINE v == Value(ch, adc[ch])
             w == Value(ch, adc'[ch])
  <2>1. adc[ch] \in Samples /\ adc'[ch] \in Samples
    BY <1>1 DEF Inputs
  <2>2. v = Product(ch, adc[ch]) /\ w = Product(ch, adc'[ch])
    BY <1>1, <2>1, ToInt16Facts DEF Moderate, Value
  <2>3. Product(ch, adc[ch]) <= Product(ch, adc'[ch])
    <3>1. adc[ch] \in Uint12 /\ adc'[ch] \in Uint12
      <4>1. Samples \subseteq Uint12
        BY StickAssumption
      <4> QED
        BY <2>1, <4>1
    <3>2. adc[ch] <= adc'[ch]
      BY <1>1, <3>1 DEF Uint12
    <3> QED
      BY <1>1, <2>1, <3>2, Zenon DEF Moderate
  <2>4. v \in Int /\ w \in Int /\ v <= w
    BY <2>1, <2>2, <2>3, ValueType
  <2>5. /\ Axis(AxisOf[ch], adc) = IF Drifts(v) THEN 0 ELSE Clamp(v)
        /\ Axis(AxisOf[ch], adc') = IF Drifts(w) THEN 0 ELSE Clamp(w)
    BY <1>1, AloneValue DEF Inputs
  <2> HIDE DEF v, w
  <2>6. Clamp(v) <= Clamp(w) /\ Clamp(v) \in Int /\ Clamp(w) \in Int
    BY <2>4, ClampFacts DEF Int8
  <2>7. CASE ~Drifts(v) /\ Drifts(w)
    <3>1. v <= 0
      BY <2>4, <2>7, StickAssumption DEF Drifts
    <3> QED
      BY <2>4, <2>5, <2>6, <2>7, <3>1, ClampFacts
  <2>8. CASE Drifts(v) /\ ~Drifts(w)
    <3>1. 0 <= w
      BY <2>4, <2>8, StickAssumption DEF Drifts
    <3> QED
      BY <2>4, <2>5, <2>6, <2>8, <3>1, ClampFacts
  <2> QED
    BY <2>5, <2>6, <2>7, <2>8
<1>2. Inputs /\ Inputs' =>
        [\A ch \in Channels :
           Alone(ch) /\ Moderate(ch) /\ adc'[ch] >= adc[ch]
             => Axis(AxisOf[ch], adc') >= Axis(AxisOf[ch], adc)]_vars
  BY <1>1
<1> QED
  BY <1>2, InputsInvariant, PTL DEF FurtherIsNeverLess
-----------------------------------------------------------------------------
(* Which of the four lowest bits are set says it all below 16.             *)
LEMMA BitsOf ==
  ASSUME NEW n \in 0 .. 15
  PROVE  /\ (n \div 1) % 2 = IF n \in {1, 3, 5, 7, 9, 11, 13, 15} THEN 1 ELSE 0
         /\ (n \div 2) % 2 = IF n \in {2, 3, 6, 7, 10, 11, 14, 15} THEN 1 ELSE 0
         /\ (n \div 4) % 2 = IF n \in {4, 5, 6, 7, 12, 13, 14, 15} THEN 1 ELSE 0
         /\ (n \div 8) % 2 = IF n \in 8 .. 15 THEN 1 ELSE 0
OBVIOUS

(* Both tables of the hat, and the centre for everything else.             *)
LEMMA HatWays ==
  ASSUME NEW n \in Uint8
  PROVE  Pointing(HatOf(n)) =
           CASE n = 1 -> <<1, 0>> [] n = 2 -> <<0, 1>> [] n = 3 -> <<1, 1>>
             [] n = 4 -> <<0, -1>> [] n = 5 -> <<1, -1>> [] n = 8 -> <<-1, 0>>
             [] n = 10 -> <<-1, 1>> [] n = 12 -> <<-1, -1>> [] OTHER -> <<0, 0>>
BY DEF Pointing, HatOf, Way, Uint8

(* The two tables of the hat agree with its geometry for every argument of *)
(* merge_joystick_report, whatever bits it has beyond the four.            *)
THEOREM HatPointsAsAsked == Spec => []HatPoints
<1>1. ASSUME Inputs
      PROVE  HatPoints
  <2>1. hat \in Uint8
    BY <1>1 DEF Inputs
  <2>2. CASE hat > 15
    BY <2>1, <2>2, HatWays DEF HatPoints, Asked
  <2>3. CASE hat <= 15
    <3>1. hat \in 0 .. 15
      BY <2>1, <2>3 DEF Uint8
    <3>2. Pressed(1) + Pressed(8) = 2 <=> hat \in {9, 11, 13, 15}
      BY <3>1, BitsOf DEF Pressed
    <3>3. Pressed(2) + Pressed(4) = 2 <=> hat \in {6, 7, 14, 15}
      BY <3>1, BitsOf DEF Pressed
    <3>4. Asked = Pointing(HatOf(hat))
      BY <2>1, <3>1, <3>2, <3>3, BitsOf, HatWays DEF Asked, Pressed
    <3> QED
      BY <3>4 DEF HatPoints
  <2> QED
    BY <2>1, <2>2, <2>3 DEF Uint8
<1> QED
  BY <1>1, InputsInvariant, PTL
=============================================================================
