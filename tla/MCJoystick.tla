----------------------------- MODULE MCJoystick -----------------------------
(***************************************************************************)
(* A small instance of Joystick for TLC: two sticks on the x axis, one of  *)
(* them half as sensitive again, one on the y axis inverted nowhere but    *)
(* with a product wider than 16 bits at its end, one alone on the z axis.  *)
(* The samples are the ends, the middle and both sides of the drift.       *)
(***************************************************************************)
EXTENDS Joystick

AxisOfChannel == [ch \in Channels |-> <<"x", "x", "y", "z">>[ch + 1]]
Middle == [ch \in Channels |-> IF ch = 3 THEN 100 ELSE 128]
Whole(n) == IF n < 0 THEN -((-n) \div 2) ELSE n \div 2
Gains == [ch \in Channels |->
            [d \in Deviation |-> CASE ch = 0 -> Whole(3 * d)
                                   [] ch = 2 -> 300 * d
                                   [] OTHER -> d]]
MinusThree == -3
SomeSamples == {0, 1600, 2000, 2048, 2127, 4095}
SomeHats == 0 .. 16 \cup {128, 258, 266}
=============================================================================
