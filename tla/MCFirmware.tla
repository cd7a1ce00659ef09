---------------------------- MODULE MCFirmware -----------------------------
(***************************************************************************)
(* A small instance of Firmware for TLC: two keymaps with complete texts   *)
(* of one name, one VID wider than 16 bits; the stack ends a text or       *)
(* carries it on.                                                          *)
(***************************************************************************)
EXTENDS Firmware

F(number, text) == [number |-> number, text |-> text]
Mine == <<F(4660, "0x1234"), F(22136, "0x5678"), F(0, "Mine")>>
Yours == <<F(65540, "0x10004"), F(2, "0x2"), F(0, "Mine")>>

TwoConfs == {Mine, Yours}
Stack == {<<>>, <<F(7, "7")>>}
FieldTexts == {"0x1234", "0x5678", "0x10004", "0x2", "Mine", "7",
               "Default VID/PID", "no digit"}

First == "first"
Second == "second"
TwoKeymaps == {First, Second}
None == "none"
Texts == [k \in TwoKeymaps |-> IF k = First THEN Mine ELSE Yours]
=============================================================================
