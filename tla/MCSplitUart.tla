---------------------------- MODULE MCSplitUart ----------------------------
(***************************************************************************)
(* Small instances of SplitUart for TLC.                                   *)
(***************************************************************************)
EXTENDS SplitUart

(* All zeros, all ones, a byte whose upper bits and stop bits look like a  *)
(* long stop bit, and an alternating one.                                  *)
FourBytes == {{}, 0 .. 7, 2 .. 7, {0, 2, 4, 6}}

OneWord == {{0, 23}}

(* External: the value comes from the keyboard gem.                        *)
NilWord == {24}
=============================================================================
