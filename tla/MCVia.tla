------------------------------- MODULE MCVia -------------------------------
(***************************************************************************)
(* A small instance of Via for TLC.                                        *)
(***************************************************************************)
EXTENDS Via

NoMotion == {0}
AllEvents == {"suspend", "reset"}
TwoLeds == {0, 4}
=============================================================================
