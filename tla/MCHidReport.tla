---------------------------- MODULE MCHidReport ----------------------------
(***************************************************************************)
(* Small instances of HidReport for TLC.  Mouse steps of 64 and -64 make   *)
(* an axis wrap in a few merges while it takes four values only.           *)
(***************************************************************************)
EXTENDS HidReport

NoMotion == {0}
AnySteps == {0, 64, -64}

NoEvents == {}
SuspendOnly == {"suspend"}
AllEvents == {"suspend", "reset"}
=============================================================================
