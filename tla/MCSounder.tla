----------------------------- MODULE MCSounder -----------------------------
(***************************************************************************)
(* A small instance of Sounder for TLC: three notes, with a rest, and a    *)
(* shorter song with a note of length 0 before its end.                    *)
(***************************************************************************)
EXTENDS Sounder

N(hz, len) == [hz |-> hz, len |-> len]
TwoSongs == {<<N(3, 1), N(0, 1), N(5, 2)>>,
             <<N(4, 1), N(4, 0), N(5, 1)>>,
             <<N(6, 1)>>}
=============================================================================
