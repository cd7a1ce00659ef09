------------------------------- MODULE MCPio -------------------------------
(* Colours of two bits, three with white, and a buffer of three LEDs, of   *)
(* which one or all are sent: more words than the FIFO holds.              *)
EXTENDS Pio

OneBuffer == {<< <<1, 0, 1>>, <<0, 1, 0>>, <<1, 1, 0>> >>}
OneAndThree == {1, 3}

ShortNotes == {<<0, 1>>, <<1, 0>>}
=============================================================================
