------------------------------- MODULE MCI2c -------------------------------
(***************************************************************************)
(* Two slaves that answer and one that does not, a FIFO shorter than the   *)
(* longest buffer.                                                         *)
(***************************************************************************)
EXTENDS I2c

CONSTANTS a1, a2, a3

AllAddrs   == {a1, a2, a3}
ThoseThere == {a1, a2}
=============================================================================
