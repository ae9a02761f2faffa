------------------------------ MODULE MCSysTime ------------------------------
(***************************************************************************)
(* Small instances of SysTime: a clock with words of a few values, so that *)
(* the carry into the high word falls between any two reads, and a delay   *)
(* of 3 ms is longer than a word of microseconds.                          *)
(***************************************************************************)
EXTENDS SysTime
=============================================================================
