------------------------------ MODULE MCSdMount ------------------------------
(***************************************************************************)
(* Small instances of SdMount: one card of each kind, four partitions.     *)
(***************************************************************************)
EXTENDS SdMount

OneHigh == {[high |-> TRUE, scr |-> {"WIDTH_4"}]}
OneLow  == {[high |-> FALSE, scr |-> {"WIDTH_4"}]}
=============================================================================
