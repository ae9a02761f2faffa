--------------------------- MODULE MCMachineTimer ---------------------------
(***************************************************************************)
(* Small instances of MachineTimer: a timer of the script's next to one of *)
(* the GPU's, and two timers of the script's.                              *)
(***************************************************************************)
EXTENDS MachineTimer
=============================================================================
