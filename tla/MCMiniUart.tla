----------------------------- MODULE MCMiniUart -----------------------------
(***************************************************************************)
(* Small instances of MiniUart.  The ring has three slots and the line     *)
(* carries more than twice as many characters, so that the handler can     *)
(* overrun the ring several times within one read.                         *)
(***************************************************************************)
EXTENDS MiniUart
=============================================================================
