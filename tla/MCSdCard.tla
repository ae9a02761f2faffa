------------------------------ MODULE MCSdCard ------------------------------
(***************************************************************************)
(* Small instances of SdCard.  A block has SECTOR = 2 bytes, so that block *)
(* 1 taken for a byte address and byte 2 taken for a block number fall on  *)
(* another block of the card.                                              *)
(***************************************************************************)
EXTENDS SdCard

\* Block-addressed cards with no feature the driver uses, with one and with
\* two; "CCS" in the register itself is the lowest bit of SD_SPEC.
HighCards ==
  [high : {TRUE}, scr : {{}, {"WIDTH_4", "CCS"}, {"WIDTH_4", "SET_BLKCNT"}}]
OneLow == {[high |-> FALSE, scr |-> {"WIDTH_4"}]}
=============================================================================
