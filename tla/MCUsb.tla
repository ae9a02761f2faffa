------------------------------- MODULE MCUsb -------------------------------
(* Constants of the USB host. *)
EXTENDS UsbHost
=============================================================================
