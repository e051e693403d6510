------------------------------ MODULE MCUsbhMem ------------------------------
(* Model checking of UsbhMem on a small pool. *)
EXTENDS UsbhMem
==============================================================================
