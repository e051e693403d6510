------------------------------ MODULE MCHwPool ------------------------------
(* The pool of hardware units for TLC.                                     *)
EXTENDS HwPool
==============================================================================
