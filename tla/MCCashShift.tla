---------------------------- MODULE MCCashShift ----------------------------
(* A small instance of the cash shifts for TLC. *)
EXTENDS CashShift, TLC
=============================================================================
