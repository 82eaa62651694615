------------------------------ MODULE MCPayments ------------------------------
(***************************************************************************)
(* Instances of Payments for TLC: two handlers that overlap.               *)
(***************************************************************************)
EXTENDS Payments, TLC

CONSTANTS h1, h2

TwoHandlers == {h1, h2}
=============================================================================
