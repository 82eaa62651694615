------------------------------ MODULE MCAccounts ------------------------------
(***************************************************************************)
(* Instances of Accounts for TLC: two calls at a time, two passwords, one  *)
(* reset token and one verification token.                                 *)
(***************************************************************************)
EXTENDS Accounts, TLC

CONSTANTS c1, c2, p1, p2

TwoCalls == {c1, c2}
TwoPasswords == {p1, p2}
Symmetry == Permutations(TwoCalls) \cup Permutations(TwoPasswords)
=============================================================================
