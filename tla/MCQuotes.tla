------------------------------- MODULE MCQuotes -------------------------------
(***************************************************************************)
(* Instances of Quotes for TLC: two calls at a time on up to three quotes. *)
(***************************************************************************)
EXTENDS Quotes, TLC

CONSTANTS h1, h2

TwoHandlers == {h1, h2}
=============================================================================
