--------------------------- MODULE MCBookingCreation ---------------------------
(***************************************************************************)
(* An instance of BookingCreation for TLC: one key used by its owner, with *)
(* a second request and a repetition that names an artisan, and by another *)
(* user; and a request without a key.                                      *)
(***************************************************************************)
EXTENDS BookingCreation, TLC

CONSTANTS c1, c2, k1

MCCalls == {c1, c2}
Symmetry == Permutations(MCCalls)
MCKeys == {k1}

MCRequests ==
    {[user |-> 1, key |-> k1, hash |-> 1, specific |-> FALSE],
     [user |-> 1, key |-> k1, hash |-> 1, specific |-> TRUE],
     [user |-> 1, key |-> k1, hash |-> 2, specific |-> FALSE],
     [user |-> 2, key |-> k1, hash |-> 1, specific |-> FALSE],
     [user |-> 1, key |-> NoKey, hash |-> 1, specific |-> TRUE]}
=============================================================================
