------------------------------ MODULE MCProfiles ------------------------------
(***************************************************************************)
(* Instances of Profiles for TLC: two requests at a time, a profile of     *)
(* three fields, all but the avatar key ones, and three addresses.         *)
(***************************************************************************)
EXTENDS Profiles, TLC

CONSTANTS c1, c2, a1, a2, a3, names, phone, avatar

TwoCalls == {c1, c2}
ThreeFields == {names, phone, avatar}
TwoKeyFields == {names, phone}
ThreeAddresses == {a1, a2, a3}
Symmetry == Permutations(TwoCalls) \cup Permutations(ThreeAddresses)
                \cup Permutations(TwoKeyFields)
=============================================================================
