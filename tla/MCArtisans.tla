------------------------------ MODULE MCArtisans ------------------------------
(***************************************************************************)
(* Instances of Artisans for TLC: two requests at a time and two services  *)
(* of two categories, asked for alone and in both orders.                  *)
(***************************************************************************)
EXTENDS Artisans, TLC

CONSTANTS c1, c2, plumbing, painting, pipes, walls

TwoCalls == {c1, c2}
TwoCategories == {plumbing, painting}
TwoServices == {pipes, walls}
ServiceCategory == (pipes :> plumbing) @@ (walls :> painting)
Lists == {<<pipes>>, <<walls>>, <<pipes, walls>>, <<walls, pipes>>, <<pipes, pipes>>}
Symmetry == Permutations(TwoCalls)
=============================================================================
