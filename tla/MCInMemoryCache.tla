--------------------------- MODULE MCInMemoryCache ---------------------------
(***************************************************************************)
(* Instances of InMemoryCache for TLC: two callers, two keys of which one  *)
(* has the prefix that is purged, and room for two entries.                *)
(***************************************************************************)
EXTENDS InMemoryCache, TLC

CONSTANTS c1, c2, k1, k2

TwoCallers == {c1, c2}
TwoKeys == {k1, k2}
OneKey == {k1}
=============================================================================
