----------------------------- MODULE MCChatStream -----------------------------
(***************************************************************************)
(* An instance of ChatStream for TLC: two connections, a message of the    *)
(* customer (a second would be the system's), channels with room for one.  *)
(***************************************************************************)
EXTENDS ChatStream, TLC

CONSTANTS c1, c2

TwoClients == {c1, c2}
MCUsers == {"customer", "artisan", "system"}
MCSender == [m \in 1..NumMessages |-> IF m = 1 THEN "customer" ELSE "system"]
=============================================================================
