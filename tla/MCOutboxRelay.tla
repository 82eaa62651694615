---------------------------- MODULE MCOutboxRelay ----------------------------
(***************************************************************************)
(* Instances of OutboxRelay for TLC: two booking loops that share every    *)
(* booking event.                                                          *)
(***************************************************************************)
EXTENDS OutboxRelay, TLC

CONSTANTS w1, w2

MCServices == {"booking", "quote"}

\* Two loops on one prefix.
TwoLoops == {w1, w2}
TwoLoopsServe == [w \in TwoLoops |-> "booking"]
BookingEvents == [e \in Events |-> "booking"]

LastMalformed == {NumEvents}
=============================================================================
