---------------------------- MODULE EventDelivery ----------------------------
(***************************************************************************)
(* What the outbox relay promises a producer, and no more: an event that a *)
(* service has accepted into the outbox reaches the broker AT MOST ONCE,   *)
(* and an event that was buried in the dead-letter state never reaches it. *)
(* OutboxRelay implements this specification.                              *)
(***************************************************************************)
EXTENDS Naturals

CONSTANT Events

VARIABLES
    accepted,   \* events the producers have handed over
    copies,     \* how many copies of each event the broker holds
    dead        \* events given up on before anything was sent

vars == <<accepted, copies, dead>>

Init ==
    /\ accepted = {}
    /\ copies = [e \in Events |-> 0]
    /\ dead = {}

Accept(e) ==
    /\ e \notin accepted
    /\ accepted' = accepted \union {e}
    /\ UNCHANGED <<copies, dead>>

Deliver(e) ==
    /\ e \in accepted \ dead
    /\ copies[e] = 0
    /\ copies' = [copies EXCEPT ![e] = 1]
    /\ UNCHANGED <<accepted, dead>>

Bury(e) ==
    /\ e \in accepted \ dead
    /\ copies[e] = 0
    /\ dead' = dead \union {e}
    /\ UNCHANGED <<accepted, copies>>

Next == \E e \in Events : Accept(e) \/ Deliver(e) \/ Bury(e)

Spec == Init /\ [][Next]_vars
=============================================================================
