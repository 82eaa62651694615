------------------------------ MODULE MCBooking ------------------------------
(***************************************************************************)
(* Instances of Booking for TLC: two handlers at a time, from a new        *)
(* booking, and from one whose quote has just been accepted.               *)
(***************************************************************************)
EXTENDS Booking, TLC

CONSTANTS h1, h2, a1, a2, q1, q2, k1, k2

TwoHandlers == {h1, h2}
TwoArtisans == {a1, a2}
OneQuote == {q1}
TwoKeys == {k1, k2}
AllRoles == {"customer", "artisan", "admin"}

\* The state after an offer to a1 and the acceptance of quote q1.
InitQuoteAccepted ==
    /\ booking = [status |-> "quote_accepted", artisan |-> a1,
                  reservation |-> NoKey, version |-> 5]
    /\ offer = [a \in Artisans |-> IF a = a1 THEN "accepted" ELSE "none"]
    /\ offerLapsed = {} /\ lapsed = {}
    /\ call = [h \in Handlers |-> Idle]
    /\ pc = [h \in Handlers |-> "idle"]
    /\ seen = [h \in Handlers |-> NotRead]
    /\ event = [h \in Handlers |-> NoEvent]
    /\ outbox = 5
    /\ quotes = [q \in Quotes |-> IF q = q1 THEN "accepted" ELSE "none"]
    /\ payments = [k \in Keys |-> "none"]
    /\ calls = 0 /\ crashes = 0

\* Both beginnings, under the fairness of FairSpec.
SpecBothStarts ==
    /\ Init \/ InitQuoteAccepted
    /\ [][Next]_vars
    /\ Fairness
=============================================================================
