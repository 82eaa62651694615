---------------------------- MODULE QuoteLifecycle ----------------------------
(***************************************************************************)
(* What the quote service promises about the quotes of one booking: they   *)
(* are numbered without gaps, at most one is open at a time, and a quote   *)
(* that has been settled stays as it is.  Quotes implements this.          *)
(***************************************************************************)
EXTENDS Naturals

CONSTANT MaxQuotes

VARIABLE state

Quotes == 1..MaxQuotes
Settled == {"accepted", "rejected", "expired", "superseded"}

Init == state = [q \in Quotes |-> "none"]

Propose(q) ==
    /\ state[q] = "none"
    /\ \A p \in 1..(q - 1) : state[p] \in Settled
    /\ state' = [state EXCEPT ![q] = "proposed"]

Settle(q) ==
    /\ state[q] = "proposed"
    /\ \E s \in Settled : state' = [state EXCEPT ![q] = s]

Next == \E q \in Quotes : Propose(q) \/ Settle(q)

Spec == Init /\ [][Next]_state
=============================================================================
