------------------------------- MODULE Booking -------------------------------
(***************************************************************************)
(* One booking and the handlers that write its row: the customer's and the *)
(* artisan's requests, the offer-expiry job, the payment service's private *)
(* calls and the subscribers to quote and payment events.                  *)
(*                                                                         *)
(* Every handler reads, decides, and later writes what it read, guarded    *)
(* only by the row's version (repository/booking.go Update); other         *)
(* handlers run in between.  A transaction commits in the booking database *)
(* first and in the core database, which holds the outbox, second, and the *)
(* process may die between the two.                                        *)
(*                                                                         *)
(* A call whose checks fail has no effect and is not represented.  An      *)
(* offer is named by the artisan it is made to; a payment reservation by   *)
(* its (quote, key) pair.  Offer counts, reasons and wording are left out. *)
(***************************************************************************)
EXTENDS Naturals, FiniteSets

CONSTANTS
    Handlers,       \* handler invocations that may run at the same time
    Artisans,       \* artisans the booking may be offered to
    Quotes, Keys,   \* quotes, payment reservations
    Roles,          \* roles that call UpdateBookingStatus
    NoArtisan, NoKey,
    MaxCalls,       \* bound: calls and deliveries in a behaviour
    MaxCrashes      \* bound: handlers that die

ASSUME ParametersAssumption ==
    /\ IsFiniteSet(Handlers)
    /\ NoArtisan \notin Artisans /\ NoKey \notin Keys
    /\ Roles \subseteq {"customer", "artisan", "admin"}
    /\ MaxCalls \in Nat /\ MaxCrashes \in Nat

VARIABLES
    booking,        \* the booking row
    offer,          \* status of the offer made to each artisan
    offerLapsed,    \* offers whose expires_at has passed
    lapsed,         \* reservations whose reserved_until has passed
    call, pc,       \* what each handler executes, and where it is
    seen,           \* the booking row each handler read
    event,          \* the outbox event each handler's transaction inserts, and the version
                    \* of the row its previous status was read from (not in the code)
    outbox,         \* number of status events committed to the outbox
    quotes,         \* the quote service's view of each quote
    payments,       \* the payment service's view of each reservation
    calls, crashes

vars == <<booking, offer, offerLapsed, lapsed, call, pc, seen, event, outbox,
          quotes, payments, calls, crashes>>

BookingStatus ==
    {"requested", "offer_pending", "offer_rejected", "assigned", "pending_quote",
     "quote_proposed", "quote_accepted", "payment_pending", "confirmed", "enroute",
     "in_progress", "completion_pending", "completed", "cancelled", "closed"}

OfferStatus == {"none", "pending", "accepted", "rejected", "expired", "cancelled"}

validTransitions ==
    [from \in BookingStatus |->
        CASE from = "requested"          -> {"offer_pending", "cancelled"}
          [] from = "offer_pending"      -> {"assigned", "offer_rejected", "cancelled"}
          [] from = "offer_rejected"     -> {"offer_pending", "cancelled"}
          [] from = "assigned"           -> {"pending_quote", "cancelled"}
          [] from = "pending_quote"      -> {"quote_proposed", "cancelled"}
          [] from = "quote_proposed"     -> {"quote_accepted", "cancelled"}
          [] from = "quote_accepted"     -> {"payment_pending", "cancelled"}
          [] from = "payment_pending"    -> {"confirmed", "cancelled", "quote_accepted", "assigned"}
          [] from = "confirmed"          -> {"enroute", "cancelled"}
          [] from = "enroute"            -> {"in_progress", "cancelled"}
          [] from = "in_progress"        -> {"completion_pending"}
          [] from = "completion_pending" -> {"completed"}
          [] from = "completed"          -> {"closed"}
          [] OTHER                       -> {}]

CanTransition(from, to) == to \in validTransitions[from]

-----------------------------------------------------------------------------
(***************************************************************************)
(* What each handler requires of the row it reads, and what it makes of it.*)
(***************************************************************************)

Calls ==
    [op : {"CreateOffer", "AcceptOffer", "RejectOffer", "ExpireOffer"}, arg : Artisans]
    \union [op : {"UpdateBookingStatus"}, arg : BookingStatus]
    \union [op : {"CancelBooking"}, arg : {NoArtisan}]
    \union [op : {"OnQuoteProposed", "OnQuoteAccepted", "OnQuoteRejected"}, arg : Quotes]
    \union [op : {"MarkPaymentPending", "ReleasePaymentReservation",
                  "OnPaymentConfirmed", "OnPaymentFailed"}, arg : Keys]

CancellableFrom == {s \in BookingStatus : CanTransition(s, "cancelled")}

\* internal/authz.go: the status each role may write, and from which one.
AuthorizeStatusUpdate(role, from, to) ==
    \/ role = "admin"
    \/ role = "customer" /\ to = "cancelled" /\ from \in CancellableFrom
    \/ role = "customer" /\ <<from, to>> \in {<<"completion_pending", "completed">>,
                                              <<"completed", "closed">>}
    \/ role = "artisan" /\ <<from, to>> \in {<<"confirmed", "enroute">>,
                                             <<"enroute", "in_progress">>,
                                             <<"in_progress", "completion_pending">>}

\* domain/offer_validator.go, the parts that look at the booking.
ValidateOfferCreation(b) == b.status = "requested" /\ b.artisan = NoArtisan
ValidateOfferAcceptance(b) == b.artisan = NoArtisan

\* Mutant: the expiry job only handles bookings it expects.
MayExpireOfferPending(b) == b.status = "offer_pending"

\* expireOffer writes over whatever status it finds.
MayExpire(b) == TRUE

canApplyQuoteProposedEvent(status) ==
    status \in {"assigned", "pending_quote", "quote_proposed"}

PaymentReservationMatches(b, k) == b.reservation = k

\* Mutant: the comparison with the clock is the wrong way round.
ExpiredInverted(b) == b.reservation = NoKey \/ b.reservation \notin lapsed

PaymentReservationExpired(b) == b.reservation = NoKey \/ b.reservation \in lapsed

MayReserve(b, k) ==
    \/ b.status = "quote_accepted"
    \/ /\ b.status = "payment_pending"
       /\ ~PaymentReservationMatches(b, k)
       /\ PaymentReservationExpired(b)

MaySettle(b, k) == b.status = "payment_pending" /\ PaymentReservationMatches(b, k)

\* The decision a handler takes on the row b it has just read.
Permits(c, b) ==
    \/ c.op = "CreateOffer" /\ ValidateOfferCreation(b)
    \/ c.op = "AcceptOffer" /\ ValidateOfferAcceptance(b)
    \/ c.op = "ExpireOffer" /\ MayExpire(b)
    \/ c.op \in {"RejectOffer", "OnQuoteAccepted", "OnQuoteRejected"}
    \/ /\ c.op = "UpdateBookingStatus"
       /\ \E role \in Roles : AuthorizeStatusUpdate(role, b.status, c.arg)
       /\ CanTransition(b.status, c.arg)
    \/ c.op = "CancelBooking" /\ b.status \in CancellableFrom
    \/ c.op = "OnQuoteProposed" /\ canApplyQuoteProposedEvent(b.status)
    \/ c.op = "MarkPaymentPending" /\ MayReserve(b, c.arg)
    \/ /\ c.op \in {"ReleasePaymentReservation", "OnPaymentConfirmed", "OnPaymentFailed"}
       /\ MaySettle(b, c.arg)

Target(c) ==
    IF c.op = "UpdateBookingStatus" THEN c.arg
    ELSE [CreateOffer |-> "offer_pending", AcceptOffer |-> "assigned",
          RejectOffer |-> "offer_rejected", ExpireOffer |-> "offer_rejected",
          CancelBooking |-> "cancelled", OnQuoteProposed |-> "quote_proposed",
          OnQuoteAccepted |-> "quote_accepted", OnQuoteRejected |-> "assigned",
          MarkPaymentPending |-> "payment_pending",
          ReleasePaymentReservation |-> "quote_accepted",
          OnPaymentConfirmed |-> "confirmed",
          OnPaymentFailed |-> "quote_accepted"][c.op]

\* The row written back: what was read, with the handler's changes.
Written(c, b) ==
    [status |-> Target(c),
     artisan |-> IF c.op = "AcceptOffer" THEN c.arg ELSE b.artisan,
     reservation |->
        IF c.op = "MarkPaymentPending" THEN c.arg
        ELSE IF c.op \in {"ReleasePaymentReservation", "OnPaymentConfirmed", "OnPaymentFailed"}
             THEN NoKey ELSE b.reservation,
     version |-> b.version + 1]

\* The offers after the statements of the same transaction, none of which
\* looks at the status it overwrites.
OffersAfter(c) ==
    [a \in Artisans |->
        IF a = c.arg /\ c.op = "CreateOffer" THEN "pending"
        ELSE IF a = c.arg /\ c.op = "AcceptOffer" THEN "accepted"
        ELSE IF a = c.arg /\ c.op = "RejectOffer" THEN "rejected"
        ELSE IF a = c.arg /\ c.op = "ExpireOffer" THEN "expired"
        ELSE IF c.op = "AcceptOffer" /\ offer[a] = "pending" THEN "cancelled"
        ELSE offer[a]]

-----------------------------------------------------------------------------

NoEvent == [previous |-> "none", status |-> "none", version |-> 0]
StatusEvent(c) == [previous |-> booking.status, status |-> Target(c), version |-> booking.version]
Idle == [op |-> "none", arg |-> NoArtisan]
\* The row CreateBooking inserts; also the snapshot of a handler that has none.
NotRead == [status |-> "requested", artisan |-> NoArtisan, reservation |-> NoKey, version |-> 1]

Init ==
    /\ booking = NotRead
    /\ offer = [a \in Artisans |-> "none"]
    /\ offerLapsed = {} /\ lapsed = {}
    /\ call = [h \in Handlers |-> Idle]
    /\ pc = [h \in Handlers |-> "idle"]
    /\ seen = [h \in Handlers |-> NotRead]
    /\ event = [h \in Handlers |-> NoEvent]
    /\ outbox = 1
    /\ quotes = [q \in Quotes |-> "none"]
    /\ payments = [k \in Keys |-> "none"]
    /\ calls = 0 /\ crashes = 0

\* What a caller must have in hand: an offer's id, an event the other
\* service has published, the key of a payment still open.
Invocable(c) ==
    \/ c.op = "CreateOffer" /\ offer[c.arg] = "none"
    \/ c.op \in {"UpdateBookingStatus", "CancelBooking"}
    \/ c.op = "OnQuoteProposed" /\ quotes[c.arg] # "none"
    \/ c.op = "OnQuoteAccepted" /\ quotes[c.arg] = "accepted"
    \/ c.op = "OnQuoteRejected" /\ quotes[c.arg] = "rejected"
    \/ c.op = "MarkPaymentPending" /\ payments[c.arg] \in {"none", "reserved"}
    \/ c.op = "ReleasePaymentReservation" /\ payments[c.arg] = "reserved"
    \/ c.op = "OnPaymentConfirmed" /\ payments[c.arg] = "confirmed"
    \/ c.op = "OnPaymentFailed" /\ payments[c.arg] = "failed"

Counted == calls < MaxCalls /\ calls' = calls + 1

World == <<booking, offer, offerLapsed, lapsed, outbox, quotes, payments>>

\* The handlers whose first statement reads the booking.
Begin(h, c) ==
    /\ pc[h] = "idle" /\ Counted
    /\ c.op \notin {"AcceptOffer", "RejectOffer", "ExpireOffer"}
    /\ Invocable(c) /\ Permits(c, booking)
    /\ call' = [call EXCEPT ![h] = c]
    /\ seen' = [seen EXCEPT ![h] = booking]
    /\ event' = [event EXCEPT ![h] = StatusEvent(c)]
    /\ pc' = [pc EXCEPT ![h] = "loaded"]
    /\ UNCHANGED World /\ UNCHANGED crashes

\* AcceptOffer and RejectOffer first read the offer, outside the transaction:
\* it must be pending and not expired.
BeginResponse(h, c) ==
    /\ pc[h] = "idle" /\ Counted
    /\ c.op \in {"AcceptOffer", "RejectOffer"}
    /\ offer[c.arg] = "pending" /\ c.arg \notin offerLapsed
    /\ call' = [call EXCEPT ![h] = c]
    /\ pc' = [pc EXCEPT ![h] = IF c.op = "AcceptOffer" THEN "offerRead" ELSE "validated"]
    /\ UNCHANGED World /\ UNCHANGED <<seen, event, crashes>>

\* ValidateOfferAcceptance, and the status AcceptOffer will report as previous.
ValidateAcceptance(h) ==
    /\ pc[h] = "offerRead"
    /\ Permits(call[h], booking)
    /\ event' = [event EXCEPT ![h] = StatusEvent(call[h])]
    /\ pc' = [pc EXCEPT ![h] = "validated"]
    /\ UNCHANGED World /\ UNCHANGED <<call, seen, calls, crashes>>

\* The cron job: the offer is found expired and re-read in the transaction.
BeginExpiry(h, c) ==
    /\ pc[h] = "idle"
    /\ c.op = "ExpireOffer"
    /\ offer[c.arg] = "pending" /\ c.arg \in offerLapsed
    /\ call' = [call EXCEPT ![h] = c]
    /\ pc' = [pc EXCEPT ![h] = "validated"]
    /\ UNCHANGED World /\ UNCHANGED <<seen, event, calls, crashes>>

\* The booking is read inside the transaction.
Load(h) ==
    /\ pc[h] = "validated"
    /\ Permits(call[h], booking)
    /\ seen' = [seen EXCEPT ![h] = booking]
    /\ event' = IF call[h].op = "AcceptOffer" THEN event
                ELSE [event EXCEPT ![h] = StatusEvent(call[h])]
    /\ pc' = [pc EXCEPT ![h] = "loaded"]
    /\ UNCHANGED World /\ UNCHANGED <<call, calls, crashes>>

Finish(h) ==
    /\ pc' = [pc EXCEPT ![h] = "idle"]
    /\ call' = [call EXCEPT ![h] = Idle]
    /\ event' = [event EXCEPT ![h] = NoEvent]
    /\ seen' = [seen EXCEPT ![h] = NotRead]

Refuse(h) ==
    /\ pc[h] \in {"offerRead", "validated"}
    /\ ~Permits(call[h], booking)
    /\ Finish(h)
    /\ UNCHANGED World /\ UNCHANGED <<calls, crashes>>

\* Mutant: the row is updated by id alone.
VersionIgnored(h) == TRUE

\* UPDATE ... WHERE id = ? AND version = ?
VersionMatches(h) == seen[h].version = booking.version

\* The booking database commits: the row and the offers together.
CommitBooking(h) ==
    /\ pc[h] = "loaded" /\ VersionMatches(h)
    /\ booking' = Written(call[h], seen[h])
    /\ offer' = OffersAfter(call[h])
    /\ pc' = [pc EXCEPT ![h] = "committed"]
    /\ payments' = IF call[h].op = "MarkPaymentPending"
                   THEN [payments EXCEPT ![call[h].arg] = "reserved"] ELSE payments
    /\ lapsed' = IF call[h].op = "MarkPaymentPending" THEN lapsed \ {call[h].arg} ELSE lapsed
    /\ UNCHANGED <<offerLapsed, call, seen, event, outbox, quotes, calls, crashes>>

\* Mutant: the lock failure is swallowed and the event is sent.
ConflictSwallowed(h) ==
    /\ pc[h] = "loaded" /\ ~VersionMatches(h)
    /\ outbox' = outbox + 1
    /\ Finish(h)
    /\ UNCHANGED <<booking, offer, offerLapsed, lapsed, quotes, payments, calls, crashes>>

\* Optimistic lock failure: the whole transaction is rolled back.
Conflict(h) ==
    /\ pc[h] = "loaded" /\ ~VersionMatches(h)
    /\ Finish(h)
    /\ UNCHANGED World /\ UNCHANGED <<calls, crashes>>

\* The enclosing core transaction commits, with the event.
CommitOutbox(h) ==
    /\ pc[h] = "committed"
    /\ outbox' = outbox + 1
    /\ Finish(h)
    /\ UNCHANGED <<booking, offer, offerLapsed, lapsed, quotes, payments, calls, crashes>>

\* The process dies, or a statement or a commit fails.
Crash(h) ==
    /\ pc[h] # "idle" /\ crashes < MaxCrashes
    /\ crashes' = crashes + 1
    /\ Finish(h)
    /\ UNCHANGED World /\ UNCHANGED calls

-----------------------------------------------------------------------------
(***************************************************************************)
(* The clock, the quote service and the payment service.                   *)
(***************************************************************************)

OfferLapses(a) ==
    /\ offer[a] = "pending" /\ a \notin offerLapsed
    /\ offerLapsed' = offerLapsed \union {a}
    /\ UNCHANGED <<booking, offer, lapsed, call, pc, seen, event, outbox, quotes, payments,
                   calls, crashes>>

ReservationLapses(k) ==
    /\ booking.reservation = k /\ k \notin lapsed
    /\ lapsed' = lapsed \union {k}
    /\ UNCHANGED <<booking, offer, offerLapsed, call, pc, seen, event, outbox, quotes,
                   payments, calls, crashes>>

\* A quote is proposed by the assigned artisan and decided once.
QuoteChanges(q) ==
    /\ \/ /\ quotes[q] = "none" /\ booking.artisan # NoArtisan
          /\ quotes' = [quotes EXCEPT ![q] = "proposed"]
       \/ /\ quotes[q] = "proposed"
          /\ \E decision \in {"accepted", "rejected"} :
                quotes' = [quotes EXCEPT ![q] = decision]
    /\ UNCHANGED <<booking, offer, offerLapsed, lapsed, call, pc, seen, event, outbox,
                   payments, calls, crashes>>

\* The provider settles the payment made under a reservation.
PaymentSettles(k) ==
    /\ payments[k] = "reserved"
    /\ \E outcome \in {"confirmed", "failed"} :
          payments' = [payments EXCEPT ![k] = outcome]
    /\ UNCHANGED <<booking, offer, offerLapsed, lapsed, call, pc, seen, event, outbox,
                   quotes, calls, crashes>>

Progress(h) ==
    \/ ValidateAcceptance(h) \/ Load(h) \/ Refuse(h)
    \/ CommitBooking(h) \/ Conflict(h) \/ CommitOutbox(h)

Environment ==
    \/ \E a \in Artisans : OfferLapses(a)
    \/ \E k \in Keys : ReservationLapses(k) \/ PaymentSettles(k)
    \/ \E q \in Quotes : QuoteChanges(q)

Next ==
    \/ \E h \in Handlers, c \in Calls : Begin(h, c) \/ BeginResponse(h, c) \/ BeginExpiry(h, c)
    \/ \E h \in Handlers : Progress(h) \/ Crash(h)
    \/ Environment

Spec == Init /\ [][Next]_vars

ExpiryJob == \E h \in Handlers, a \in Artisans :
                BeginExpiry(h, [op |-> "ExpireOffer", arg |-> a])

\* Handlers that have started finish, and the expiry job runs every 10 minutes.
Fairness == (\A h \in Handlers : WF_vars(Progress(h))) /\ WF_vars(ExpiryJob)

FairSpec == Spec /\ Fairness

-----------------------------------------------------------------------------

Row == [status : BookingStatus, artisan : Artisans \union {NoArtisan},
        reservation : Keys \union {NoKey}, version : Nat]

EventType == [previous : BookingStatus \union {"none"}, status : BookingStatus \union {"none"},
              version : Nat]

TypeOK ==
    /\ booking \in Row
    /\ offer \in [Artisans -> OfferStatus]
    /\ offerLapsed \subseteq Artisans /\ lapsed \subseteq Keys
    /\ call \in [Handlers -> Calls \union {Idle}]
    /\ pc \in [Handlers -> {"idle", "offerRead", "validated", "loaded", "committed"}]
    /\ seen \in [Handlers -> Row]
    /\ event \in [Handlers -> EventType]
    /\ outbox \in Nat
    /\ quotes \in [Quotes -> {"none", "proposed", "accepted", "rejected"}]
    /\ payments \in [Keys -> {"none", "reserved", "confirmed", "failed"}]
    /\ calls \in Nat /\ crashes \in Nat

\* A booking is offered once in its life: 'requested' is left with the first
\* offer and nothing leads back, however many callers race to offer it.
OneOffer == Cardinality({a \in Artisans : offer[a] # "none"}) <= 1

\* An offer recorded as accepted is the one that assigned the booking.
AcceptedOfferAssigns == \A a \in Artisans : offer[a] = "accepted" => booking.artisan = a

\* Every status change leaves one event in the outbox unless the process died
\* between the two commits, and no event tells of a change that was undone.
EventsAccountedFor ==
    LET inFlight == Cardinality({h \in Handlers : pc[h] = "committed"})
    IN  /\ outbox + inFlight <= booking.version
        /\ booking.version <= outbox + inFlight + crashes

Commits(h) == pc[h] = "loaded" /\ pc'[h] = "committed"

\* The operations that write a status without looking at the one they replace:
\* the answers to an offer, its expiry, and the decision of a quote.
Unguarded == {"AcceptOffer", "RejectOffer", "ExpireOffer", "OnQuoteAccepted", "OnQuoteRejected"}

\* A customer's, artisan's or admin's request is legal for the status it
\* replaces, not only for the one it was validated against; and nothing but an
\* answer to an offer, its expiry or a quote's decision brings a booking back
\* that was cancelled or closed.
RequestsFollowTheTable ==
    [][\A h \in Handlers : Commits(h) =>
          /\ call[h].op \in {"UpdateBookingStatus", "CancelBooking"}
                => CanTransition(booking.status, booking'.status)
          /\ booking.status \in {"cancelled", "closed"} => call[h].op \in Unguarded]_vars

\* While a reservation is live, a booking that is waiting for its payment is
\* not handed to another payment.
LiveReservationHeld ==
    [][booking.status = "payment_pending" /\ booking.reservation \in Keys \ lapsed
       /\ booking'.status = "payment_pending"
         => booking'.reservation = booking.reservation]_vars

\* A payment's outcome moves the booking only while the booking is still
\* reserved for that very payment.
OutcomeMatchesReservation ==
    [][\A h \in Handlers :
          Commits(h) /\ call[h].op \in {"OnPaymentConfirmed", "OnPaymentFailed",
                                        "ReleasePaymentReservation"}
            => booking.status = "payment_pending" /\ booking.reservation = call[h].arg]_vars

\* A payment that competes with another for the booking neither takes a live
\* reservation over nor settles a booking that is reserved for the other.
ReservationsRespected == LiveReservationHeld /\ OutcomeMatchesReservation

\* The event of a change names the status that was really replaced.  AcceptOffer, which
\* reports the status it validated before its transaction, may name an older one, but
\* only when the row was changed between the two.
PreviousStatusIsTrue ==
    [][\A h \in Handlers : Commits(h) =>
          \/ event[h].previous = booking.status
          \/ call[h].op = "AcceptOffer" /\ event[h].version < booking.version]_vars

\* An artisan, once assigned, is never exchanged for another.
ArtisanNeverReplaced ==
    [][booking.artisan # NoArtisan => booking'.artisan = booking.artisan]_vars

\* An offer that has lapsed does not stay pending: the expiry job or an answer
\* that was under way settles it.
LapsedOfferSettles ==
    \A a \in Artisans : (offer[a] = "pending" /\ a \in offerLapsed) ~> offer[a] # "pending"
=============================================================================
