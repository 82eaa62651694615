---------------------------- MODULE BookingProofs ----------------------------
(***************************************************************************)
(* Proofs about Booking, for any number of handlers, artisans, quotes and  *)
(* reservations, and any number of calls and crashes.                      *)
(*                                                                         *)
(* Everything rests on the version check.  Versions only grow, so a        *)
(* handler whose copy of the row has the row's version has the row itself, *)
(* and the decision it took on the copy is still right (FreshAt); a commit *)
(* is then a step from the row as it is (CommitOnTop).                     *)
(***************************************************************************)
EXTENDS Booking, FiniteSetTheorems, TLAPS

\* Every handler writes a status of the life cycle.
LEMMA TargetIsStatus == \A c \in Calls : Target(c) \in BookingStatus
<1> SUFFICES ASSUME NEW c \in Calls PROVE Target(c) \in BookingStatus
  OBVIOUS
<1>1. CASE c.op = "UpdateBookingStatus"
  BY <1>1 DEF Target, Calls
<1>2. CASE c.op # "UpdateBookingStatus"
  BY <1>2 DEF Target, Calls, BookingStatus
<1> QED BY <1>1, <1>2

\* The transition table leads nowhere back to 'requested'.
LEMMA NeverRequested ==
    \A from \in BookingStatus : "requested" \notin validTransitions[from]
BY DEF validTransitions, BookingStatus

\* The row a handler writes back is a row.
LEMMA WrittenIsRow == \A c \in Calls, b \in Row : Written(c, b) \in Row
BY TargetIsStatus DEF Written, Row, Calls

\* The statements on the offers leave them with a status of the schema.
LEMMA OffersAreOffers ==
    ASSUME NEW c \in Calls, offer \in [Artisans -> OfferStatus]
    PROVE  OffersAfter(c) \in [Artisans -> OfferStatus]
BY DEF OffersAfter, OfferStatus

\* A handler that is not idle executes a call.
Occupied == \A h \in Handlers : pc[h] # "idle" => call[h] \in Calls

Typed == TypeOK /\ Occupied

\* Ending a call keeps the handlers within their types.
LEMMA FinishType ==
    ASSUME Typed, NEW h \in Handlers, Finish(h)
    PROVE  /\ call' \in [Handlers -> Calls \union {Idle}]
           /\ pc' \in [Handlers -> {"idle", "offerRead", "validated", "loaded", "committed"}]
           /\ seen' \in [Handlers -> Row]
           /\ event' \in [Handlers -> EventType]
           /\ Occupied'
<1>1. NotRead \in Row
  BY DEF NotRead, Row, BookingStatus
<1>2. NoEvent \in EventType
  BY DEF NoEvent, EventType
<1>3. Idle \in Calls \union {Idle}
  OBVIOUS
<1> QED BY <1>1, <1>2, <1>3 DEF Finish, Typed, TypeOK, Occupied

\* Every step of a handler, the clock and the other services keeps the types.
LEMMA TypeStep == Typed /\ [Next]_vars => Typed'
<1> SUFFICES ASSUME Typed, [Next]_vars PROVE Typed'
  OBVIOUS
<1>t. TypeOK /\ Occupied
  BY DEF Typed
<1>s. booking.status \in BookingStatus /\ booking.version \in Nat
  BY <1>t DEF TypeOK, Row
<1>e. \A c \in Calls : StatusEvent(c) \in EventType
  BY <1>s, TargetIsStatus DEF StatusEvent, EventType
<1>1. ASSUME NEW h \in Handlers, NEW c \in Calls, Begin(h, c) PROVE Typed'
  <2>1. event' \in [Handlers -> EventType]
    BY <1>1, <1>t, <1>e DEF Begin, TypeOK
  <2> QED BY <1>1, <1>t, <2>1 DEF Begin, Counted, World, TypeOK, Occupied, Typed
<1>2. ASSUME NEW h \in Handlers, NEW c \in Calls, BeginResponse(h, c) PROVE Typed'
  BY <1>2, <1>t DEF BeginResponse, Counted, World, TypeOK, Occupied, Typed
<1>3. ASSUME NEW h \in Handlers, NEW c \in Calls, BeginExpiry(h, c) PROVE Typed'
  BY <1>3, <1>t DEF BeginExpiry, World, TypeOK, Occupied, Typed
<1>4. ASSUME NEW h \in Handlers, ValidateAcceptance(h) PROVE Typed'
  <2>1. event' \in [Handlers -> EventType]
    BY <1>4, <1>t, <1>e DEF ValidateAcceptance, TypeOK, Occupied
  <2> QED BY <1>4, <1>t, <2>1 DEF ValidateAcceptance, World, TypeOK, Occupied, Typed
<1>5. ASSUME NEW h \in Handlers, Load(h) PROVE Typed'
  <2>1. event' \in [Handlers -> EventType]
    BY <1>5, <1>t, <1>e DEF Load, TypeOK, Occupied
  <2> QED BY <1>5, <1>t, <2>1 DEF Load, World, TypeOK, Occupied, Typed
<1>6. ASSUME NEW h \in Handlers, Refuse(h) \/ Conflict(h) PROVE Typed'
  BY <1>6, <1>t, FinishType DEF Refuse, Conflict, World, TypeOK, Typed
<1>7. ASSUME NEW h \in Handlers, CommitBooking(h) PROVE Typed'
  <2>1. call[h] \in Calls /\ seen[h] \in Row
    BY <1>7, <1>t DEF CommitBooking, Occupied, TypeOK
  <2>2. booking' \in Row /\ offer' \in [Artisans -> OfferStatus]
    BY <1>7, <1>t, <2>1, WrittenIsRow, OffersAreOffers DEF CommitBooking, TypeOK
  <2>3. /\ payments' \in [Keys -> {"none", "reserved", "confirmed", "failed"}]
        /\ lapsed' \subseteq Keys
    BY <1>7, <1>t DEF CommitBooking, TypeOK
  <2> QED BY <1>7, <1>t, <2>2, <2>3 DEF CommitBooking, TypeOK, Occupied, Typed
<1>8. ASSUME NEW h \in Handlers, CommitOutbox(h) PROVE Typed'
  BY <1>8, <1>t, FinishType DEF CommitOutbox, TypeOK, Typed
<1>9. ASSUME NEW h \in Handlers, Crash(h) PROVE Typed'
  BY <1>9, <1>t, FinishType DEF Crash, World, TypeOK, Typed
<1>10. CASE Environment
  <2>1. ASSUME NEW a \in Artisans, OfferLapses(a) PROVE Typed'
    BY <2>1, <1>t DEF OfferLapses, TypeOK, Occupied, Typed
  <2>2. ASSUME NEW k \in Keys, ReservationLapses(k) PROVE Typed'
    BY <2>2, <1>t DEF ReservationLapses, TypeOK, Occupied, Typed
  <2>3. ASSUME NEW k \in Keys, PaymentSettles(k) PROVE Typed'
    BY <2>3, <1>t DEF PaymentSettles, TypeOK, Occupied, Typed
  <2>4. ASSUME NEW q \in Quotes, QuoteChanges(q) PROVE Typed'
    BY <2>4, <1>t DEF QuoteChanges, TypeOK, Occupied, Typed
  <2> QED BY <1>10, <2>1, <2>2, <2>3, <2>4 DEF Environment
<1>11. CASE UNCHANGED vars
  BY <1>11, <1>t DEF vars, TypeOK, Occupied, Typed
<1> QED BY <1>1, <1>2, <1>3, <1>4, <1>5, <1>6, <1>7, <1>8, <1>9, <1>10, <1>11
        DEF Next, Progress

\* A new booking is well typed.
LEMMA TypeInit == Init => Typed
<1>1. NotRead \in Row
  BY DEF NotRead, Row, BookingStatus
<1>2. NoEvent \in EventType
  BY DEF NoEvent, EventType
<1> QED BY <1>1, <1>2 DEF Init, TypeOK, Occupied, Typed, OfferStatus

\* The types hold throughout.
LEMMA AlwaysTyped == Spec => []Typed
BY TypeInit, TypeStep, PTL DEF Spec

\* The booking row, its offers and the handlers keep their types: no handler
\* writes a status, an artisan or a reservation the schema does not know.
THEOREM TypeCorrect == Spec => []TypeOK
<1>1. Typed => TypeOK
  BY DEF Typed
<1> QED BY <1>1, AlwaysTyped, PTL

-----------------------------------------------------------------------------

\* What a handler that is about to write knows of the row.
FreshAt(h) ==
    pc[h] = "loaded" =>
        /\ seen[h].version <= booking.version
        /\ seen[h].version = booking.version => seen[h] = booking /\ Permits(call[h], booking)
        /\ call[h].op # "AcceptOffer" => event[h].previous = seen[h].status

\* What AcceptOffer, once it has validated the offer, knows of the status it will report.
ReportAt(h) ==
    pc[h] \in {"validated", "loaded"} /\ call[h].op = "AcceptOffer" =>
        /\ event[h].version <= booking.version
        /\ event[h].version = booking.version => event[h].previous = booking.status

Fresh == \A h \in Handlers : FreshAt(h) /\ ReportAt(h)

\* A step that does not write the row leaves what a handler knows of it true,
\* also when more reservations have lapsed.
LEMMA Bystander ==
    ASSUME NEW h \in Handlers, FreshAt(h), ReportAt(h),
           booking' = booking, lapsed \subseteq lapsed',
           call'[h] = call[h], pc'[h] = pc[h], seen'[h] = seen[h], event'[h] = event[h]
    PROVE  FreshAt(h)' /\ ReportAt(h)'
<1>1. Permits(call[h], booking) => Permits(call[h], booking)'
  BY DEF Permits, MayReserve, MaySettle, PaymentReservationExpired,
         PaymentReservationMatches, MayExpire, ValidateOfferCreation,
         ValidateOfferAcceptance, canApplyQuoteProposedEvent
<1> QED BY <1>1 DEF FreshAt, ReportAt

\* Every step keeps the handlers' copies older than the row, or equal to it.
LEMMA FreshStep == Typed /\ Fresh /\ [Next]_vars => Fresh'
<1> SUFFICES ASSUME Typed, Fresh, [Next]_vars PROVE Fresh'
  OBVIOUS
<1>t. TypeOK /\ Occupied
  BY DEF Typed
<1>f. \A h \in Handlers : FreshAt(h) /\ ReportAt(h)
  BY DEF Fresh
<1>o. ASSUME NEW h \in Handlers, NEW g \in Handlers, g # h,
             booking' = booking, lapsed' = lapsed,
             \E x \in {"loaded", "committed", "idle", "validated", "offerRead"} : 
                    pc' = [pc EXCEPT ![h] = x],
             call' = call \/ (\E c : call' = [call EXCEPT ![h] = c]),
             seen' = seen \/ (\E c : seen' = [seen EXCEPT ![h] = c]),
             event' = event \/ (\E c : event' = [event EXCEPT ![h] = c])
      PROVE  FreshAt(g)' /\ ReportAt(g)'
  <2>1. call'[g] = call[g] /\ pc'[g] = pc[g] /\ seen'[g] = seen[g] /\ event'[g] = event[g]
    BY <1>o, <1>t DEF TypeOK
  <2> QED BY <2>1, <1>o, <1>f, Bystander
<1>v. ASSUME NEW h \in Handlers, pc'[h] # "loaded",
             pc'[h] = "validated" => call'[h].op # "AcceptOffer"
      PROVE  FreshAt(h)' /\ ReportAt(h)'
  BY <1>v DEF FreshAt, ReportAt
<1>i. ASSUME NEW h \in Handlers, Finish(h), booking' = booking, lapsed' = lapsed
      PROVE  Fresh'
  <2>1. FreshAt(h)' /\ ReportAt(h)'
    BY <1>i, <1>t, <1>v DEF Finish, TypeOK
  <2>2. ASSUME NEW g \in Handlers, g # h PROVE FreshAt(g)' /\ ReportAt(g)'
    BY <2>2, <1>i, <1>o DEF Finish
  <2> QED BY <2>1, <2>2 DEF Fresh
<1>1. ASSUME NEW h \in Handlers, NEW c \in Calls, Begin(h, c) PROVE Fresh'
  <2>1. FreshAt(h)' /\ ReportAt(h)'
    <3>1. Permits(c, booking)' 
      BY <1>1 DEF Begin, World, Permits, MayReserve, MaySettle, PaymentReservationExpired,
         PaymentReservationMatches, MayExpire, ValidateOfferCreation,
         ValidateOfferAcceptance, canApplyQuoteProposedEvent
    <3>2. /\ booking' = booking /\ call'[h] = c /\ seen'[h] = booking
          /\ event'[h].previous = booking.status /\ booking.version \in Nat
          /\ c.op # "AcceptOffer"
      BY <1>1, <1>t DEF Begin, World, TypeOK, Row, StatusEvent
    <3> QED BY <3>1, <3>2 DEF FreshAt, ReportAt
  <2>2. ASSUME NEW g \in Handlers, g # h PROVE FreshAt(g)' /\ ReportAt(g)'
    BY <2>2, <1>1, <1>o DEF Begin, World
  <2> QED BY <2>1, <2>2 DEF Fresh
<1>2. ASSUME NEW h \in Handlers, NEW c \in Calls, BeginResponse(h, c) \/ BeginExpiry(h, c)
      PROVE Fresh'
  <2>1. FreshAt(h)' /\ ReportAt(h)'
    BY <1>2, <1>t, <1>v DEF BeginResponse, BeginExpiry, TypeOK
  <2>2. ASSUME NEW g \in Handlers, g # h PROVE FreshAt(g)' /\ ReportAt(g)'
    BY <2>2, <1>2, <1>o DEF BeginResponse, BeginExpiry, World
  <2> QED BY <2>1, <2>2 DEF Fresh
<1>3. ASSUME NEW h \in Handlers, ValidateAcceptance(h) PROVE Fresh'
  <2>1. FreshAt(h)' /\ ReportAt(h)'
    <3>1. /\ booking' = booking /\ booking.version \in Nat /\ pc'[h] = "validated"
          /\ event'[h].version = booking.version /\ event'[h].previous = booking.status
      BY <1>3, <1>t DEF ValidateAcceptance, World, TypeOK, Row, StatusEvent
    <3> QED BY <3>1 DEF FreshAt, ReportAt
  <2>2. ASSUME NEW g \in Handlers, g # h PROVE FreshAt(g)' /\ ReportAt(g)'
    BY <2>2, <1>3, <1>o DEF ValidateAcceptance, World
  <2> QED BY <2>1, <2>2 DEF Fresh
<1>4. ASSUME NEW h \in Handlers, Load(h) PROVE Fresh'
  <2>1. FreshAt(h)' /\ ReportAt(h)'
    <3>1. Permits(call[h], booking)' 
      BY <1>4 DEF Load, World, Permits, MayReserve, MaySettle, PaymentReservationExpired,
         PaymentReservationMatches, MayExpire, ValidateOfferCreation,
         ValidateOfferAcceptance, canApplyQuoteProposedEvent
    <3>2. /\ booking' = booking /\ call'[h] = call[h] /\ seen'[h] = booking
          /\ call[h].op # "AcceptOffer" => event'[h].previous = booking.status
          /\ call[h].op = "AcceptOffer" => event'[h] = event[h]
          /\ booking.version \in Nat /\ pc[h] = "validated"
      BY <1>4, <1>t DEF Load, World, TypeOK, Row, StatusEvent
    <3> QED BY <3>1, <3>2, <1>f DEF FreshAt, ReportAt
  <2>2. ASSUME NEW g \in Handlers, g # h PROVE FreshAt(g)' /\ ReportAt(g)'
    BY <2>2, <1>4, <1>o DEF Load, World
  <2> QED BY <2>1, <2>2 DEF Fresh
<1>5. ASSUME NEW h \in Handlers, Refuse(h) \/ Conflict(h) \/ Crash(h) \/ CommitOutbox(h)
      PROVE  Fresh'
  BY <1>5, <1>i DEF Refuse, Conflict, Crash, CommitOutbox, World
<1>6. ASSUME NEW h \in Handlers, CommitBooking(h) PROVE Fresh'
  <2>1. FreshAt(h)' /\ ReportAt(h)'
    BY <1>6, <1>t, <1>v DEF CommitBooking, TypeOK
  <2>2. ASSUME NEW g \in Handlers, g # h PROVE FreshAt(g)' /\ ReportAt(g)'
    <3>1. FreshAt(g) /\ ReportAt(g) /\ seen[h].version = booking.version
      BY <1>6, <1>f DEF CommitBooking, VersionMatches
    <3>2. /\ booking'.version = booking.version + 1 /\ booking.version \in Nat
          /\ seen[g].version \in Nat /\ event[g].version \in Nat
      BY <1>6, <1>t, <3>1 DEF CommitBooking, Written, TypeOK, Row, EventType
    <3>3. call'[g] = call[g] /\ pc'[g] = pc[g] /\ seen'[g] = seen[g] /\ event'[g] = event[g]
      BY <1>6, <1>t, <2>2 DEF CommitBooking, TypeOK
    <3> QED BY <3>1, <3>2, <3>3 DEF FreshAt, ReportAt
  <2> QED BY <2>1, <2>2 DEF Fresh
<1>7. CASE Environment
  <2>1. UNCHANGED <<booking, call, pc, seen, event>> /\ lapsed \subseteq lapsed'
    BY <1>7 DEF Environment, OfferLapses, ReservationLapses, PaymentSettles, QuoteChanges
  <2> QED BY <2>1, <1>f, Bystander DEF Fresh
<1>8. CASE UNCHANGED vars
  BY <1>8, <1>f, Bystander DEF vars, Fresh
<1> QED BY <1>1, <1>2, <1>3, <1>4, <1>5, <1>6, <1>7, <1>8 DEF Next, Progress

-----------------------------------------------------------------------------

\* The handlers' copies are fresh or outdated by version, throughout.
LEMMA AlwaysFresh == Spec => [](Typed /\ Fresh)
<1>1. Init => Fresh
  BY DEF Init, Fresh, FreshAt, ReportAt
<1> QED BY <1>1, FreshStep, AlwaysTyped, PTL DEF Spec

\* A handler gets from its read to its commit by the versioned UPDATE alone.
LEMMA OnlyCommitCommits ==
    ASSUME Typed, [Next]_vars, NEW h \in Handlers, Commits(h)
    PROVE  CommitBooking(h)
<1>t. pc \in [Handlers -> {"idle", "offerRead", "validated", "loaded", "committed"}]
  BY DEF Typed, TypeOK
<1>c. pc[h] = "loaded" /\ pc'[h] = "committed"
  BY DEF Commits
<1>1. ASSUME NEW g \in Handlers, NEW c \in Calls,
             Begin(g, c) \/ BeginResponse(g, c) \/ BeginExpiry(g, c)
      PROVE  FALSE
  BY <1>1, <1>t, <1>c DEF Begin, BeginResponse, BeginExpiry
<1>2. ASSUME NEW g \in Handlers, Progress(g) \/ Crash(g)
      PROVE  g = h /\ CommitBooking(h)
  BY <1>2, <1>t, <1>c DEF Progress, ValidateAcceptance, Load, Refuse, Conflict, CommitOutbox,
                          CommitBooking, Crash, Finish
<1>3. ~Environment /\ ~UNCHANGED vars
  BY <1>c DEF Environment, OfferLapses, ReservationLapses, PaymentSettles, QuoteChanges, vars
<1> QED BY <1>1, <1>2, <1>3 DEF Next

\* The row changes by the versioned UPDATE alone.
LEMMA OnlyCommitWrites ==
    ASSUME [Next]_vars, booking' # booking
    PROVE  \E h \in Handlers : CommitBooking(h)
BY DEF Next, Begin, BeginResponse, BeginExpiry, World, Progress, ValidateAcceptance, Load,
       Refuse, Conflict, CommitOutbox, Crash, Environment, OfferLapses, ReservationLapses,
       PaymentSettles, QuoteChanges, vars

\* A versioned UPDATE that succeeds writes over the very row the handler read.
LEMMA CommitOnTop ==
    ASSUME Typed, Fresh, NEW h \in Handlers, CommitBooking(h)
    PROVE  /\ seen[h] = booking /\ Permits(call[h], booking)
           /\ booking' = Written(call[h], booking)
           /\ call[h] \in Calls /\ booking \in Row
           /\ \/ event[h].previous = booking.status
              \/ call[h].op = "AcceptOffer" /\ event[h].version < booking.version
<1>1. seen[h] = booking /\ Permits(call[h], booking) /\ call[h] \in Calls /\ booking \in Row
  BY DEF CommitBooking, VersionMatches, Fresh, FreshAt, Typed, TypeOK, Occupied
<1>2. call[h].op # "AcceptOffer" => event[h].previous = booking.status
  BY <1>1 DEF CommitBooking, Fresh, FreshAt
<1>3. call[h].op = "AcceptOffer" =>
          event[h].previous = booking.status \/ event[h].version < booking.version
  <2>1. event[h].version \in Nat /\ booking.version \in Nat
    BY <1>1 DEF Typed, TypeOK, Row, EventType
  <2>2. call[h].op = "AcceptOffer" => ReportAt(h) /\ pc[h] = "loaded"
    BY DEF CommitBooking, Fresh
  <2> QED BY <2>1, <2>2 DEF ReportAt
<1> QED BY <1>1, <1>2, <1>3 DEF CommitBooking

\* The events of bookings.go, offers.go and service.go name the status that was
\* replaced, however the handlers interleave; AcceptOffer's, read before its
\* transaction, is false only if the booking was written after it was read.
THEOREM PreviousStatusAlwaysTrue == Spec => PreviousStatusIsTrue
<1>1. Typed /\ Fresh /\ [Next]_vars =>
        [\A h \in Handlers : Commits(h) =>
            \/ event[h].previous = booking.status
            \/ call[h].op = "AcceptOffer" /\ event[h].version < booking.version]_vars
  BY OnlyCommitCommits, CommitOnTop
<1> QED BY <1>1, AlwaysFresh, PTL DEF Spec, PreviousStatusIsTrue

\* UpdateBookingStatus and CancelBooking, which validate before they write, never
\* make a change the table of domain/models.go forbids.
THEOREM RequestsAlwaysFollowTheTable == Spec => RequestsFollowTheTable
<1>1. Typed /\ Fresh /\ [Next]_vars =>
        [\A h \in Handlers : Commits(h) =>
          /\ call[h].op \in {"UpdateBookingStatus", "CancelBooking"}
                => CanTransition(booking.status, booking'.status)
          /\ booking.status \in {"cancelled", "closed"} => call[h].op \in Unguarded]_vars
  <2> SUFFICES ASSUME Typed, Fresh, [Next]_vars, NEW h \in Handlers, Commits(h)
               PROVE  /\ call[h].op \in {"UpdateBookingStatus", "CancelBooking"}
                            => CanTransition(booking.status, booking'.status)
                      /\ booking.status \in {"cancelled", "closed"} => call[h].op \in Unguarded
    OBVIOUS
  <2>1. CommitBooking(h)
    BY OnlyCommitCommits
  <2>2. Permits(call[h], booking) /\ booking' = Written(call[h], booking)
    BY <2>1, CommitOnTop
  <2>3. CASE call[h].op = "UpdateBookingStatus"
    <3>1. CanTransition(booking.status, booking'.status)
      BY <2>2, <2>3 DEF Permits, Written, Target
    <3>2. booking.status \notin {"cancelled", "closed"}
      BY <3>1 DEF Typed, TypeOK, Row, CanTransition, validTransitions, BookingStatus
    <3> QED BY <3>1, <3>2
  <2>4. CASE call[h].op = "CancelBooking"
    <3>1. booking.status \in CancellableFrom /\ booking'.status = "cancelled"
      BY <2>2, <2>4 DEF Permits, Written, Target
    <3>2. booking.status \notin {"cancelled", "closed"}
      BY <3>1 DEF CancellableFrom, CanTransition, validTransitions, BookingStatus
    <3> QED BY <3>1, <3>2, <2>4 DEF CancellableFrom
  <2>5. CASE call[h].op \notin {"UpdateBookingStatus", "CancelBooking"} \cup Unguarded
    BY <2>2, <2>5 DEF Unguarded, Permits, ValidateOfferCreation, canApplyQuoteProposedEvent,
                      MayReserve, MaySettle
  <2> QED BY <2>3, <2>4, <2>5
<1> QED BY <1>1, AlwaysFresh, PTL DEF Spec, RequestsFollowTheTable

\* The outcome of a payment only moves a booking reserved for that payment.
THEOREM OutcomeAlwaysMatches == Spec => OutcomeMatchesReservation
<1>1. Typed /\ Fresh /\ [Next]_vars =>
        [\A h \in Handlers :
          Commits(h) /\ call[h].op \in {"OnPaymentConfirmed", "OnPaymentFailed",
                                        "ReleasePaymentReservation"}
            => booking.status = "payment_pending" /\ booking.reservation = call[h].arg]_vars
  <2> SUFFICES ASSUME Typed, Fresh, [Next]_vars, NEW h \in Handlers, Commits(h),
                      call[h].op \in {"OnPaymentConfirmed", "OnPaymentFailed",
                                      "ReleasePaymentReservation"}
               PROVE  booking.status = "payment_pending" /\ booking.reservation = call[h].arg
    OBVIOUS
  <2>1. Permits(call[h], booking)
    BY OnlyCommitCommits, CommitOnTop
  <2> QED BY <2>1 DEF Permits, MaySettle, PaymentReservationMatches
<1> QED BY <1>1, AlwaysFresh, PTL DEF Spec, OutcomeMatchesReservation

\* MarkPaymentPending takes no live reservation away from another payment.
THEOREM LiveReservationAlwaysHeld == Spec => LiveReservationHeld
<1>1. Typed /\ Fresh /\ [Next]_vars =>
        [booking.status = "payment_pending" /\ booking.reservation \in Keys \ lapsed
         /\ booking'.status = "payment_pending"
         => booking'.reservation = booking.reservation]_vars
  <2> SUFFICES ASSUME Typed, Fresh, [Next]_vars, booking' # booking,
                      booking.status = "payment_pending", booking.reservation \in Keys \ lapsed,
                      booking'.status = "payment_pending"
               PROVE  booking'.reservation = booking.reservation
    OBVIOUS
  <2>1. PICK h \in Handlers : CommitBooking(h)
    BY OnlyCommitWrites
  <2>2. /\ Permits(call[h], booking) /\ booking' = Written(call[h], booking)
        /\ call[h] \in Calls
    BY <2>1, CommitOnTop
  <2>3. call[h].op # "MarkPaymentPending"
    BY <2>2, ParametersAssumption DEF Permits, MayReserve, PaymentReservationExpired
  <2>4. call[h].op \notin {"ReleasePaymentReservation", "OnPaymentConfirmed", "OnPaymentFailed"}
    BY <2>2 DEF Written, Target
  <2> QED BY <2>2, <2>3, <2>4 DEF Written
<1> QED BY <1>1, AlwaysFresh, PTL DEF Spec, LiveReservationHeld

\* Two payments that compete for a booking respect each other's reservation, for any
\* number of keys and any interleaving of the payment service's calls and events.
THEOREM ReservationsAlwaysRespected == Spec => ReservationsRespected
BY OutcomeAlwaysMatches, LiveReservationAlwaysHeld DEF ReservationsRespected

\* AcceptOffer never exchanges an artisan for another, although it validates the
\* offer outside its transaction.
THEOREM ArtisanIsNeverReplaced == Spec => ArtisanNeverReplaced
<1>1. Typed /\ Fresh /\ [Next]_vars =>
        [booking.artisan # NoArtisan => booking'.artisan = booking.artisan]_vars
  <2> SUFFICES ASSUME Typed, Fresh, [Next]_vars, booking' # booking,
                      booking.artisan # NoArtisan
               PROVE  booking'.artisan = booking.artisan
    OBVIOUS
  <2>1. PICK h \in Handlers : CommitBooking(h)
    BY OnlyCommitWrites
  <2>2. Permits(call[h], booking) /\ booking' = Written(call[h], booking)
    BY <2>1, CommitOnTop
  <2>3. call[h].op # "AcceptOffer"
    BY <2>2 DEF Permits, ValidateOfferAcceptance
  <2> QED BY <2>2, <2>3 DEF Written
<1> QED BY <1>1, AlwaysFresh, PTL DEF Spec, ArtisanNeverReplaced

-----------------------------------------------------------------------------

Answering == {"AcceptOffer", "RejectOffer", "ExpireOffer"}

\* One offer at most, made when the booking leaves its first status; the calls
\* about an offer are about that one.
Offers ==
    /\ AcceptedOfferAssigns
    /\ \A a, b \in Artisans : offer[a] # "none" /\ offer[b] # "none" => a = b
    /\ booking.status = "requested" => \A a \in Artisans : offer[a] = "none"
    /\ \A h \in Handlers : call[h].op \in Answering => offer[call[h].arg] # "none"

\* No handler writes 'requested' again.
LEMMA NothingRequestsAgain ==
    ASSUME NEW c \in Calls, NEW b \in Row, Permits(c, b)
    PROVE  Target(c) # "requested"
<1>1. CASE c.op = "UpdateBookingStatus"
  BY <1>1, NeverRequested DEF Permits, Target, CanTransition, Row
<1>2. CASE c.op # "UpdateBookingStatus"
  BY <1>2 DEF Calls, Target
<1> QED BY <1>1, <1>2

\* Every step keeps the offers and the booking in agreement.
LEMMA OffersStep == Typed /\ Fresh /\ Offers /\ [Next]_vars => Offers'
<1> SUFFICES ASSUME Typed, Fresh, Offers, [Next]_vars PROVE Offers'
  OBVIOUS
<1>t. TypeOK /\ Occupied
  BY DEF Typed
<1>i. ASSUME NEW h \in Handlers, UNCHANGED <<booking, offer>>,
             call' = call \/ \E c \in Calls \union {Idle} :
                               /\ call' = [call EXCEPT ![h] = c]
                               /\ c.op \in Answering => offer[c.arg] # "none"
      PROVE  Offers'
  BY <1>i, <1>t DEF Offers, AcceptedOfferAssigns, TypeOK
<1>d. Idle.op \notin Answering /\ Idle \in Calls \union {Idle}
  BY DEF Idle, Answering
<1>1. ASSUME NEW h \in Handlers, NEW c \in Calls,
             Begin(h, c) \/ BeginResponse(h, c) \/ BeginExpiry(h, c)
      PROVE  Offers'
  <2>1. UNCHANGED <<booking, offer>> /\ call' = [call EXCEPT ![h] = c]
    BY <1>1 DEF Begin, BeginResponse, BeginExpiry, World
  <2>2. c.op \in Answering => offer[c.arg] # "none"
    BY <1>1 DEF Begin, BeginResponse, BeginExpiry, Answering
  <2> QED BY <2>1, <2>2, <1>i
<1>2. ASSUME NEW h \in Handlers, ValidateAcceptance(h) \/ Load(h)
      PROVE  Offers'
  BY <1>2, <1>i DEF ValidateAcceptance, Load, World
<1>3. ASSUME NEW h \in Handlers, Refuse(h) \/ Conflict(h) \/ Crash(h) \/ CommitOutbox(h)
      PROVE  Offers'
  BY <1>3, <1>i, <1>d DEF Refuse, Conflict, Crash, CommitOutbox, World, Finish
<1>4. ASSUME NEW h \in Handlers, CommitBooking(h) PROVE Offers'
  <2> DEFINE c == call[h]
  <2>1. /\ Permits(c, booking) /\ booking' = Written(c, booking)
        /\ c \in Calls /\ booking \in Row
        /\ offer' = OffersAfter(c) /\ call' = call
    BY <1>4, CommitOnTop DEF CommitBooking
  <2>2. booking'.status # "requested"
    BY <2>1, NothingRequestsAgain DEF Written
  <2>3. \A a \in Artisans : offer'[a] # "none" => offer[a] # "none" \/ (c.op = "CreateOffer" /\ a = c.arg)
    BY <2>1 DEF OffersAfter, Offers, Answering
  <2>4. c.op = "CreateOffer" => \A a \in Artisans : offer[a] = "none"
    BY <2>1 DEF Permits, ValidateOfferCreation, Offers
  <2>5. \A a, b \in Artisans : offer'[a] # "none" /\ offer'[b] # "none" => a = b
    BY <2>3, <2>4 DEF Offers
  <2>6. \A a \in Artisans : offer[a] # "none" => offer'[a] # "none"
    BY <2>1 DEF OffersAfter
  <2>7. \A g \in Handlers : call[g].op \in Answering => offer'[call[g].arg] # "none"
    <3>1. \A g \in Handlers : call[g].op \in Answering => call[g].arg \in Artisans
      BY <1>t DEF TypeOK, Calls, Idle, Answering
    <3> QED BY <2>6, <3>1 DEF Offers
  <2>8. AcceptedOfferAssigns'
    <3> SUFFICES ASSUME NEW a \in Artisans, offer'[a] = "accepted" PROVE booking'.artisan = a
      BY DEF AcceptedOfferAssigns
    <3>1. CASE c.op = "AcceptOffer" /\ a = c.arg
      BY <3>1, <2>1 DEF Written
    <3>2. CASE ~(c.op = "AcceptOffer" /\ a = c.arg)
      <4>1. offer[a] = "accepted"
        BY <3>2, <2>1 DEF OffersAfter
      <4>2. booking.artisan = a /\ a # NoArtisan
        BY <4>1, ParametersAssumption DEF Offers, AcceptedOfferAssigns
      <4>3. c.op # "AcceptOffer"
        BY <4>2, <2>1 DEF Permits, ValidateOfferAcceptance
      <4> QED BY <4>2, <4>3, <2>1 DEF Written
    <3> QED BY <3>1, <3>2
  <2> QED BY <2>1, <2>2, <2>5, <2>7, <2>8 DEF Offers
<1>5. CASE Environment
  <2>1. UNCHANGED <<booking, offer, call>>
    BY <1>5 DEF Environment, OfferLapses, ReservationLapses, PaymentSettles, QuoteChanges
  <2> QED BY <2>1 DEF Offers, AcceptedOfferAssigns
<1>6. CASE UNCHANGED vars
  BY <1>6 DEF vars, Offers, AcceptedOfferAssigns
<1> QED BY <1>1, <1>2, <1>3, <1>4, <1>5, <1>6 DEF Next, Progress

\* The offers and the booking agree throughout.
LEMMA AlwaysOffers == Spec => []Offers
<1>1. Init => Offers
  BY DEF Init, Offers, AcceptedOfferAssigns, Idle, Answering
<1> QED BY <1>1, OffersStep, AlwaysFresh, PTL DEF Spec

\* An offer recorded as accepted has assigned the booking to its artisan.
THEOREM AcceptedOfferHasAssigned == Spec => []AcceptedOfferAssigns
<1>1. Offers => AcceptedOfferAssigns
  BY DEF Offers
<1> QED BY <1>1, AlwaysOffers, PTL

\* CreateOffer offers a booking once in its life, however many callers race.
THEOREM OfferedOnce == Spec => []OneOffer
<1>1. Offers => OneOffer
  <2> DEFINE S == {a \in Artisans : offer[a] # "none"}
  <2> SUFFICES ASSUME Offers PROVE Cardinality(S) <= 1
    BY DEF OneOffer
  <2>1. CASE S = {}
    BY <2>1, FS_EmptySet
  <2>2. CASE S # {}
    <3>1. PICK a : S = {a}
      BY <2>2 DEF Offers
    <3>2. Cardinality({a}) = 1
      BY FS_Singleton
    <3> QED BY <3>1, <3>2
  <2> QED BY <2>1, <2>2
<1> QED BY <1>1, AlwaysOffers, PTL

-----------------------------------------------------------------------------

\* The handlers between the commits of the booking and the core database.
InFlight == {h \in Handlers : pc[h] = "committed"}
Flying == Cardinality(InFlight)

\* There are finitely many of them.
LEMMA InFlightFinite == IsFiniteSet(InFlight) /\ Cardinality(InFlight) \in Nat
BY FS_Subset, FS_CardinalityType, ParametersAssumption DEF InFlight

\* How a handler that moves changes their number.
LEMMA InFlightChanges ==
    ASSUME Typed, NEW h \in Handlers, NEW x, pc' = [pc EXCEPT ![h] = x]
    PROVE  /\ x = "committed" /\ pc[h] # "committed" => Flying' = Flying + 1
           /\ x # "committed" /\ pc[h] = "committed" => Flying' = Flying - 1
           /\ x # "committed" /\ pc[h] # "committed" => Flying' = Flying
<1>t. pc \in [Handlers -> {"idle", "offerRead", "validated", "loaded", "committed"}]
  BY DEF Typed, TypeOK
<1>f. IsFiniteSet(InFlight)
  BY InFlightFinite
<1>1. ASSUME x = "committed", pc[h] # "committed" PROVE Flying' = Flying + 1
  <2>1. InFlight' = InFlight \union {h} /\ h \notin InFlight
    BY <1>1, <1>t DEF InFlight
  <2> QED BY <2>1, <1>f, FS_AddElement DEF Flying
<1>2. ASSUME x # "committed", pc[h] = "committed" PROVE Flying' = Flying - 1
  <2>1. InFlight' = InFlight \ {h} /\ h \in InFlight
    BY <1>2, <1>t DEF InFlight
  <2>2. Cardinality(InFlight \ {h}) = Cardinality(InFlight) - 1
    BY <2>1, <1>f, FS_RemoveElement
  <2> QED BY <2>1, <2>2, InFlightFinite DEF Flying
<1>3. ASSUME x # "committed", pc[h] # "committed" PROVE Flying' = Flying
  <2>1. InFlight' = InFlight
    BY <1>3, <1>t DEF InFlight
  <2> QED BY <2>1 DEF Flying
<1> QED BY <1>1, <1>2, <1>3

\* Every step keeps versions, events and crashes in balance.
LEMMA AccountsStep == Typed /\ Fresh /\ EventsAccountedFor /\ [Next]_vars => EventsAccountedFor'
<1> SUFFICES ASSUME Typed, Fresh, EventsAccountedFor, [Next]_vars PROVE EventsAccountedFor'
  OBVIOUS
<1>t. TypeOK
  BY DEF Typed
<1>n. Flying \in Nat /\ outbox \in Nat /\ crashes \in Nat /\ booking.version \in Nat
  BY <1>t, InFlightFinite DEF TypeOK, Row, Flying
<1>a. outbox + Flying <= booking.version /\ booking.version <= outbox + Flying + crashes
  BY DEF EventsAccountedFor, Flying, InFlight
<1>g. ASSUME outbox' + Flying' <= booking'.version,
             booking'.version <= outbox' + Flying' + crashes'
      PROVE  EventsAccountedFor'
  BY <1>g DEF EventsAccountedFor, Flying, InFlight
<1>p. ASSUME NEW h \in Handlers, NEW x, pc' = [pc EXCEPT ![h] = x]
      PROVE  /\ x = "committed" /\ pc[h] # "committed" => Flying' = Flying + 1
             /\ x # "committed" /\ pc[h] = "committed" => Flying' = Flying - 1
             /\ x # "committed" /\ pc[h] # "committed" => Flying' = Flying
  BY <1>p, InFlightChanges
<1>q. ASSUME UNCHANGED <<pc, outbox, booking, crashes>> PROVE EventsAccountedFor'
  BY <1>q DEF EventsAccountedFor
<1>1. ASSUME NEW h \in Handlers, NEW c \in Calls,
             Begin(h, c) \/ BeginResponse(h, c) \/ BeginExpiry(h, c)
      PROVE  EventsAccountedFor'
  <2>1. /\ pc[h] = "idle" /\ UNCHANGED <<outbox, booking, crashes>>
        /\ \E x \in {"loaded", "offerRead", "validated"} : pc' = [pc EXCEPT ![h] = x]
    BY <1>1 DEF Begin, BeginResponse, BeginExpiry, World
  <2>2. Flying' = Flying
    BY <2>1, <1>p, <1>n
  <2> QED BY <2>1, <2>2, <1>a, <1>g
<1>2. ASSUME NEW h \in Handlers,
             ValidateAcceptance(h) \/ Load(h) \/ Refuse(h) \/ Conflict(h)
      PROVE  EventsAccountedFor'
  <2>1. /\ pc[h] # "committed" /\ UNCHANGED <<outbox, booking, crashes>>
        /\ \E x \in {"loaded", "validated", "idle"} : pc' = [pc EXCEPT ![h] = x]
    BY <1>2 DEF ValidateAcceptance, Load, Refuse, Conflict, Finish, World
  <2>2. Flying' = Flying
    BY <2>1, <1>p, <1>n
  <2> QED BY <2>1, <2>2, <1>a, <1>g
<1>3. ASSUME NEW h \in Handlers, CommitBooking(h) PROVE EventsAccountedFor'
  <2>1. /\ pc[h] = "loaded" /\ UNCHANGED <<outbox, crashes>>
        /\ pc' = [pc EXCEPT ![h] = "committed"]
        /\ booking'.version = booking.version + 1
    BY <1>3, CommitOnTop DEF CommitBooking, Written
  <2>2. Flying' = Flying + 1
    BY <2>1, <1>p, <1>n
  <2> QED BY <2>1, <2>2, <1>a, <1>g, <1>n
<1>4. ASSUME NEW h \in Handlers, CommitOutbox(h) PROVE EventsAccountedFor'
  <2>1. /\ pc[h] = "committed" /\ UNCHANGED <<booking, crashes>>
        /\ \E x \in {"idle"} : pc' = [pc EXCEPT ![h] = x]
        /\ outbox' = outbox + 1
    BY <1>4 DEF CommitOutbox, Finish
  <2>2. Flying' = Flying - 1
    BY <2>1, <1>p, <1>n
  <2> QED BY <2>1, <2>2, <1>a, <1>g, <1>n
<1>5. ASSUME NEW h \in Handlers, Crash(h) PROVE EventsAccountedFor'
  <2>1. /\ UNCHANGED <<outbox, booking>> /\ crashes' = crashes + 1
        /\ \E x \in {"idle"} : pc' = [pc EXCEPT ![h] = x]
    BY <1>5 DEF Crash, Finish, World
  <2>2. Flying' = Flying \/ Flying' = Flying - 1
    BY <2>1, <1>p, <1>n
  <2> QED BY <2>1, <2>2, <1>a, <1>g, <1>n
<1>6. CASE Environment
  BY <1>6, <1>q DEF Environment, OfferLapses, ReservationLapses, PaymentSettles, QuoteChanges
<1>7. CASE UNCHANGED vars
  BY <1>7, <1>q DEF vars
<1> QED BY <1>1, <1>2, <1>3, <1>4, <1>5, <1>6, <1>7 DEF Next, Progress

\* Each change of the booking has its outbox event, except that a crash between
\* the two commits of transactions.go may lose one; no event is made up.
THEOREM EventsAlwaysAccountedFor == Spec => []EventsAccountedFor
<1>1. Init => EventsAccountedFor
  <2> SUFFICES ASSUME Init PROVE EventsAccountedFor
    OBVIOUS
  <2>1. {h \in Handlers : pc[h] = "committed"} = {}
    BY DEF Init
  <2>2. Cardinality({}) = 0
    BY FS_EmptySet
  <2> QED BY <2>1, <2>2 DEF Init, NotRead, EventsAccountedFor
<1> QED BY <1>1, AccountsStep, AlwaysFresh, PTL DEF Spec
=============================================================================
