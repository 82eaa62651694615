------------------------ MODULE BookingCreationProofs ------------------------
(***************************************************************************)
(* Theorems about BookingCreation, for any number of calls, keys, requests *)
(* and bookings.                                                           *)
(*                                                                         *)
(* A call that has stored its key owns it until it returns (OneOwner), and *)
(* only the owner makes a booking under the key (Made); what is recorded   *)
(* as completed was made for the request on record (Recorded).  As to the  *)
(* cache, who is about to store a copy has a current one as long as the    *)
(* booking is not marked as raced (CopiesCurrent).                         *)
(***************************************************************************)
EXTENDS BookingCreation, FiniteSetTheorems, TLAPS

\* The call has stored the key k and not yet returned.
Owns(c, k) == call[c].request.key = k /\ call[c].at \notin {"check", "store"}

\* The call has inserted the booking it was asked for.
Creating(c) ==
    \/ call[c].at \in {"cache", "offer", "complete"}
    \/ call[c].at = "drop" /\ call[c].request # NoRequest

Fresh == \E n \in Nat : Existing = 1..n

OneOwner ==
    \A k \in Keys :
        /\ \A c, d \in Calls : Owns(c, k) /\ Owns(d, k) => c = d
        /\ \A c \in Calls : Owns(c, k) => /\ record[k].status = "processing"
                                          /\ record[k].request = call[c].request

\* The booking of a call, and that of a key.
Made ==
    /\ \A c \in Calls : call[c].b # 0 => call[c].b \in Existing
    /\ \A c \in Calls : call[c].at \in {"cache", "refetch", "fill", "drop", "complete", "offer"}
                            => call[c].b # 0
    /\ \A c \in Calls : Creating(c) => booking[call[c].b].request = call[c].request
    /\ \A c \in Calls : call[c].at \in {"validate", "insert"} =>
          \A b \in Existing : booking[b].request.key = call[c].request.key =>
                                  call[c].request.key = NoKey
    /\ \A k \in Keys : record[k].status = "none" =>
          \A b \in Existing : booking[b].request.key # k

\* Where a call is tells whether it creates a booking.
Places ==
    \A c \in Calls :
        /\ call[c].at \in {"check", "store", "validate", "insert", "cache", "offer", "complete"}
              => call[c].request \in Requests
        /\ call[c].at \in {"check", "store"} => call[c].request.key \in Keys
        /\ call[c].at \in {"idle", "refetch", "fill"} => call[c].request = NoRequest

Recorded ==
    \A k \in Keys :
        /\ record[k].status # "none" => record[k].request.key = k
        /\ record[k].status = "completed" =>
              /\ record[k].booking \in Existing
              /\ booking[record[k].booking].request = record[k].request

OnePerKey ==
    \A b1, b2 \in Existing :
        booking[b1].request.key = booking[b2].request.key =>
            b1 = b2 \/ booking[b1].request.key = NoKey

OwnAnswers ==
    \A a \in answers :
        /\ a.booking \in Existing
        /\ LET made == booking[a.booking].request
           IN  made.user = a.request.user /\ made.key = a.request.key
               /\ made.hash = a.request.hash

Owned ==
    \A k \in Keys : record[k].status = "processing" => k \in broken \/ \E c \in Calls : Owns(c, k)

CopiesCurrent ==
    \A c \in Calls :
        call[c].at \in {"cache", "fill"} =>
            call[c].b \in raced \/ call[c].seen = booking[call[c].b].version

Inv == /\ TypeOK /\ Fresh /\ OneOwner /\ Made /\ Places /\ Recorded
       /\ OnePerKey /\ OwnAnswers /\ Owned /\ CopiesCurrent /\ StaleOnlyIfOvertaken

-----------------------------------------------------------------------------
(***************************************************************************)
(* Types.                                                                  *)
(***************************************************************************)

CallState == [at : {"idle", "check", "store", "validate", "insert", "cache",
                    "offer", "drop", "complete", "refetch", "fill"},
              request : Requests \cup {NoRequest}, b : Bookings \cup {0}, seen : Nat]

Kept == [status : {"none", "processing", "completed"}, request : Requests \cup {NoRequest},
         booking : Bookings \cup {0}, expired : BOOLEAN]

LEMMA IdleState == Idle \in CallState
BY DEF Idle, CallState, NoRequest

LEMMA NoRequestHasNoKey == NoRequest.key = NoKey /\ NoKey \notin Keys
BY ParametersAssumption DEF NoRequest

LEMMA InitTypes == Init => TypeOK
BY IdleState, ParametersAssumption
   DEF Init, TypeOK, Row, NoRecord, NoBooking, CallState, Bookings, Idle

\* Of the steps of a call, those that leave the tables alone.
Reads(c) ==
    \/ \E r \in Requests : CreateBooking(c, r)
    \/ CheckIdempotencyKey(c) \/ Validate(c) \/ CacheCreated(c) \/ OfferFails(c)
    \/ CompletionFails(c) \/ \E b \in Bookings : GetBooking(c, b)
    \/ Refetch(c) \/ Fill(c) \/ Drop(c) \/ Fails(c)

\* And those that write to them.
Writes(c) ==
    \/ StoreIdempotencyKey(c) \/ StoreUnanswered(c) \/ Insert(c) \/ CompleteIdempotencyKey(c)
    \/ \E b \in Bookings : UpdateBookingStatusInternal(c, b) \/ CommitOffer(c, b)

LEMMA CallTypes ==
    ASSUME Inv, NEW c \in Calls, Reads(c) \/ Writes(c)
    PROVE  call' \in [Calls -> CallState]
<1> USE DEF CallState
<1>0. call[c] \in CallState /\ booking \in [Bookings -> Row] /\ call \in [Calls -> CallState]
  BY DEF Inv, TypeOK
<1>1. \A place \in {"idle", "check", "store", "validate", "insert", "cache", "offer", "drop",
                    "complete", "refetch", "fill"},
         r \in Requests \cup {NoRequest}, b \in Bookings \cup {0}, v \in Nat :
            Become(c, place, r, b, v) => call' \in [Calls -> CallState]
  BY <1>0 DEF Become
<1>2. Return(c) => call' \in [Calls -> CallState]
  BY <1>0, IdleState DEF Return
<1>3. \A place \in {"idle", "check", "store", "validate", "insert", "cache", "offer", "drop",
                    "complete", "refetch", "fill"} :
            Goto(c, place) => call' \in [Calls -> CallState]
  BY <1>0, <1>1 DEF Goto
<1>4. ASSUME NEW r \in Requests, CreateBooking(c, r) PROVE call' \in [Calls -> CallState]
  BY <1>1, <1>4 DEF CreateBooking
<1>5. ASSUME NEW b \in Bookings, GetBooking(c, b) PROVE call' \in [Calls -> CallState]
  BY <1>0, <1>1, <1>5 DEF GetBooking, Row
<1>6. CASE Refetch(c)
  <2>1. call[c].b \in Bookings
    BY <1>0, <1>6 DEF Refetch, At, Inv, Made
  <2> QED BY <1>0, <1>1, <1>6, <2>1 DEF Refetch, Row
<1>7. CASE CheckIdempotencyKey(c)
  BY <1>2, <1>3, <1>7 DEF CheckIdempotencyKey
<1>8. CASE Validate(c) \/ CacheCreated(c) \/ OfferFails(c) \/ CompletionFails(c) \/ Fill(c)
           \/ Drop(c) \/ Fails(c)
  BY <1>2, <1>3, <1>8 DEF Validate, CacheCreated, OfferFails, CompletionFails, Fill, Drop, Fails
<1>9. CASE StoreIdempotencyKey(c) \/ StoreUnanswered(c) \/ CompleteIdempotencyKey(c)
  BY <1>2, <1>3, <1>9 DEF StoreIdempotencyKey, StoreUnanswered, CompleteIdempotencyKey
<1>10. CASE Insert(c)
  BY <1>0, <1>1, <1>2, <1>10 DEF Insert
<1>11. ASSUME NEW b \in Bookings, UpdateBookingStatusInternal(c, b) \/ CommitOffer(c, b)
       PROVE  call' \in [Calls -> CallState]
  BY <1>0, <1>1, <1>11 DEF UpdateBookingStatusInternal, CommitOffer
<1> QED BY <1>4, <1>5, <1>6, <1>7, <1>8, <1>9, <1>10, <1>11 DEF Reads, Writes

LEMMA OthersStay ==
    ASSUME Inv, NEW c \in Calls, Reads(c) \/ Writes(c), NEW d \in Calls \ {c}
    PROVE  call'[d] = call[d]
<1>1. \A place, r, b, v : Become(c, place, r, b, v) => call'[d] = call[d]
  BY DEF Become, Inv, TypeOK
<1>2. \A place : Goto(c, place) => call'[d] = call[d]
  BY <1>1 DEF Goto
<1>3. Return(c) => call'[d] = call[d]
  BY DEF Return, Inv, TypeOK
<1>4. CASE \/ \E r \in Requests : CreateBooking(c, r)
           \/ \E b \in Bookings : GetBooking(c, b)
           \/ Refetch(c)
  BY <1>1, <1>4 DEF CreateBooking, GetBooking, Refetch
<1>5. CASE CheckIdempotencyKey(c) \/ Validate(c) \/ CacheCreated(c) \/ OfferFails(c)
           \/ CompletionFails(c) \/ Fill(c) \/ Drop(c) \/ Fails(c)
  BY <1>2, <1>3, <1>5 DEF CheckIdempotencyKey, Validate, CacheCreated, OfferFails,
                          CompletionFails, Fill, Drop, Fails
<1>6. CASE Writes(c)
  BY <1>1, <1>2, <1>3, <1>6 DEF Writes, StoreIdempotencyKey, StoreUnanswered, Insert,
     CompleteIdempotencyKey, UpdateBookingStatusInternal, CommitOffer
<1> QED BY <1>4, <1>5, <1>6 DEF Reads

\* The tables under these steps.
LEMMA TablesStay ==
    ASSUME Inv, NEW c \in Calls, Reads(c)
    PROVE  /\ record' = record /\ booking' = booking
           /\ creations' \in Nat /\ faults' \in Nat
           /\ cached' \in [Bookings -> Nat] /\ raced' \subseteq Bookings
           /\ broken' \subseteq Keys /\ broken \subseteq broken'
<1>1. record' = record /\ booking' = booking
  BY DEF Reads, CreateBooking, CheckIdempotencyKey, Validate, CacheCreated, OfferFails,
         CompletionFails, GetBooking, Refetch, Fill, Drop, Fails
<1>2. creations' \in Nat /\ faults' \in Nat
  BY DEF Reads, CreateBooking, CheckIdempotencyKey, Validate, CacheCreated, OfferFails,
         CompletionFails, GetBooking, Refetch, Fill, Drop, Fails, Fault, Bounds, Inv, TypeOK
<1>3. broken' \subseteq Keys /\ broken \subseteq broken'
  BY DEF Reads, CreateBooking, CheckIdempotencyKey, Validate, CacheCreated, OfferFails,
         CompletionFails, GetBooking, Refetch, Fill, Drop, Fails, Break, Inv, TypeOK
<1>4. call[c].seen \in Nat
  BY DEF Inv, TypeOK
<1>5. cached' \in [Bookings -> Nat]
  BY <1>4 DEF Reads, CreateBooking, CheckIdempotencyKey, Validate, CacheCreated, OfferFails,
         CompletionFails, GetBooking, Refetch, Fill, Drop, Fails, Forget, Cache, Inv, TypeOK
<1>6. raced' \subseteq Bookings
  <2>1. CASE Fails(c)
    <3>1. c \in Touching(call[c].b) => call[c].b \in Bookings
      BY DEF Touching, Inv, Made, TypeOK
    <3> QED BY <2>1, <3>1 DEF Fails, Inv, TypeOK
  <2>2. CASE ~Fails(c)
    BY <2>2 DEF Reads, CreateBooking, CheckIdempotencyKey, Validate, CacheCreated, OfferFails,
         CompletionFails, GetBooking, Refetch, Fill, Drop, Forget, Cache, Inv, TypeOK
  <2> QED BY <2>1, <2>2
<1> QED BY <1>1, <1>2, <1>3, <1>5, <1>6

\* Requests of these steps are real ones where the step answers.
LEMMA AnswersOwn ==
    ASSUME Inv, NEW c \in Calls, NEW b \in Existing, Answer(c, b),
           call[c].request \in Requests,
           LET made == booking[b].request
               r == call[c].request
           IN  made.user = r.user /\ made.key = r.key /\ made.hash = r.hash
    PROVE  /\ answers' \subseteq [request : Requests, booking : Bookings]
           /\ \A a \in answers' :
                /\ a.booking \in Existing
                /\ LET made == booking[a.booking].request
                   IN  made.user = a.request.user /\ made.key = a.request.key
                       /\ made.hash = a.request.hash
BY DEF Answer, Inv, TypeOK, OwnAnswers, Existing

LEMMA AnswersRead ==
    ASSUME Inv, NEW c \in Calls, Reads(c)
    PROVE  /\ answers' \subseteq [request : Requests, booking : Bookings]
           /\ OwnAnswers'
<1>0. booking' = booking /\ Existing' = Existing
  BY TablesStay DEF Existing
<1>1. CASE UNCHANGED answers
  BY <1>0, <1>1 DEF Inv, TypeOK, OwnAnswers
<1>2. CASE CheckIdempotencyKey(c) /\ ~UNCHANGED answers
  <2> DEFINE r == call[c].request
             k == r.key
  <2>1. /\ call[c].at = "check" /\ Applies(k, r) /\ Matches(k, r)
        /\ record[k].status = "completed" /\ Answer(c, record[k].booking)
    BY <1>2 DEF CheckIdempotencyKey, At
  <2>2. r \in Requests /\ k \in Keys
    BY <2>1 DEF Inv, Places
  <2>3. /\ record[k].booking \in Existing /\ record[k].request.key = k
        /\ booking[record[k].booking].request = record[k].request
    BY <2>1, <2>2 DEF Inv, Recorded
  <2> QED BY <1>0, <2>1, <2>2, <2>3, AnswersOwn DEF Applies, Matches, OwnAnswers
<1>3. CASE CompletionFails(c)
  <2>1. call[c].at = "complete" /\ Answer(c, call[c].b) /\ call[c].request \in Requests
    BY <1>3 DEF CompletionFails, At, Inv, Places
  <2>2. call[c].b \in Existing
    BY <2>1 DEF Inv, Made
  <2>3. call[c].request.key = booking[call[c].b].request.key
        /\ call[c].request.user = booking[call[c].b].request.user
        /\ call[c].request.hash = booking[call[c].b].request.hash
    BY <2>1 DEF Inv, Made, Creating
  <2> QED BY <1>0, <2>1, <2>2, <2>3, AnswersOwn DEF OwnAnswers
<1> QED
  BY <1>1, <1>2, <1>3 DEF Reads, CreateBooking, Validate, CacheCreated, OfferFails, GetBooking,
     Refetch, Fill, Drop, Fails

LEMMA Moving ==
    ASSUME TypeOK, NEW c \in Calls
    PROVE  /\ \A place, r, b, v : Become(c, place, r, b, v) =>
                call'[c] = [at |-> place, request |-> r, b |-> b, seen |-> v]
           /\ \A place : Goto(c, place) =>
                call'[c] = [at |-> place, request |-> call[c].request, b |-> call[c].b,
                            seen |-> call[c].seen]
           /\ Return(c) => call'[c] = [at |-> "idle", request |-> NoRequest, b |-> 0, seen |-> 0]
BY DEF Become, Goto, Return, Idle, TypeOK

-----------------------------------------------------------------------------
(***************************************************************************)
(* The keys.                                                               *)
(***************************************************************************)

\* What a step of a call must do to keep the part of the invariant about keys.
MovesAlong(c) ==
    /\ \A k \in Keys :
          /\ Owns(c, k)' => Owns(c, k) /\ call'[c].request = call[c].request
          /\ Owns(c, k) => Owns(c, k)' \/ k \in broken'
    /\ call'[c].b # 0 => call'[c].b \in Existing
    /\ call'[c].at \in {"cache", "refetch", "fill", "drop", "complete", "offer"} => call'[c].b # 0
    /\ Creating(c)' => booking[call'[c].b].request = call'[c].request
    /\ call'[c].at \in {"validate", "insert"} =>
          \/ call'[c].request.key = NoKey
          \/ call[c].at \in {"validate", "insert"} /\ call'[c].request = call[c].request
    /\ call'[c].at \in {"check", "store", "validate", "insert", "cache", "offer", "complete"}
          => call'[c].request \in Requests
    /\ call'[c].at \in {"check", "store"} => call'[c].request.key \in Keys
    /\ call'[c].at \in {"idle", "refetch", "fill"} => call'[c].request = NoRequest

LEMMA ReadsMoveAlong ==
    ASSUME Inv, NEW c \in Calls, Reads(c)
    PROVE  MovesAlong(c)
<1> USE Moving, NoRequestHasNoKey DEF MovesAlong, At
<1>0. TypeOK /\ Places /\ Made /\ broken \subseteq broken'
  BY TablesStay DEF Inv
<1>1. ASSUME NEW r \in Requests, CreateBooking(c, r) PROVE MovesAlong(c)
  <2>1. call[c].at = "idle" /\ call[c].request = NoRequest
    BY <1>0, <1>1 DEF CreateBooking, Places
  <2>2. call'[c] = [at |-> IF r.key = NoKey THEN "validate" ELSE "check",
                    request |-> r, b |-> 0, seen |-> 0]
    BY <1>0, <1>1 DEF CreateBooking
  <2>3. r.key \in Keys \cup {NoKey}
    BY ParametersAssumption
  <2> QED BY <2>1, <2>2, <2>3 DEF Owns, Creating
<1>2. ASSUME NEW b \in Bookings, GetBooking(c, b) PROVE MovesAlong(c)
  <2>1. call[c].at = "idle" /\ call[c].request = NoRequest /\ b \in Existing
    BY <1>0, <1>2 DEF GetBooking, Places
  <2>2. call'[c] = [at |-> "fill", request |-> NoRequest, b |-> b,
                    seen |-> booking[b].version]
    BY <1>0, <1>2 DEF GetBooking
  <2>3. b # 0
    BY DEF Bookings
  <2> QED BY <2>1, <2>2, <2>3 DEF Owns, Creating
<1>3. CASE Refetch(c)
  <2>1. call[c].at = "refetch" /\ call[c].request = NoRequest
    BY <1>0, <1>3 DEF Refetch, Places
  <2>2. call'[c] = [at |-> "fill", request |-> NoRequest, b |-> call[c].b,
                    seen |-> booking[call[c].b].version]
    BY <1>0, <1>3 DEF Refetch
  <2>3. call[c].b # 0 /\ call[c].b \in Existing
    BY <1>0, <2>1 DEF Made
  <2> QED BY <2>1, <2>2, <2>3 DEF Owns, Creating
<1>4. CASE CheckIdempotencyKey(c)
  <2>1. call[c].at = "check"
    BY <1>4 DEF CheckIdempotencyKey
  <2>2. CASE Goto(c, "store")
    <3>1. call'[c] = [at |-> "store", request |-> call[c].request, b |-> call[c].b,
                      seen |-> call[c].seen]
      BY <1>0, <2>2
    <3>2. /\ call[c].b # 0 => call[c].b \in Existing
          /\ call[c].request \in Requests /\ call[c].request.key \in Keys
      BY <1>0, <2>1 DEF Made, Places
    <3> QED BY <2>1, <3>1, <3>2 DEF Owns, Creating
  <2>3. CASE Return(c)
    BY <1>0, <2>1, <2>3 DEF Owns, Creating
  <2> QED BY <1>4, <2>2, <2>3 DEF CheckIdempotencyKey
<1>5. CASE Validate(c)
  <2>1. call[c].at = "validate"
    BY <1>5 DEF Validate
  <2>2. CASE Goto(c, "insert")
    <3>1. call'[c] = [at |-> "insert", request |-> call[c].request, b |-> call[c].b,
                      seen |-> call[c].seen]
      BY <1>0, <2>2
    <3>2. /\ call[c].b # 0 => call[c].b \in Existing
          /\ call[c].request \in Requests
      BY <1>0, <2>1 DEF Made, Places
    <3> QED BY <2>1, <3>1, <3>2 DEF Owns, Creating
  <2>3. CASE Return(c) /\ Break(c)
    BY <1>0, <2>1, <2>3 DEF Owns, Creating, Break
  <2> QED BY <1>5, <2>2, <2>3 DEF Validate
<1>6. CASE CacheCreated(c) \/ OfferFails(c)
  <2>1. call[c].at \in {"cache", "offer"}
    BY <1>6 DEF CacheCreated, OfferFails
  <2>2. \E place \in {"offer", "complete"} : Goto(c, place)
    BY <1>6 DEF CacheCreated, OfferFails
  <2>3. PICK place \in {"offer", "complete"} :
           call'[c] = [at |-> place, request |-> call[c].request, b |-> call[c].b,
                       seen |-> call[c].seen]
    BY <1>0, <2>2
  <2>4. /\ call[c].b # 0 /\ call[c].b \in Existing
        /\ call[c].request \in Requests
        /\ booking[call[c].b].request = call[c].request
    BY <1>0, <2>1 DEF Made, Places, Creating
  <2> QED BY <2>1, <2>3, <2>4 DEF Owns, Creating
<1>7. CASE CompletionFails(c)
  BY <1>0, <1>7 DEF CompletionFails, Owns, Creating, Break
<1>8. CASE Fill(c)
  <2>1. call[c].request = NoRequest /\ Return(c)
    BY <1>0, <1>8 DEF Fill, Places
  <2> QED BY <1>0, <2>1 DEF Owns, Creating
<1>9. CASE Drop(c)
  <2>1. call[c].at = "drop"
    BY <1>9 DEF Drop
  <2>2. CASE call[c].request = NoRequest /\ Return(c)
    BY <1>0, <2>1, <2>2 DEF Owns, Creating
  <2>3. CASE call[c].request # NoRequest /\ Goto(c, "complete")
    <3>1. /\ call[c].request \in Requests
          /\ call[c].b # 0 /\ call[c].b \in Existing
          /\ booking[call[c].b].request = call[c].request
      BY <1>0, <2>1, <2>3 DEF TypeOK, Made, Creating
    <3>2. call'[c] = [at |-> "complete", request |-> call[c].request, b |-> call[c].b,
                      seen |-> call[c].seen]
      BY <1>0, <2>3
    <3> QED BY <2>1, <3>1, <3>2 DEF Owns, Creating
  <2> QED BY <1>9, <2>2, <2>3 DEF Drop
<1>10. CASE Fails(c)
  BY <1>0, <1>10 DEF Fails, Owns, Creating, Break
<1> QED
  BY <1>1, <1>2, <1>3, <1>4, <1>5, <1>6, <1>7, <1>8, <1>9, <1>10 DEF Reads

\* So does a call that stays where it is.
LEMMA StandingMovesAlong ==
    ASSUME Inv, NEW d \in Calls, call'[d] = call[d]
    PROVE  MovesAlong(d)
BY DEF MovesAlong, Inv, Made, Places, Owns, Creating

\* If all calls move along, records keep their contents and rows only change their
\* version, the keys stay in order.
LEMMA KeysStay ==
    ASSUME Inv, \A d \in Calls : MovesAlong(d), broken \subseteq broken', Existing' = Existing,
           \A k \in Keys : /\ record'[k].status = record[k].status
                            /\ record'[k].request = record[k].request
                            /\ record'[k].booking = record[k].booking,
           \A b \in Existing : booking'[b].request = booking[b].request
    PROVE  OneOwner' /\ Made' /\ Places' /\ Recorded' /\ OnePerKey' /\ Owned' /\ Fresh'
<1>1. \A k \in Keys, d \in Calls : Owns(d, k)' => Owns(d, k) /\ call'[d].request = call[d].request
  BY DEF MovesAlong
<1>2. OneOwner'
  BY <1>1 DEF Inv, OneOwner
<1>3. Made'
  <2>1. \A d \in Calls :
           /\ call'[d].b # 0 => call'[d].b \in Existing
           /\ call'[d].at \in {"cache", "refetch", "fill", "drop", "complete", "offer"}
                => call'[d].b # 0
           /\ Creating(d)' => call'[d].b # 0
           /\ Creating(d)' => booking[call'[d].b].request = call'[d].request
    BY DEF MovesAlong, Creating
  <2>2. ASSUME NEW d \in Calls, call'[d].at \in {"validate", "insert"}, NEW b \in Existing,
               booking[b].request.key = call'[d].request.key
        PROVE  call'[d].request.key = NoKey
    BY <2>2 DEF MovesAlong, Inv, Made
  <2>3. \A k \in Keys : record'[k].status = "none" =>
           \A b \in Existing : booking'[b].request.key # k
    BY DEF Inv, Made
  <2> QED BY <2>1, <2>2, <2>3 DEF Made
<1>4. Places'
  BY DEF MovesAlong, Places
<1>5. Recorded' /\ OnePerKey'
  BY DEF Inv, Recorded, OnePerKey
<1>6. Owned'
  BY DEF MovesAlong, Inv, Owned
<1> QED BY <1>2, <1>3, <1>4, <1>5, <1>6 DEF Inv, Fresh

\* A change of a row leaves the request that made the booking.
LEMMA ChangeTypes ==
    ASSUME Inv, NEW b \in Bookings, booking[b].version \in 1..(MaxVersion - 1),
           booking' = [booking EXCEPT ![b] = Changed(booking[b])]
    PROVE  /\ booking' \in [Bookings -> Row] /\ Existing' = Existing /\ b \in Existing
           /\ \A x \in Bookings : booking'[x].request = booking[x].request
           /\ \A x \in Bookings \ {b} : booking'[x] = booking[x]
<1>0. booking \in [Bookings -> Row] /\ MaxVersion \in Nat
  BY ParametersAssumption DEF Inv, TypeOK
<1>1. \A x \in Bookings \ {b} : booking'[x] = booking[x]
  BY <1>0
<1>2. booking'[b] = [version |-> booking[b].version + 1, request |-> booking[b].request]
  BY <1>0 DEF Changed
<1>3. booking[b].version + 1 \in Nat /\ booking[b].request \in Requests \cup {NoRequest}
      /\ booking[b].version > 0 /\ booking[b].version + 1 > 0
  BY <1>0 DEF Row
<1>4. booking' \in [Bookings -> Row]
  BY <1>0, <1>2, <1>3 DEF Row
<1>5. \A x \in Bookings : booking'[x].version > 0 <=> booking[x].version > 0
  BY <1>1, <1>2, <1>3
<1> QED BY <1>1, <1>2, <1>3, <1>4, <1>5 DEF Existing

LEMMA SameExisting == booking' = booking => Existing' = Existing
BY DEF Existing

\* A key that no record had is stored.
LEMMA StoredKeys ==
    ASSUME Inv, NEW c \in Calls, At(c, "store"), NEW r, NEW k,
           call[c].request = r, r.key = k, record[k].status = "none",
           record' = [record EXCEPT ![k] = Processing(r)],
           booking' = booking, broken \subseteq broken',
           \A d \in Calls \ {c} : call'[d] = call[d],
           \/ Goto(c, "validate")
           \/ Return(c) /\ k \in broken'
    PROVE  /\ OneOwner' /\ Made' /\ Places' /\ Recorded' /\ OnePerKey' /\ Owned' /\ Fresh'
           /\ record' \in [Keys -> Kept]
<1>0. /\ TypeOK /\ OneOwner /\ Made /\ Places /\ Recorded /\ OnePerKey /\ Owned /\ Fresh
      /\ record \in [Keys -> Kept]
  BY DEF Inv, TypeOK, Kept
<1>1. r \in Requests /\ k \in Keys /\ call[c].at = "store"
  BY <1>0 DEF Places, At
<1>2. /\ record'[k] = [status |-> "processing", request |-> r, booking |-> 0, expired |-> FALSE]
      /\ \A j \in Keys \ {k} : record'[j] = record[j]
  BY <1>0, <1>1 DEF Processing
<1>3. record' \in [Keys -> Kept]
  BY <1>0, <1>1 DEF Processing, Kept
<1>4. \/ call'[c] = [at |-> "validate", request |-> r, b |-> call[c].b, seen |-> call[c].seen]
      \/ /\ call'[c] = [at |-> "idle", request |-> NoRequest, b |-> 0, seen |-> 0]
         /\ k \in broken'
  BY <1>0, Moving
<1>5. \A d \in Calls : ~Owns(d, k)
  BY <1>0, <1>1 DEF OneOwner
<1>6. \A d \in Calls, j \in Keys :
         Owns(d, j)' => \/ d = c /\ j = k
                        \/ d # c /\ j # k /\ Owns(d, j) /\ call'[d] = call[d]
  BY <1>1, <1>4, <1>5, NoRequestHasNoKey DEF Owns
<1>7. Owns(c, k)' => call'[c].request = r
  BY <1>4, <1>1, NoRequestHasNoKey DEF Owns
<1>8. OneOwner'
  <2>1. ASSUME NEW j \in Keys, NEW d \in Calls, NEW e \in Calls, Owns(d, j)', Owns(e, j)'
        PROVE  d = e
    <3>1. CASE j = k
      BY <1>6, <2>1, <3>1
    <3>2. CASE j # k
      <4>1. Owns(d, j) /\ Owns(e, j)
        BY <1>6, <2>1, <3>2
      <4> QED BY <1>0, <4>1 DEF OneOwner
    <3> QED BY <3>1, <3>2
  <2>2. ASSUME NEW j \in Keys, NEW d \in Calls, Owns(d, j)'
        PROVE  record'[j].status = "processing" /\ record'[j].request = call'[d].request
    <3>1. CASE j = k
      <4>1. d = c
        BY <1>6, <2>2, <3>1
      <4> QED BY <1>2, <1>7, <2>2, <3>1, <4>1
    <3>2. CASE j # k
      <4>1. Owns(d, j) /\ call'[d] = call[d] /\ record'[j] = record[j]
        BY <1>2, <1>6, <2>2, <3>2
      <4> QED BY <1>0, <4>1 DEF OneOwner
    <3> QED BY <3>1, <3>2
  <2> QED BY <2>1, <2>2 DEF OneOwner
<1>9. Existing' = Existing
  BY SameExisting
<1>10. Made'
  <2>1. \A d \in Calls :
           /\ call'[d].b # 0 => call'[d].b \in Existing
           /\ call'[d].at \in {"cache", "refetch", "fill", "drop", "complete", "offer"}
                => call'[d].b # 0
           /\ Creating(d)' => booking[call'[d].b].request = call'[d].request
    BY <1>0, <1>4 DEF Made, Creating
  <2>2. \A d \in Calls : call'[d].at \in {"validate", "insert"} =>
           \A b \in Existing : booking[b].request.key = call'[d].request.key =>
                                   call'[d].request.key = NoKey
    BY <1>0, <1>1, <1>4 DEF Made
  <2>3. \A j \in Keys : record'[j].status = "none" => record[j].status = "none"
    BY <1>2
  <2> QED BY <1>0, <1>9, <2>1, <2>2, <2>3 DEF Made
<1>11. Places'
  BY <1>0, <1>1, <1>4 DEF Places
<1>12. Recorded' /\ OnePerKey'
  BY <1>0, <1>2, <1>9 DEF Recorded, OnePerKey
<1>13. Owned'
  <2>1. ASSUME NEW d \in Calls, NEW j \in Keys \ {k}, Owns(d, j) PROVE Owns(d, j)'
    BY <1>1, <2>1 DEF Owns
  <2>2. Owns(c, k)' \/ k \in broken'
    BY <1>4 DEF Owns
  <2>3. ASSUME NEW j \in Keys, record'[j].status = "processing"
        PROVE  j \in broken' \/ \E d \in Calls : Owns(d, j)'
    <3>1. CASE j = k
      BY <2>2, <3>1
    <3>2. CASE j # k
      <4>1. j \in broken \/ \E d \in Calls : Owns(d, j)
        BY <1>0, <1>2, <2>3, <3>2 DEF Owned
      <4> QED BY <2>1, <3>2, <4>1
    <3> QED BY <3>1, <3>2
  <2> QED BY <2>3 DEF Owned
<1> QED BY <1>0, <1>3, <1>8, <1>9, <1>10, <1>11, <1>12, <1>13 DEF Fresh

\* A new booking gets a number of its own.
LEMMA NextNumber ==
    ASSUME Fresh, NEW b, b = 1 + Cardinality(Existing)
    PROVE  b \notin Existing /\ \E n \in Nat : Existing \cup {b} = 1..n
<1>1. PICK n \in Nat : Existing = 1..n
  BY DEF Fresh
<1>2. Cardinality(1..n) = n
  BY FS_Interval
<1>3. b = n + 1
  BY <1>1, <1>2
<1>4. (1..n) \cup {n + 1} = 1..(n + 1) /\ n + 1 \notin 1..n
  OBVIOUS
<1> QED BY <1>1, <1>3, <1>4

LEMMA InsertedKeys ==
    ASSUME Inv, NEW c \in Calls, NEW b \in Bookings, NEW r, NEW k,
           At(c, "insert"), call[c].request = r, r.key = k, b = 1 + Cardinality(Existing),
           record' = record, broken \subseteq broken', answers' = answers,
           booking' = [booking EXCEPT ![b] = [version |-> 1, request |-> r]],
           \A d \in Calls \ {c} : call'[d] = call[d],
           \/ Become(c, "cache", r, b, 1)
           \/ Return(c) /\ Break(c)
    PROVE  /\ OneOwner' /\ Made' /\ Places' /\ Recorded' /\ OnePerKey' /\ Owned' /\ Fresh'
           /\ OwnAnswers' /\ booking' \in [Bookings -> Row]
<1>0. /\ TypeOK /\ OneOwner /\ Made /\ Places /\ Recorded /\ OnePerKey /\ Owned /\ Fresh
      /\ OwnAnswers /\ booking \in [Bookings -> Row]
  BY DEF Inv, TypeOK
<1>1. r \in Requests /\ call[c].at = "insert" /\ r.key \in Keys \cup {NoKey}
  BY <1>0, ParametersAssumption DEF Places, At
<1>2. /\ booking'[b] = [version |-> 1, request |-> r]
      /\ \A x \in Bookings \ {b} : booking'[x] = booking[x]
      /\ booking' \in [Bookings -> Row]
  BY <1>0, <1>1 DEF Row
<1>3. b \notin Existing /\ \E n \in Nat : Existing \cup {b} = 1..n
  BY <1>0, NextNumber
<1>4. /\ Existing' = Existing \cup {b}
      /\ \A x \in Existing : booking'[x] = booking[x]
      /\ b # 0
  BY <1>2, <1>3 DEF Existing, Bookings
<1>5. \/ call'[c] = [at |-> "cache", request |-> r, b |-> b, seen |-> 1]
      \/ /\ call'[c] = [at |-> "idle", request |-> NoRequest, b |-> 0, seen |-> 0]
         /\ k \in Keys => k \in broken'
  BY <1>0, Moving DEF Break
<1>6. \A d \in Calls, j \in Keys : Owns(d, j)' => Owns(d, j) /\ call'[d].request = call[d].request
  BY <1>1, <1>5, NoRequestHasNoKey DEF Owns
<1>7. OneOwner'
  BY <1>0, <1>6 DEF OneOwner
<1>8. \A x \in Existing : booking[x].request.key = k => k = NoKey
  BY <1>0, <1>1 DEF Made
<1>9. Made'
  <2>1. \A d \in Calls :
           /\ call'[d].b # 0 => call'[d].b \in Existing'
           /\ call'[d].at \in {"cache", "refetch", "fill", "drop", "complete", "offer"}
                => call'[d].b # 0
    BY <1>0, <1>4, <1>5 DEF Made
  <2>2. ASSUME NEW d \in Calls, Creating(d)'
        PROVE  booking'[call'[d].b].request = call'[d].request
    <3>1. CASE d = c
      BY <1>2, <1>5, <2>2, <3>1 DEF Creating
    <3>2. CASE d # c
      <4>1. Creating(d) /\ call'[d] = call[d] /\ call[d].b \in Existing
        BY <1>0, <2>2, <3>2 DEF Creating, Made
      <4> QED BY <1>0, <1>4, <4>1 DEF Made
    <3> QED BY <3>1, <3>2
  <2>3. ASSUME NEW d \in Calls, call'[d].at \in {"validate", "insert"}, NEW x \in Existing',
               booking'[x].request.key = call'[d].request.key
        PROVE  call'[d].request.key = NoKey
    <3>1. d # c /\ call'[d] = call[d]
      BY <1>5, <2>3
    <3>2. CASE x = b
      <4>1. call[d].request.key = k
        BY <1>2, <2>3, <3>1, <3>2
      <4>2. k \in Keys => Owns(d, k) /\ Owns(c, k)
        BY <1>1, <2>3, <3>1, <4>1 DEF Owns
      <4> QED BY <1>0, <1>1, <3>1, <4>1, <4>2 DEF OneOwner
    <3>3. CASE x # b
      BY <1>0, <1>4, <2>3, <3>1, <3>3 DEF Made
    <3> QED BY <3>2, <3>3
  <2>4. ASSUME NEW j \in Keys, record'[j].status = "none", NEW x \in Existing'
        PROVE  booking'[x].request.key # j
    <3>1. CASE x = b
      <4>1. k \in Keys => Owns(c, k)
        BY <1>1 DEF Owns
      <4> QED BY <1>0, <1>2, <2>4, <3>1, <4>1 DEF OneOwner
    <3>2. CASE x # b
      BY <1>0, <1>4, <2>4, <3>2 DEF Made
    <3> QED BY <3>1, <3>2
  <2> QED BY <2>1, <2>2, <2>3, <2>4 DEF Made
<1>10. Places'
  BY <1>0, <1>1, <1>5 DEF Places
<1>11. Recorded'
  BY <1>0, <1>4 DEF Recorded
<1>12. OnePerKey'
  <2>1. ASSUME NEW x \in Existing', NEW y \in Existing', x # y,
               booking'[x].request.key = booking'[y].request.key
        PROVE  booking'[x].request.key = NoKey
    <3>1. CASE x = b \/ y = b
      BY <1>2, <1>4, <1>8, <2>1, <3>1
    <3>2. CASE x # b /\ y # b
      BY <1>0, <1>4, <2>1, <3>2 DEF OnePerKey
    <3> QED BY <3>1, <3>2
  <2> QED BY <2>1 DEF OnePerKey
<1>13. Owned'
  <2>1. ASSUME NEW j \in Keys, NEW d \in Calls, Owns(d, j)
        PROVE  Owns(d, j)' \/ j \in broken'
    BY <1>1, <1>5, <2>1 DEF Owns
  <2> QED BY <1>0, <2>1 DEF Owned
<1>14. OwnAnswers'
  BY <1>0, <1>4 DEF OwnAnswers
<1>15. Fresh'
  BY <1>3, <1>4 DEF Fresh
<1> QED BY <1>2, <1>7, <1>9, <1>10, <1>11, <1>12, <1>13, <1>14, <1>15

LEMMA CompletedKeys ==
    ASSUME Inv, NEW c \in Calls, NEW r, NEW k \in Keys, NEW b,
           At(c, "complete"), call[c].request = r, r.key = k, call[c].b = b,
           record' = [record EXCEPT ![k] = Completed(record[k], b)],
           booking' = booking, broken' = broken, Return(c),
           \A d \in Calls \ {c} : call'[d] = call[d]
    PROVE  /\ OneOwner' /\ Made' /\ Places' /\ Recorded' /\ OnePerKey' /\ Owned' /\ Fresh'
           /\ record' \in [Keys -> Kept]
<1>0. /\ TypeOK /\ OneOwner /\ Made /\ Places /\ Recorded /\ OnePerKey /\ Owned /\ Fresh
      /\ record \in [Keys -> Kept] /\ Existing' = Existing
  BY SameExisting DEF Inv, TypeOK, Kept
<1>1. r \in Requests /\ call[c].at = "complete" /\ b \in Existing /\ booking[b].request = r
  BY <1>0 DEF Places, At, Made, Creating
<1>2. Owns(c, k) /\ record[k].request = r
  BY <1>0, <1>1 DEF Owns, OneOwner
<1>3. /\ record'[k].status = "completed" /\ record'[k].request = r /\ record'[k].booking = b
      /\ \A j \in Keys \ {k} : record'[j] = record[j]
      /\ record' \in [Keys -> Kept]
  <2>1. record'[k] = [status |-> "completed", request |-> r, booking |-> b,
                      expired |-> record[k].expired]
    BY <1>0, <1>2 DEF Completed
  <2>2. record'[k] \in Kept
    BY <1>0, <1>1, <2>1 DEF Kept, Existing
  <2> QED BY <1>0, <2>1, <2>2
<1>4. call'[c] = [at |-> "idle", request |-> NoRequest, b |-> 0, seen |-> 0]
  BY <1>0, Moving
<1>5. \A d \in Calls, j \in Keys :
         Owns(d, j)' => d # c /\ j # k /\ Owns(d, j) /\ call'[d] = call[d]
  <2>1. ASSUME NEW d \in Calls, NEW j \in Keys, Owns(d, j)'
        PROVE  d # c /\ Owns(d, j) /\ call'[d] = call[d]
    BY <1>4, <2>1, NoRequestHasNoKey DEF Owns
  <2> QED BY <1>0, <1>2, <2>1 DEF OneOwner
<1>6. OneOwner'
  BY <1>0, <1>3, <1>5 DEF OneOwner
<1>7. Made'
  <2>1. \A d \in Calls :
           /\ call'[d].b # 0 => call'[d].b \in Existing
           /\ call'[d].at \in {"cache", "refetch", "fill", "drop", "complete", "offer"}
                => call'[d].b # 0
           /\ Creating(d)' => booking[call'[d].b].request = call'[d].request
           /\ call'[d].at \in {"validate", "insert"} =>
                \A x \in Existing : booking[x].request.key = call'[d].request.key =>
                                        call'[d].request.key = NoKey
    BY <1>0, <1>4 DEF Made, Creating
  <2>2. \A j \in Keys : record'[j].status = "none" => record[j].status = "none"
    BY <1>3
  <2> QED BY <1>0, <2>1, <2>2 DEF Made
<1>8. Places'
  BY <1>0, <1>4 DEF Places
<1>9. Recorded' /\ OnePerKey'
  <2>1. ASSUME NEW j \in Keys
        PROVE  /\ record'[j].status # "none" => record'[j].request.key = j
               /\ record'[j].status = "completed" =>
                     /\ record'[j].booking \in Existing
                     /\ booking[record'[j].booking].request = record'[j].request
    BY <1>0, <1>1, <1>3 DEF Recorded
  <2> QED BY <1>0, <2>1 DEF Recorded, OnePerKey
<1>10. Owned'
  <2>1. ASSUME NEW j \in Keys, record'[j].status = "processing"
        PROVE  j \in broken' \/ \E d \in Calls : Owns(d, j)'
    <3>1. j # k /\ record[j].status = "processing"
      BY <1>3, <2>1
    <3>2. j \in broken \/ \E d \in Calls : Owns(d, j)
      BY <1>0, <3>1 DEF Owned
    <3>3. \A d \in Calls : Owns(d, j) => Owns(d, j)'
      BY <1>1, <3>1 DEF Owns
    <3> QED BY <3>2, <3>3
  <2> QED BY <2>1 DEF Owned
<1> QED BY <1>0, <1>3, <1>6, <1>7, <1>8, <1>9, <1>10 DEF Fresh

-----------------------------------------------------------------------------
(***************************************************************************)
(* The cache.                                                              *)
(***************************************************************************)

\* A step that leaves the cache and the rows alone and reads what is there.
LEMMA CopiesStay ==
    ASSUME Inv, NEW c \in Calls, UNCHANGED <<booking, cached, raced>>,
           \A d \in Calls \ {c} : call'[d] = call[d],
           call'[c].at \in {"cache", "fill"} => call'[c].seen = booking[call'[c].b].version,
           call[c].at \in {"cache", "refetch", "fill", "drop"} =>
              /\ call'[c].at \in {"cache", "refetch", "fill", "drop"}
              /\ call'[c].b = call[c].b
    PROVE  CopiesCurrent' /\ StaleOnlyIfOvertaken'
<1>1. CopiesCurrent'
  BY DEF Inv, CopiesCurrent
<1>2. \A b : Touching(b) \subseteq Touching(b)'
  BY DEF Touching
<1> QED BY <1>1, <1>2 DEF Inv, StaleOnlyIfOvertaken

\* A current copy is stored.
LEMMA CopyStored ==
    ASSUME Inv, NEW c \in Calls, NEW b \in Bookings, call[c].b = b,
           call[c].at \in {"cache", "fill"},
           booking' = booking, raced' = raced, cached' = [cached EXCEPT ![b] = call[c].seen],
           \A d \in Calls \ {c} : call'[d] = call[d],
           call'[c].at \in {"idle", "offer", "complete"}
    PROVE  CopiesCurrent' /\ StaleOnlyIfOvertaken'
<1>0. cached \in [Bookings -> Nat] /\ CopiesCurrent /\ StaleOnlyIfOvertaken
  BY DEF Inv, TypeOK
<1>1. CopiesCurrent'
  BY <1>0 DEF CopiesCurrent
<1>2. ASSUME NEW x \in Bookings
      PROVE  cached'[x] \in {0, booking[x].version} \/ x \in raced \/ Touching(x)' # {}
  <2>1. CASE x = b
    BY <1>0, <2>1 DEF CopiesCurrent
  <2>2. CASE x # b
    <3>1. \A d \in Touching(x) : d \in Touching(x)'
      BY <2>2 DEF Touching
    <3> QED BY <1>0, <2>2, <3>1 DEF StaleOnlyIfOvertaken
  <2> QED BY <2>1, <2>2
<1> QED BY <1>1, <1>2 DEF StaleOnlyIfOvertaken

\* The entry is dropped, by the call in S or, with S empty, by nobody.
LEMMA CopyForgotten ==
    ASSUME Inv, NEW S, NEW b \in Bookings, Forget(b, S), booking' = booking,
           \A d \in Calls \ S : call'[d] = call[d],
           \A d \in Calls \cap S : /\ call'[d].at \in {"idle", "complete"}
                                    /\ call[d].b = b
    PROVE  CopiesCurrent' /\ StaleOnlyIfOvertaken'
<1>0. cached \in [Bookings -> Nat] /\ CopiesCurrent /\ StaleOnlyIfOvertaken
      /\ raced \subseteq Bookings
  BY DEF Inv, TypeOK
<1>1. CopiesCurrent'
  <2>1. ASSUME NEW d \in Calls, call'[d].at \in {"cache", "fill"}
        PROVE  call'[d].b \in raced' \/ call'[d].seen = booking'[call'[d].b].version
    <3>1. d \notin S /\ call'[d] = call[d]
      BY <2>1
    <3>2. call[d].b \in raced \/ call[d].seen = booking[call[d].b].version
      BY <1>0, <2>1, <3>1 DEF CopiesCurrent
    <3>3. CASE call[d].b = b
      <4>1. d \in Touching(b)
        BY <2>1, <3>1, <3>3 DEF Touching
      <4> QED BY <3>1, <3>2, <4>1 DEF Forget
    <3>4. CASE call[d].b # b
      BY <3>1, <3>2, <3>4 DEF Forget
    <3> QED BY <3>3, <3>4
  <2> QED BY <2>1 DEF CopiesCurrent
<1>2. ASSUME NEW x \in Bookings
      PROVE  cached'[x] \in {0, booking[x].version} \/ x \in raced' \/ Touching(x)' # {}
  <2>1. CASE x = b
    BY <1>0, <2>1 DEF Forget
  <2>2. CASE x # b
    <3>1. \A d \in Touching(x) : d \in Touching(x)'
      BY <2>2 DEF Touching
    <3>2. cached'[x] = cached[x] /\ (x \in raced => x \in raced')
      BY <1>0, <2>2 DEF Forget
    <3> QED BY <1>0, <3>1, <3>2 DEF StaleOnlyIfOvertaken
  <2> QED BY <2>1, <2>2
<1> QED BY <1>1, <1>2 DEF StaleOnlyIfOvertaken

\* The row is changed by the call c, which is then to refresh or drop the entry.
LEMMA RowChanged ==
    ASSUME Inv, NEW c \in Calls, NEW b \in Bookings, Change(b, c), cached' = cached,
           call[c].at \in {"idle", "offer"},
           call'[c].at \in {"refetch", "drop"}, call'[c].b = b,
           \A d \in Calls \ {c} : call'[d] = call[d]
    PROVE  CopiesCurrent' /\ StaleOnlyIfOvertaken'
<1>0. CopiesCurrent /\ StaleOnlyIfOvertaken
  BY DEF Inv
<1>1. \A x \in Bookings \ {b} : booking'[x] = booking[x]
  BY ChangeTypes DEF Change
<1>2. raced \subseteq raced' /\ \A d \in Touching(b) : d # c => b \in raced'
  BY DEF Change
<1>3. CopiesCurrent'
  <2>1. ASSUME NEW d \in Calls, call'[d].at \in {"cache", "fill"}
        PROVE  call'[d].b \in raced' \/ call'[d].seen = booking'[call'[d].b].version
    <3>1. d # c /\ call'[d] = call[d] /\ call[d].b \in Bookings
      BY <2>1 DEF Inv, Made, TypeOK
    <3>2. CASE call[d].b = b
      BY <1>2, <2>1, <3>1, <3>2 DEF Touching
    <3>3. CASE call[d].b # b
      BY <1>0, <1>1, <1>2, <2>1, <3>1, <3>3 DEF CopiesCurrent
    <3> QED BY <3>2, <3>3
  <2> QED BY <2>1 DEF CopiesCurrent
<1>4. ASSUME NEW x \in Bookings
      PROVE  cached'[x] \in {0, booking'[x].version} \/ x \in raced' \/ Touching(x)' # {}
  <2>1. CASE x = b
    BY <2>1 DEF Touching
  <2>2. CASE x # b
    <3>1. \A d \in Touching(x) : d \in Touching(x)'
      BY DEF Touching
    <3> QED BY <1>0, <1>1, <1>2, <2>2, <3>1 DEF StaleOnlyIfOvertaken
  <2> QED BY <2>1, <2>2
<1> QED BY <1>3, <1>4 DEF StaleOnlyIfOvertaken

-----------------------------------------------------------------------------
(***************************************************************************)
(* Each step keeps the invariant.                                          *)
(***************************************************************************)

KeyInv == OneOwner /\ Made /\ Places /\ Recorded /\ OnePerKey /\ Owned /\ Fresh

LEMMA InitInv == Init => Inv
<1> SUFFICES ASSUME Init PROVE Inv
  OBVIOUS
<1> USE DEF Init
<1>1. TypeOK
  BY InitTypes
<1>2. Existing = 1..0
  BY DEF Existing, NoBooking
<1>3. Existing = {} /\ Fresh
  BY <1>2 DEF Fresh
<1>4. \A c \in Calls : call[c] = [at |-> "idle", request |-> NoRequest, b |-> 0, seen |-> 0]
  BY DEF Idle
<1>5. \A k \in Keys : record[k].status = "none"
  BY DEF NoRecord
<1>6. OneOwner
  BY <1>4, NoRequestHasNoKey DEF OneOwner, Owns
<1>7. Made /\ Places
  BY <1>3, <1>4 DEF Made, Places, Creating
<1>8. Recorded /\ OnePerKey /\ OwnAnswers /\ Owned
  BY <1>3, <1>5 DEF Recorded, OnePerKey, OwnAnswers, Owned
<1>9. CopiesCurrent /\ StaleOnlyIfOvertaken
  BY <1>4 DEF CopiesCurrent, StaleOnlyIfOvertaken
<1> QED BY <1>1, <1>3, <1>6, <1>7, <1>8, <1>9 DEF Inv

\* Where a call gets to.
LEMMA MovingTo ==
    ASSUME TypeOK, NEW c \in Calls
    PROVE  /\ \A place, r, b, v : Become(c, place, r, b, v) =>
                call'[c].at = place /\ call'[c].b = b /\ call'[c].seen = v
           /\ \A place : Goto(c, place) => call'[c].at = place /\ call'[c].b = call[c].b
           /\ Return(c) => call'[c].at = "idle"
<1>1. ASSUME NEW place, NEW r, NEW b, NEW v, Become(c, place, r, b, v)
      PROVE  call'[c].at = place /\ call'[c].b = b /\ call'[c].seen = v
  <2>1. call'[c] = [at |-> place, request |-> r, b |-> b, seen |-> v]
    BY <1>1, Moving
  <2> QED BY <2>1
<1>2. ASSUME NEW place, Goto(c, place)
      PROVE  call'[c].at = place /\ call'[c].b = call[c].b
  BY <1>1, <1>2 DEF Goto
<1>3. ASSUME Return(c) PROVE call'[c].at = "idle"
  BY <1>3, Moving
<1> QED BY <1>1, <1>2, <1>3

\* The copies under the steps that only read the tables.
LEMMA ReadsKeepCopies ==
    ASSUME Inv, NEW c \in Calls, Reads(c)
    PROVE  CopiesCurrent' /\ StaleOnlyIfOvertaken'
<1>m. /\ \A place, r, b, v : Become(c, place, r, b, v) =>
            call'[c].at = place /\ call'[c].b = b /\ call'[c].seen = v
      /\ \A place : Goto(c, place) => call'[c].at = place /\ call'[c].b = call[c].b
      /\ Return(c) => call'[c].at = "idle"
  BY MovingTo DEF Inv
<1> USE <1>m DEF At
<1>0. TypeOK /\ Made /\ booking' = booking /\ (\A d \in Calls \ {c} : call'[d] = call[d])
  BY TablesStay, OthersStay DEF Inv
<1>1. CASE \/ \E r \in Requests : CreateBooking(c, r)
           \/ \E b \in Bookings : GetBooking(c, b)
           \/ Refetch(c)
  <2>1. UNCHANGED <<cached, raced>>
    BY <1>1 DEF CreateBooking, GetBooking, Refetch, Cache
  <2>2. /\ call[c].at \in {"idle", "refetch"}
        /\ call'[c].at \in {"validate", "check", "fill"}
        /\ call'[c].at = "fill" => call'[c].seen = booking[call'[c].b].version
        /\ call[c].at = "refetch" => call'[c].at = "fill" /\ call'[c].b = call[c].b
    BY <1>0, <1>1 DEF CreateBooking, GetBooking, Refetch
  <2> QED BY <1>0, <2>1, <2>2, CopiesStay
<1>2. CASE CheckIdempotencyKey(c) \/ Validate(c) \/ OfferFails(c) \/ CompletionFails(c)
  <2>1. UNCHANGED <<cached, raced>>
    BY <1>2 DEF CheckIdempotencyKey, Validate, OfferFails, CompletionFails, Cache
  <2>2. /\ call[c].at \in {"check", "validate", "offer", "complete"}
        /\ call'[c].at \in {"store", "insert", "complete", "idle"}
    BY <1>0, <1>2 DEF CheckIdempotencyKey, Validate, OfferFails, CompletionFails
  <2> QED BY <1>0, <2>1, <2>2, CopiesStay
<1>3. CASE CacheCreated(c) \/ Fill(c)
  <2>1. /\ call[c].at \in {"cache", "fill"} /\ raced' = raced
        /\ cached' = [cached EXCEPT ![call[c].b] = call[c].seen]
        /\ call'[c].at \in {"idle", "offer", "complete"}
    BY <1>0, <1>3 DEF CacheCreated, Fill
  <2>2. call[c].b \in Bookings
    BY <1>0, <2>1 DEF Made, TypeOK
  <2> QED BY <1>0, <2>1, <2>2, CopyStored
<1>4. CASE Drop(c)
  <2>1. /\ call[c].at = "drop" /\ Forget(call[c].b, {c})
        /\ call'[c].at \in {"idle", "complete"}
    BY <1>0, <1>4 DEF Drop
  <2>2. call[c].b \in Bookings
    BY <1>0, <2>1 DEF Made, TypeOK
  <2> QED BY <1>0, <2>1, <2>2, CopyForgotten
<1>5. CASE Fails(c)
  <2>1. /\ cached' = cached /\ call'[c].at = "idle"
        /\ raced' = IF c \in Touching(call[c].b) THEN raced \cup {call[c].b} ELSE raced
    BY <1>0, <1>5 DEF Fails
  <2>2. CopiesCurrent'
    BY <1>0, <2>1 DEF Inv, CopiesCurrent
  <2>3. ASSUME NEW x \in Bookings
        PROVE  cached'[x] \in {0, booking[x].version} \/ x \in raced' \/ Touching(x)' # {}
    <3>1. \A d \in Touching(x) : d \in Touching(x)' \/ x \in raced'
      BY <1>0, <2>1 DEF Touching
    <3>2. x \in raced => x \in raced'
      BY <2>1
    <3> QED BY <2>1, <3>1, <3>2 DEF Inv, StaleOnlyIfOvertaken
  <2> QED BY <1>0, <2>2, <2>3 DEF StaleOnlyIfOvertaken
<1> QED BY <1>1, <1>2, <1>3, <1>4, <1>5 DEF Reads

LEMMA ReadsKeep ==
    ASSUME Inv, NEW c \in Calls, Reads(c)
    PROVE  Inv'
<1>1. /\ record' = record /\ booking' = booking
      /\ creations' \in Nat /\ faults' \in Nat
      /\ cached' \in [Bookings -> Nat] /\ raced' \subseteq Bookings
      /\ broken' \subseteq Keys /\ broken \subseteq broken'
  BY TablesStay
<1>2. \A d \in Calls \ {c} : call'[d] = call[d]
  BY OthersStay
<1>3. \A d \in Calls : MovesAlong(d)
  BY <1>2, ReadsMoveAlong, StandingMovesAlong
<1>4. KeyInv'
  BY <1>1, <1>3, KeysStay, SameExisting DEF KeyInv
<1>5. answers' \subseteq [request : Requests, booking : Bookings] /\ OwnAnswers'
  BY AnswersRead
<1>6. TypeOK'
  BY <1>1, <1>5, CallTypes DEF Inv, TypeOK, CallState
<1> QED BY <1>4, <1>5, <1>6, ReadsKeepCopies DEF Inv, KeyInv

LEMMA StoresKeep ==
    ASSUME Inv, NEW c \in Calls, StoreIdempotencyKey(c) \/ StoreUnanswered(c)
    PROVE  Inv'
<1>m. /\ \A place, r, b, v : Become(c, place, r, b, v) =>
            call'[c].at = place /\ call'[c].b = b /\ call'[c].seen = v
      /\ \A place : Goto(c, place) => call'[c].at = place /\ call'[c].b = call[c].b
      /\ Return(c) => call'[c].at = "idle"
  BY MovingTo DEF Inv
<1> USE DEF At
<1>0. TypeOK /\ Places /\ Made
  BY DEF Inv
<1>1. /\ UNCHANGED <<booking, cached, raced, answers, creations>> /\ call[c].at = "store"
      /\ faults' \in Nat /\ broken \subseteq broken' /\ broken' \subseteq Keys
  BY <1>0 DEF StoreIdempotencyKey, StoreUnanswered, Cache, Bounds, Fault, Break, TypeOK
<1>2. call' \in [Calls -> CallState] /\ \A d \in Calls \ {c} : call'[d] = call[d]
  BY CallTypes, OthersStay DEF Writes
<1>3. KeyInv' /\ record' \in [Keys -> Kept]
  <2>1. CASE record' = record /\ Return(c)
    <3>1. MovesAlong(c)
      BY <1>0, <1>1, <2>1, Moving, NoRequestHasNoKey DEF MovesAlong, Owns, Creating
    <3>2. \A d \in Calls : MovesAlong(d)
      BY <1>2, <3>1, StandingMovesAlong
    <3> QED BY <1>0, <1>1, <2>1, <3>2, KeysStay, SameExisting DEF KeyInv, TypeOK, Kept
  <2>2. CASE ~(record' = record /\ Return(c))
    <3>1. /\ record[call[c].request.key].status = "none"
          /\ record' = [record EXCEPT ![call[c].request.key] = Processing(call[c].request)]
          /\ \/ Goto(c, "validate")
             \/ Return(c) /\ broken' = broken \cup ({call[c].request.key} \cap Keys)
      BY <2>2 DEF StoreIdempotencyKey, StoreUnanswered, Break
    <3>2. call[c].request.key \in Keys
      BY <1>0, <1>1 DEF Places
    <3>3. PICK r, k : r = call[c].request /\ k = r.key /\ k \in Keys
      BY <3>2
    <3>4. /\ At(c, "store") /\ record[k].status = "none"
          /\ record' = [record EXCEPT ![k] = Processing(r)]
          /\ Goto(c, "validate") \/ (Return(c) /\ k \in broken')
      BY <1>1, <3>1, <3>3
    <3> QED BY <1>1, <1>2, <3>3, <3>4, StoredKeys DEF KeyInv
  <2> QED BY <2>1, <2>2
<1>4. CopiesCurrent' /\ StaleOnlyIfOvertaken'
  <2>1. call'[c].at \in {"validate", "idle"}
    BY <1>m DEF StoreIdempotencyKey, StoreUnanswered
  <2> QED BY <1>1, <1>2, <2>1, CopiesStay
<1>5. OwnAnswers'
  BY <1>1, SameExisting DEF Inv, OwnAnswers
<1>6. TypeOK'
  BY <1>0, <1>1, <1>2, <1>3 DEF TypeOK, CallState, Kept
<1> QED BY <1>3, <1>4, <1>5, <1>6 DEF Inv, KeyInv

LEMMA InsertKeeps ==
    ASSUME Inv, NEW c \in Calls, Insert(c)
    PROVE  Inv'
<1>m. /\ \A place, r, b, v : Become(c, place, r, b, v) =>
            call'[c].at = place /\ call'[c].b = b /\ call'[c].seen = v
      /\ \A place : Goto(c, place) => call'[c].at = place /\ call'[c].b = call[c].b
      /\ Return(c) => call'[c].at = "idle"
  BY MovingTo DEF Inv
<1> USE DEF At
<1>0. TypeOK /\ Made /\ Fresh /\ CopiesCurrent /\ StaleOnlyIfOvertaken
  BY DEF Inv
<1> DEFINE b == 1 + Cardinality(Existing)
<1>1. /\ UNCHANGED <<record, cached, raced, answers, creations>> /\ call[c].at = "insert"
      /\ faults' \in Nat /\ broken \subseteq broken' /\ broken' \subseteq Keys
      /\ b \in Bookings
  BY <1>0 DEF Insert, Cache, Fault, Break, TypeOK
<1>2. call' \in [Calls -> CallState] /\ \A d \in Calls \ {c} : call'[d] = call[d]
  BY CallTypes, OthersStay DEF Writes
<1>3. /\ booking' = [booking EXCEPT ![b] = [version |-> 1, request |-> call[c].request]]
      /\ \/ Become(c, "cache", call[c].request, b, 1)
         \/ Return(c) /\ Break(c)
  BY DEF Insert
<1>4. KeyInv' /\ OwnAnswers' /\ booking' \in [Bookings -> Row]
  BY <1>1, <1>2, <1>3, InsertedKeys DEF KeyInv
<1>5. PICK n \in Bookings : n = b
  BY <1>1
<1>6. n \notin Existing
  BY <1>0, <1>5, NextNumber
<1>7. /\ booking'[n].version = 1
      /\ \A x \in Bookings \ {n} : booking'[x] = booking[x]
      /\ call'[c].at \in {"cache", "idle"}
      /\ call'[c].at = "cache" => call'[c].b = n /\ call'[c].seen = 1
  <2>1. booking' = [booking EXCEPT ![n] = [version |-> 1, request |-> call[c].request]]
    BY <1>3, <1>5
  <2>2. booking \in [Bookings -> Row]
    BY <1>0 DEF TypeOK
  <2>3. Become(c, "cache", call[c].request, n, 1) \/ Return(c)
    BY <1>3, <1>5
  <2> QED BY <1>m, <2>1, <2>2, <2>3
<1>8. CopiesCurrent'
  <2>1. ASSUME NEW d \in Calls, call'[d].at \in {"cache", "fill"}
        PROVE  call'[d].b \in raced \/ call'[d].seen = booking'[call'[d].b].version
    <3>1. CASE d = c
      BY <1>7, <2>1, <3>1
    <3>2. CASE d # c
      <4>1. call'[d] = call[d] /\ call[d].b \in Existing
        BY <1>0, <1>2, <2>1, <3>2 DEF Made
      <4>2. call[d].b \in Bookings \ {n}
        BY <1>6, <4>1 DEF Existing
      <4> QED BY <1>0, <1>7, <2>1, <4>1, <4>2 DEF CopiesCurrent
    <3> QED BY <3>1, <3>2
  <2> QED BY <1>1, <2>1 DEF CopiesCurrent
<1>9. StaleOnlyIfOvertaken'
  <2>1. \A x \in Bookings : \A d \in Touching(x) : d \in Touching(x)'
    BY <1>1, <1>2 DEF Touching
  <2>2. booking[n].version = 0
    BY <1>0, <1>6 DEF Existing, TypeOK, Row
  <2>3. \A x \in Bookings :
           cached[x] \in {0, booking'[x].version} \/ x \in raced \/ Touching(x)' # {}
    BY <1>0, <1>7, <2>1, <2>2 DEF StaleOnlyIfOvertaken
  <2> QED BY <1>1, <2>3 DEF StaleOnlyIfOvertaken
<1>10. TypeOK'
  BY <1>0, <1>1, <1>2, <1>4 DEF TypeOK, CallState
<1> QED BY <1>4, <1>8, <1>9, <1>10 DEF Inv, KeyInv

LEMMA CompleteKeeps ==
    ASSUME Inv, NEW c \in Calls, CompleteIdempotencyKey(c)
    PROVE  Inv'
<1>0. TypeOK /\ Places /\ Made /\ OwnAnswers /\ record \in [Keys -> Kept]
  BY DEF Inv, TypeOK, Kept
<1>1. /\ UNCHANGED <<booking, cached, raced, broken, creations, faults>>
      /\ call[c].at = "complete" /\ Return(c) /\ Answer(c, call[c].b)
  BY DEF CompleteIdempotencyKey, Cache, Bounds, At
<1>2. call' \in [Calls -> CallState] /\ \A d \in Calls \ {c} : call'[d] = call[d]
  BY CallTypes, OthersStay DEF Writes
<1>3. /\ call[c].request \in Requests /\ call[c].b \in Existing
      /\ booking[call[c].b].request = call[c].request
      /\ call'[c] = [at |-> "idle", request |-> NoRequest, b |-> 0, seen |-> 0]
  BY <1>0, <1>1, Moving DEF Places, Made, Creating
<1>4. KeyInv' /\ record' \in [Keys -> Kept]
  <2>1. CASE call[c].request.key = NoKey
    <3>1. record' = record
      BY <2>1 DEF CompleteIdempotencyKey
    <3>2. MovesAlong(c)
      BY <1>1, <1>3, <2>1, NoRequestHasNoKey DEF MovesAlong, Owns, Creating
    <3>3. \A d \in Calls : MovesAlong(d)
      BY <1>2, <3>2, StandingMovesAlong
    <3> QED BY <1>0, <1>1, <3>1, <3>3, KeysStay, SameExisting DEF KeyInv
  <2>2. CASE call[c].request.key # NoKey
    <3>1. PICK r, k, b : r = call[c].request /\ k = r.key /\ b = call[c].b
      OBVIOUS
    <3>2. k \in Keys
      BY <1>3, <2>2, <3>1, ParametersAssumption
    <3>3. record' = [record EXCEPT ![k] = Completed(record[k], b)]
      BY <2>2, <3>1 DEF CompleteIdempotencyKey
    <3>4. At(c, "complete")
      BY <1>1 DEF At
    <3> QED BY <1>1, <1>2, <3>1, <3>2, <3>3, <3>4, CompletedKeys DEF KeyInv
  <2> QED BY <2>1, <2>2
<1>5. answers' \subseteq [request : Requests, booking : Bookings] /\ OwnAnswers'
  BY <1>1, <1>3, AnswersOwn, SameExisting DEF OwnAnswers
<1>6. CopiesCurrent' /\ StaleOnlyIfOvertaken'
  BY <1>1, <1>2, <1>3, CopiesStay
<1>7. TypeOK'
  BY <1>0, <1>1, <1>2, <1>4, <1>5 DEF TypeOK, CallState, Kept
<1> QED BY <1>4, <1>5, <1>6, <1>7 DEF Inv, KeyInv

LEMMA ChangesKeep ==
    ASSUME Inv, NEW c \in Calls, NEW b \in Bookings,
           UpdateBookingStatusInternal(c, b) \/ CommitOffer(c, b)
    PROVE  Inv'
<1>0. TypeOK /\ Places /\ Made /\ OwnAnswers
  BY DEF Inv
<1>1. /\ UNCHANGED <<record, cached, answers, broken, creations, faults>>
      /\ Change(b, c) /\ call[c].at \in {"idle", "offer"}
  BY DEF UpdateBookingStatusInternal, CommitOffer, Bounds, At
<1>2. call' \in [Calls -> CallState] /\ \A d \in Calls \ {c} : call'[d] = call[d]
  BY CallTypes, OthersStay DEF Writes
<1>3. /\ booking' \in [Bookings -> Row] /\ Existing' = Existing /\ b \in Existing
      /\ \A x \in Bookings : booking'[x].request = booking[x].request
  BY <1>1, ChangeTypes DEF Change
<1>4. \/ /\ call[c].at = "idle" /\ call[c].request = NoRequest
         /\ call'[c] = [at |-> "refetch", request |-> NoRequest, b |-> b, seen |-> 0]
      \/ /\ call[c].at = "idle" \/ (call[c].at = "offer" /\ call[c].b = b)
         /\ call'[c] = [at |-> "drop", request |-> call[c].request, b |-> b,
                        seen |-> call[c].seen]
  BY <1>0, Moving DEF UpdateBookingStatusInternal, CommitOffer, At, Places
<1>5. MovesAlong(c)
  <2>1. call[c].at = "idle" => call[c].request = NoRequest
    BY <1>0 DEF Places
  <2>2. call[c].at = "offer" => booking[call[c].b].request = call[c].request
    BY <1>0 DEF Made, Creating
  <2>3. b # 0
    BY DEF Bookings
  <2> QED BY <1>3, <1>4, <2>1, <2>2, <2>3, NoRequestHasNoKey DEF MovesAlong, Owns, Creating
<1>6. \A d \in Calls : MovesAlong(d)
  BY <1>2, <1>5, StandingMovesAlong
<1>7. \A x \in Existing : booking'[x].request = booking[x].request
  BY <1>3 DEF Existing
<1>8. KeyInv'
  BY <1>1, <1>3, <1>6, <1>7, KeysStay DEF KeyInv
<1>9. OwnAnswers'
  BY <1>0, <1>1, <1>3, <1>7 DEF OwnAnswers
<1>10. CopiesCurrent' /\ StaleOnlyIfOvertaken'
  BY <1>1, <1>2, <1>4, RowChanged
<1>11. raced' \subseteq Bookings
  BY <1>0, <1>1 DEF Change, TypeOK
<1>12. TypeOK'
  BY <1>0, <1>1, <1>2, <1>3, <1>11 DEF TypeOK, CallState
<1> QED BY <1>8, <1>9, <1>10, <1>12 DEF Inv, KeyInv

\* The steps of nobody's call.
LEMMA ExpiriesKeep ==
    ASSUME Inv, \/ \E b \in Bookings : ExpireOffer(b) \/ EntryExpires(b)
                \/ \E k \in Keys : KeyExpires(k)
    PROVE  Inv'
<1>0. /\ TypeOK /\ OwnAnswers /\ CopiesCurrent /\ StaleOnlyIfOvertaken
      /\ record \in [Keys -> Kept]
  BY DEF Inv, TypeOK, Kept
<1>1. UNCHANGED <<call, answers, broken, creations, faults>>
  BY DEF ExpireOffer, EntryExpires, KeyExpires, Bounds
<1>2. \A d \in Calls : MovesAlong(d)
  BY <1>1, StandingMovesAlong
<1>3. ASSUME NEW b \in Bookings, ExpireOffer(b) PROVE Inv'
  <2>1. /\ booking' \in [Bookings -> Row] /\ Existing' = Existing
        /\ \A x \in Bookings : booking'[x].request = booking[x].request
        /\ \A x \in Bookings \ {b} : booking'[x] = booking[x]
    BY <1>3, ChangeTypes DEF ExpireOffer
  <2>2. record' = record /\ cached' = cached /\ raced' = raced \cup {b}
    BY <1>3 DEF ExpireOffer
  <2>3. \A x \in Existing : booking'[x].request = booking[x].request
    BY <2>1 DEF Existing
  <2>4. KeyInv'
    BY <1>1, <1>2, <2>1, <2>2, <2>3, KeysStay DEF KeyInv
  <2>5. OwnAnswers'
    BY <1>0, <1>1, <2>1, <2>3 DEF OwnAnswers
  <2>6. CopiesCurrent'
    <3>1. ASSUME NEW d \in Calls, call[d].at \in {"cache", "fill"}
          PROVE  call[d].b \in raced' \/ call[d].seen = booking'[call[d].b].version
      <4>1. call[d].b \in Bookings
        BY <3>1 DEF Inv, Made, TypeOK
      <4> QED BY <1>0, <2>1, <2>2, <3>1, <4>1 DEF CopiesCurrent
    <3> QED BY <1>1, <3>1 DEF CopiesCurrent
  <2>7. StaleOnlyIfOvertaken'
    BY <1>0, <1>1, <2>1, <2>2 DEF StaleOnlyIfOvertaken, Touching
  <2>8. TypeOK'
    BY <1>0, <1>1, <2>1, <2>2 DEF TypeOK
  <2> QED BY <2>4, <2>5, <2>6, <2>7, <2>8 DEF Inv, KeyInv
<1>4. ASSUME NEW b \in Bookings, EntryExpires(b) PROVE Inv'
  <2>1. record' = record /\ booking' = booking /\ Forget(b, {})
    BY <1>4 DEF EntryExpires
  <2>2. KeyInv'
    BY <1>1, <1>2, <2>1, KeysStay, SameExisting DEF KeyInv
  <2>3. OwnAnswers'
    BY <1>0, <1>1, <2>1, SameExisting DEF OwnAnswers
  <2>4. CopiesCurrent' /\ StaleOnlyIfOvertaken'
    BY <1>1, <2>1, CopyForgotten
  <2>5. TypeOK'
    BY <1>0, <1>1, <2>1 DEF TypeOK, Forget
  <2> QED BY <2>2, <2>3, <2>4, <2>5 DEF Inv, KeyInv
<1>5. ASSUME NEW k \in Keys, KeyExpires(k) PROVE Inv'
  <2>1. UNCHANGED <<booking, cached, raced>>
    BY <1>5 DEF KeyExpires, Cache
  <2>2. /\ record' \in [Keys -> Kept]
        /\ \A j \in Keys : /\ record'[j].status = record[j].status
                            /\ record'[j].request = record[j].request
                            /\ record'[j].booking = record[j].booking
    BY <1>0, <1>5 DEF KeyExpires, Kept
  <2>3. KeyInv'
    BY <1>1, <1>2, <2>1, <2>2, KeysStay, SameExisting DEF KeyInv
  <2>4. OwnAnswers'
    BY <1>0, <1>1, <2>1, SameExisting DEF OwnAnswers
  <2>5. CopiesCurrent' /\ StaleOnlyIfOvertaken'
    BY <1>0, <1>1, <2>1 DEF CopiesCurrent, StaleOnlyIfOvertaken, Touching
  <2>6. TypeOK'
    BY <1>0, <1>1, <2>1, <2>2 DEF TypeOK, Kept
  <2> QED BY <2>3, <2>4, <2>5, <2>6 DEF Inv, KeyInv
<1> QED BY <1>3, <1>4, <1>5

LEMMA RestartKeeps == Inv /\ Restart => Inv'
<1> SUFFICES ASSUME Inv, Restart PROVE Inv'
  OBVIOUS
<1>0. TypeOK /\ OneOwner /\ OwnAnswers
  BY DEF Inv
<1>1. /\ UNCHANGED <<record, booking, answers, creations>> /\ faults' \in Nat
      /\ cached' = [b \in Bookings |-> 0] /\ call' = [c \in Calls |-> Idle] /\ raced' = {}
      /\ broken' = broken \cup {k \in Keys : record[k].status = "processing"}
  BY <1>0 DEF Restart, Fault, TypeOK
<1>2. /\ \A c \in Calls :
            call'[c] = [at |-> "idle", request |-> NoRequest, b |-> 0, seen |-> 0]
      /\ call' \in [Calls -> CallState]
  BY <1>1, IdleState DEF Idle
<1>3. ASSUME NEW c \in Calls PROVE MovesAlong(c)
  <2>1. \A k \in Keys : Owns(c, k) => k \in broken'
    BY <1>0, <1>1 DEF OneOwner
  <2> QED BY <1>2, <2>1, NoRequestHasNoKey DEF MovesAlong, Owns, Creating
<1>4. KeyInv'
  BY <1>1, <1>3, KeysStay, SameExisting DEF KeyInv
<1>5. OwnAnswers'
  BY <1>0, <1>1, SameExisting DEF OwnAnswers
<1>6. CopiesCurrent' /\ StaleOnlyIfOvertaken'
  BY <1>1, <1>2 DEF CopiesCurrent, StaleOnlyIfOvertaken
<1>7. TypeOK'
  BY <1>0, <1>1, <1>2 DEF TypeOK, CallState
<1> QED BY <1>4, <1>5, <1>6, <1>7 DEF Inv, KeyInv

LEMMA InvStep == Inv /\ [Next]_vars => Inv'
<1> SUFFICES ASSUME Inv, [Next]_vars PROVE Inv'
  OBVIOUS
<1>1. ASSUME NEW c \in Calls, Reads(c) PROVE Inv'
  BY <1>1, ReadsKeep
<1>2. ASSUME NEW c \in Calls, Writes(c) PROVE Inv'
  <2>1. CASE StoreIdempotencyKey(c) \/ StoreUnanswered(c)
    BY <2>1, StoresKeep
  <2>2. CASE Insert(c)
    BY <2>2, InsertKeeps
  <2>3. CASE CompleteIdempotencyKey(c)
    BY <2>3, CompleteKeeps
  <2>4. ASSUME NEW b \in Bookings, UpdateBookingStatusInternal(c, b) \/ CommitOffer(c, b)
        PROVE  Inv'
    BY <2>4, ChangesKeep
  <2> QED BY <1>2, <2>1, <2>2, <2>3, <2>4 DEF Writes
<1>3. CASE UNCHANGED vars
  BY <1>3 DEF vars, Inv, TypeOK, Fresh, OneOwner, Made, Places, Recorded, OnePerKey, OwnAnswers,
     Owned, CopiesCurrent, StaleOnlyIfOvertaken, Owns, Creating, Existing, Touching
<1>4. CASE Next
  <2>1. \/ \E c \in Calls : Reads(c) \/ Writes(c)
        \/ \E b \in Bookings : ExpireOffer(b) \/ EntryExpires(b)
        \/ \E k \in Keys : KeyExpires(k)
        \/ Restart
    BY <1>4 DEF Next, Reads, Writes
  <2> QED BY <1>1, <1>2, <2>1, ExpiriesKeep, RestartKeeps
<1> QED BY <1>3, <1>4

LEMMA InvAlways == Spec => []Inv
BY InitInv, InvStep, PTL DEF Spec

-----------------------------------------------------------------------------

\* The tables and the calls have the shape that the code gives them.
THEOREM TypeCorrect == Spec => []TypeOK
<1>1. Inv => TypeOK
  BY DEF Inv
<1> QED BY <1>1, InvAlways, PTL

\* However many calls of CreateBooking come under one key, at once or one after the other,
\* it makes at most one booking, and every answer is a booking made for the same request.
THEOREM CreationIsIdempotent == Spec => []IdempotentCreation
<1>1. Inv => IdempotentCreation
  BY DEF Inv, OnePerKey, OwnAnswers, IdempotentCreation
<1> QED BY <1>1, InvAlways, PTL

\* A key is left 'processing' only by a call that is still running, was refused, failed or
\* died after storing it.
THEOREM StuckOnlyAfterFailure == Spec => []StuckOnlyByFailure
<1>1. Inv => StuckOnlyByFailure
  BY DEF Inv, Owned, Owns, StuckOnlyByFailure
<1> QED BY <1>1, InvAlways, PTL

\* The cache is behind the table only while somebody is to refresh it, or where calls have
\* overlapped or died, or the expiry job has run.
THEOREM StaleOnlyWhenOvertaken == Spec => []StaleOnlyIfOvertaken
<1>1. Inv => StaleOnlyIfOvertaken
  BY DEF Inv
<1> QED BY <1>1, InvAlways, PTL
=============================================================================
