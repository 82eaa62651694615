---------------------------- MODULE BookingCreation ----------------------------
(***************************************************************************)
(* Creating bookings under idempotency keys, and the cache in which they   *)
(* are found afterwards.                                                   *)
(*                                                                         *)
(* CreateBooking runs without a transaction: each of its statements        *)
(* commits by itself, and other calls run in between.  Of a booking's row  *)
(* only the version is kept; which changes are allowed, and the checks     *)
(* that make the read and the write of a change one step, are in module    *)
(* Booking.  The cache belongs to the process and dies with it.  The       *)
(* events are left out: one that cannot be inserted is logged and the call *)
(* goes on.                                                                *)
(***************************************************************************)
EXTENDS Naturals, FiniteSets

CONSTANTS
    Calls,          \* calls that may run at the same time
    Keys, NoKey,    \* idempotency keys; no key given
    Requests,       \* records of user, key, hash of the request, and specific
    MaxBookings,    \* bound: bookings created
    MaxVersion,     \* bound: version of a booking
    MaxCreations,   \* bound: calls of CreateBooking
    MaxFaults       \* bound: failed statements, calls that die, restarts

ASSUME ParametersAssumption ==
    /\ NoKey \notin Keys
    /\ \A r \in Requests : r.key \in Keys \cup {NoKey} /\ r.specific \in BOOLEAN
    /\ {MaxBookings, MaxVersion, MaxCreations, MaxFaults} \subseteq Nat

Bookings == 1..MaxBookings

VARIABLES
    record,         \* the table idempotency_keys
    booking,        \* the table bookings: version, and the request that made it
    cached,         \* the version in the cache, 0 for a miss
    call,           \* each call: where it is, what it was asked and has read
    answers,        \* the successful answers of CreateBooking
    broken,         \* keys under which a call failed or died half-way
    raced,          \* bookings whose cache entry may have been overtaken
    creations, faults

vars == <<record, booking, cached, call, answers, broken, raced, creations, faults>>

NoRequest == [user |-> 0, key |-> NoKey, hash |-> 0, specific |-> FALSE]
NoRecord == [status |-> "none", request |-> NoRequest, booking |-> 0, expired |-> FALSE]
NoBooking == [version |-> 0, request |-> NoRequest]
Idle == [at |-> "idle", request |-> NoRequest, b |-> 0, seen |-> 0]

Init ==
    /\ record = [k \in Keys |-> NoRecord]
    /\ booking = [b \in Bookings |-> NoBooking]
    /\ cached = [b \in Bookings |-> 0]
    /\ call = [c \in Calls |-> Idle]
    /\ answers = {} /\ broken = {} /\ raced = {}
    /\ creations = 0 /\ faults = 0

At(c, place) == call[c].at = place
Become(c, place, r, b, v) ==
    call' = [call EXCEPT ![c] = [at |-> place, request |-> r, b |-> b, seen |-> v]]
Goto(c, place) == Become(c, place, call[c].request, call[c].b, call[c].seen)
Return(c) == call' = [call EXCEPT ![c] = Idle]
Fault == faults < MaxFaults /\ faults' = faults + 1

Existing == {b \in Bookings : booking[b].version > 0}
Cache == <<cached, raced>>
Bounds == <<creations, faults>>

\* The key of the call's request, if there is one, is left 'processing'.
Break(c) == broken' = broken \cup ({call[c].request.key} \cap Keys)

Answer(c, b) == answers' = answers \cup {[request |-> call[c].request, booking |-> b]}

-----------------------------------------------------------------------------
(***************************************************************************)
(* CreateBooking.                                                          *)
(***************************************************************************)

CreateBooking(c, r) ==
    /\ At(c, "idle") /\ creations < MaxCreations
    /\ Become(c, IF r.key = NoKey THEN "validate" ELSE "check", r, 0, 0)
    /\ creations' = creations + 1
    /\ UNCHANGED <<record, booking, Cache, answers, broken, faults>>

\* WHERE idempotency_key = ? AND user_id = ? AND expires_at > now
Applies(k, r) ==
    record[k].status # "none" /\ record[k].request.user = r.user /\ ~record[k].expired

Matches(k, r) == record[k].request.hash = r.hash

\* A record of another request, or one in progress, is answered with an error.
CheckIdempotencyKey(c) ==
    LET r == call[c].request
        k == r.key
    IN  /\ At(c, "check")
        /\ \/ /\ ~Applies(k, r)
              /\ Goto(c, "store") /\ UNCHANGED answers
           \/ /\ Applies(k, r) /\ Matches(k, r) /\ record[k].status = "completed"
              /\ Answer(c, record[k].booking) /\ Return(c)
           \/ /\ Applies(k, r) /\ (~Matches(k, r) \/ record[k].status = "processing")
              /\ Return(c) /\ UNCHANGED answers
        /\ UNCHANGED <<record, booking, Cache, broken, Bounds>>

Processing(r) == [status |-> "processing", request |-> r, booking |-> 0, expired |-> FALSE]

\* Mutant: an existing record is written over.
StoreIdempotencyKeyOver(c) ==
    LET r == call[c].request
    IN  /\ At(c, "store")
        /\ record' = [record EXCEPT ![r.key] = Processing(r)]
        /\ Goto(c, "validate")
        /\ UNCHANGED <<booking, Cache, answers, broken, Bounds>>

\* The key is the primary key, whoever stored it and whether it has expired or not.
StoreIdempotencyKey(c) ==
    LET r == call[c].request
    IN  /\ At(c, "store")
        /\ IF record[r.key].status = "none"
           THEN record' = [record EXCEPT ![r.key] = Processing(r)] /\ Goto(c, "validate")
           ELSE Return(c) /\ UNCHANGED record
        /\ UNCHANGED <<booking, Cache, answers, broken, Bounds>>

\* It was stored, but the call is told that it was not.
StoreUnanswered(c) ==
    /\ At(c, "store") /\ record[call[c].request.key].status = "none" /\ Fault
    /\ record' = [record EXCEPT ![call[c].request.key] = Processing(call[c].request)]
    /\ Break(c)
    /\ Return(c)
    /\ UNCHANGED <<booking, Cache, answers, creations>>

\* The input, and the address and the category it refers to.
Validate(c) ==
    /\ At(c, "validate")
    /\ \/ Goto(c, "insert") /\ UNCHANGED broken
       \/ Return(c) /\ Break(c)
    /\ UNCHANGED <<record, booking, Cache, answers, Bounds>>

\* A booking may be inserted although the call is told that it was not.
Insert(c) ==
    LET b == 1 + Cardinality(Existing)
    IN  /\ At(c, "insert") /\ b \in Bookings
        /\ booking' = [booking EXCEPT ![b] = [version |-> 1, request |-> call[c].request]]
        /\ \/ /\ Become(c, "cache", call[c].request, b, 1)
              /\ UNCHANGED <<broken, faults>>
           \/ Return(c) /\ Break(c) /\ Fault
        /\ UNCHANGED <<record, Cache, answers, creations>>

\* What was inserted goes to the cache; a specific artisan is made an offer.
CacheCreated(c) ==
    /\ At(c, "cache")
    /\ cached' = [cached EXCEPT ![call[c].b] = call[c].seen]
    /\ Goto(c, IF call[c].request.specific THEN "offer" ELSE "complete")
    /\ UNCHANGED <<record, booking, raced, answers, broken, Bounds>>

\* Mutant: without the offer the call fails.
OfferFailsReturns(c) ==
    /\ At(c, "offer")
    /\ Return(c)
    /\ UNCHANGED <<record, booking, Cache, answers, broken, Bounds>>

\* The artisan is not available, the booking has changed, a statement fails: it is
\* logged, and the booking can be offered later.
OfferFails(c) ==
    /\ At(c, "offer")
    /\ Goto(c, "complete")
    /\ UNCHANGED <<record, booking, Cache, answers, broken, Bounds>>

Completed(kept, b) ==
    [status |-> "completed", request |-> kept.request, booking |-> b, expired |-> kept.expired]

\* The answer is kept under the key and returned.
CompleteIdempotencyKey(c) ==
    LET k == call[c].request.key
    IN  /\ At(c, "complete")
        /\ record' = IF k = NoKey THEN record
                     ELSE [record EXCEPT ![k] = Completed(record[k], call[c].b)]
        /\ Answer(c, call[c].b)
        /\ Return(c)
        /\ UNCHANGED <<booking, Cache, broken, Bounds>>

\* An error of this statement is ignored.
CompletionFails(c) ==
    /\ At(c, "complete") /\ Fault
    /\ Answer(c, call[c].b)
    /\ Return(c)
    /\ Break(c)
    /\ UNCHANGED <<record, booking, Cache, creations>>

-----------------------------------------------------------------------------
(***************************************************************************)
(* The cache of bookings.                                                  *)
(***************************************************************************)

\* Calls that have read or written b and have yet to tell the cache.
Touching(b) == {c \in Calls : call[c].b = b /\ call[c].at \in {"cache", "refetch", "fill", "drop"}}

Changed(row) == [version |-> row.version + 1, request |-> row.request]

\* A change of the row overtakes whoever else is about to store or drop.
Change(b, c) ==
    /\ booking[b].version \in 1..(MaxVersion - 1)
    /\ booking' = [booking EXCEPT ![b] = Changed(booking[b])]
    /\ raced' = IF Touching(b) \subseteq {c} THEN raced ELSE raced \cup {b}

\* The entry is gone; what is stored later is current unless a call not in S has read before.
Forget(b, S) ==
    /\ cached' = [cached EXCEPT ![b] = 0]
    /\ raced' = IF Touching(b) \subseteq S THEN raced \ {b} ELSE raced

\* Of GetBooking only a miss has an effect.
GetBooking(c, b) ==
    /\ At(c, "idle") /\ b \in Existing /\ cached[b] = 0
    /\ Become(c, "fill", NoRequest, b, booking[b].version)
    /\ UNCHANGED <<record, booking, Cache, answers, broken, Bounds>>

\* The commit of a status update ...
UpdateBookingStatusInternal(c, b) ==
    /\ At(c, "idle")
    /\ Change(b, c)
    /\ Become(c, "refetch", NoRequest, b, 0)
    /\ UNCHANGED <<record, cached, answers, broken, Bounds>>

\* ... after which the row is read again ...
Refetch(c) ==
    /\ At(c, "refetch")
    /\ Become(c, "fill", NoRequest, call[c].b, booking[call[c].b].version)
    /\ UNCHANGED <<record, booking, Cache, answers, broken, Bounds>>

\* ... and stored.
Fill(c) ==
    /\ At(c, "fill")
    /\ cached' = [cached EXCEPT ![call[c].b] = call[c].seen]
    /\ Return(c)
    /\ UNCHANGED <<record, booking, raced, answers, broken, Bounds>>

\* The commit of an offer, or of its acceptance or rejection, by itself or from
\* CreateBooking.
CommitOffer(c, b) ==
    /\ At(c, "idle") \/ (At(c, "offer") /\ call[c].b = b)
    /\ Change(b, c)
    /\ Become(c, "drop", call[c].request, b, call[c].seen)
    /\ UNCHANGED <<record, cached, answers, broken, Bounds>>

\* Mutant: the entry stays.
DropNothing(c) ==
    /\ At(c, "drop")
    /\ IF call[c].request = NoRequest THEN Return(c) ELSE Goto(c, "complete")
    /\ UNCHANGED <<record, booking, Cache, answers, broken, Bounds>>

Drop(c) ==
    /\ At(c, "drop")
    /\ Forget(call[c].b, {c})
    /\ IF call[c].request = NoRequest THEN Return(c) ELSE Goto(c, "complete")
    /\ UNCHANGED <<record, booking, answers, broken, Bounds>>

\* expireOffer leaves the cache alone.
ExpireOffer(b) ==
    /\ booking[b].version \in 1..(MaxVersion - 1)
    /\ booking' = [booking EXCEPT ![b] = Changed(booking[b])]
    /\ raced' = raced \cup {b}
    /\ UNCHANGED <<record, cached, call, answers, broken, Bounds>>

\* After 30 minutes.
EntryExpires(b) ==
    /\ cached[b] # 0
    /\ Forget(b, {})
    /\ UNCHANGED <<record, booking, call, answers, broken, Bounds>>

-----------------------------------------------------------------------------

\* After 24 hours, when the call that stored the key has long returned.
KeyExpires(k) ==
    /\ record[k].status # "none" /\ ~record[k].expired
    /\ \A c \in Calls : call[c].request.key # k
    /\ record' = [record EXCEPT ![k] = [status |-> record[k].status,
                    request |-> record[k].request, booking |-> record[k].booking,
                    expired |-> TRUE]]
    /\ UNCHANGED <<booking, Cache, call, answers, broken, Bounds>>

\* A statement fails, or the call dies: before the key is stored nothing has happened.
\* What should have refreshed the cache no longer does.
Fails(c) ==
    /\ call[c].at \notin {"idle", "offer", "complete"} /\ Fault
    /\ Return(c)
    /\ IF At(c, "check") \/ At(c, "store") THEN UNCHANGED broken ELSE Break(c)
    /\ raced' = IF c \in Touching(call[c].b) THEN raced \cup {call[c].b} ELSE raced
    /\ UNCHANGED <<record, booking, cached, answers, creations>>

Restart ==
    /\ Fault
    /\ cached' = [b \in Bookings |-> 0]
    /\ call' = [c \in Calls |-> Idle]
    /\ broken' = broken \cup {k \in Keys : record[k].status = "processing"}
    /\ raced' = {}
    /\ UNCHANGED <<record, booking, answers, creations>>

Next ==
    \/ \E c \in Calls :
          \/ \E r \in Requests : CreateBooking(c, r)
          \/ CheckIdempotencyKey(c) \/ StoreIdempotencyKey(c) \/ StoreUnanswered(c)
          \/ Validate(c) \/ Insert(c)
          \/ CacheCreated(c) \/ OfferFails(c) \/ CompleteIdempotencyKey(c)
          \/ CompletionFails(c)
          \/ \E b \in Bookings :
                GetBooking(c, b) \/ UpdateBookingStatusInternal(c, b) \/ CommitOffer(c, b)
          \/ Refetch(c) \/ Fill(c) \/ Drop(c) \/ Fails(c)
    \/ \E b \in Bookings : ExpireOffer(b) \/ EntryExpires(b)
    \/ \E k \in Keys : KeyExpires(k)
    \/ Restart

Spec == Init /\ [][Next]_vars

-----------------------------------------------------------------------------

Row == [version : Nat, request : Requests \cup {NoRequest}]

TypeOK ==
    /\ record \in [Keys -> [status : {"none", "processing", "completed"},
                            request : Requests \cup {NoRequest},
                            booking : Bookings \cup {0}, expired : BOOLEAN]]
    /\ booking \in [Bookings -> Row]
    /\ cached \in [Bookings -> Nat]
    /\ call \in [Calls -> [at : {"idle", "check", "store", "validate", "insert", "cache",
                                 "offer", "drop", "complete", "refetch", "fill"},
                           request : Requests \cup {NoRequest},
                           b : Bookings \cup {0}, seen : Nat]]
    /\ answers \subseteq [request : Requests, booking : Bookings]
    /\ broken \subseteq Keys /\ raced \subseteq Bookings
    /\ creations \in Nat /\ faults \in Nat

\* However calls under one key overlap, are retried, lost or repeated after the key has
\* expired, it never makes two bookings; and who calls CreateBooking and gets an answer
\* is given a booking made for the same user, key and content, now or earlier.
IdempotentCreation ==
    /\ \A b1, b2 \in Existing :
          booking[b1].request.key = booking[b2].request.key =>
              b1 = b2 \/ booking[b1].request.key = NoKey
    /\ \A a \in answers :
          LET made == booking[a.booking].request
          IN  made.user = a.request.user /\ made.key = a.request.key
              /\ made.hash = a.request.hash

\* A key that stays 'processing', and so refuses every retry, is left by a call that was
\* refused, failed or died after storing it, never because its event or its offer did.
StuckOnlyByFailure ==
    \A k \in Keys :
        record[k].status = "processing" =>
            k \in broken \/ \E c \in Calls : call[c].request.key = k

\* The cache is behind the table only while who changed the row is still to refresh or
\* drop the entry, or if calls on this booking have overlapped, one of them was lost, or
\* the expiry job has run: one entry has not outlived a change otherwise.
StaleOnlyIfOvertaken ==
    \A b \in Bookings :
        cached[b] \in {0, booking[b].version} \/ b \in raced \/ Touching(b) # {}
=============================================================================
