------------------------------- MODULE Payments -------------------------------
(***************************************************************************)
(* The payments of one booking with an accepted quote: opening and         *)
(* re-opening a checkout (InitializePayment), the provider's webhooks, the *)
(* repair job, and what they do to the booking's payment reservation.      *)
(*                                                                         *)
(* Rows are read without a lock and later saved whole                      *)
(* (repository.go Update, UpdateAttempt), so a save restores every column  *)
(* its handler read before.  Each statement, each call of the provider and *)
(* each call of the booking service is a step, and the handlers interleave *)
(* between them.  The payment database commits before the core database,   *)
(* which holds the outbox.                                                 *)
(*                                                                         *)
(* The booking's four payment operations are single steps: its version     *)
(* check makes them so (module Booking), and a conflict there is a failed  *)
(* call here.  A reservation key is its transaction.  Amounts, addresses,  *)
(* return contexts, and rows from before attempts existed are left out.  A *)
(* request whose first checks fail has no effect and is not represented.   *)
(***************************************************************************)
EXTENDS Naturals, FiniteSets

CONSTANTS
    Handlers,       \* requests, webhooks and jobs that may run at the same time
    MaxCalls,       \* bound: calls of InitializePayment
    MaxFaults,      \* bound: crashes and failed statements
    MaxRefusals     \* bound: calls the provider refuses without need

ASSUME ParametersAssumption ==
    MaxCalls \in Nat /\ MaxFaults \in Nat /\ MaxRefusals \in Nat

\* A call creates at most one transaction and one attempt, so that the bound on calls
\* is one on these.
Txns == 1..MaxCalls
Attempts == 1..MaxCalls

VARIABLES
    txn, attempt,   \* the tables
    recorded,       \* webhook_events: attempts whose webhook was recorded
    sent,           \* payment events committed to the outbox
    announced,      \* of these, the ones that the webhook of an attempt made
    order,          \* the provider's order of each attempt
    booking,        \* status, reservation, and whether reserved_until has passed
    call,           \* what each handler executes, with the rows it has read
    overlapped,     \* a request, webhook or job has begun while another one ran, or
                    \* with a copy of the booking older than its row
    calls, faults, refusals

vars == <<txn, attempt, recorded, sent, announced, order, booking, call,
          overlapped, calls, faults, refusals>>

TransactionStatus == {"none", "pending", "successful", "failed"}
Completed == {"successful", "failed"}
AttemptStatus == {"none", "initializing", "active", "cancelled", "superseded",
                  "failed", "successful"}
\* An order is created for the service and open once its customer has the link.
OrderStatus == {"none", "created", "open", "paid", "failed", "cancelled"}

NoTxn == [status |-> "none", current |-> 0, marked |-> "none", repair |-> FALSE]
Idle == [op |-> "none", pc |-> "idle", t |-> 0, row |-> NoTxn,
         a |-> 0, mine |-> "none", seen |-> "none", outcome |-> "none"]

Init ==
    /\ txn = [t \in Txns |-> NoTxn]
    /\ attempt = [a \in Attempts |-> [txn |-> 0, status |-> "none"]]
    /\ recorded = {}
    /\ sent = [t \in Txns |-> [s \in Completed |-> 0]]
    /\ announced = [a \in Attempts |-> 0]
    /\ order = [a \in Attempts |-> "none"]
    /\ booking = [status |-> "quote_accepted", reservation |-> 0, lapsed |-> FALSE]
    /\ call = [h \in Handlers |-> Idle]
    /\ overlapped = FALSE
    /\ calls = 0 /\ faults = 0 /\ refusals = 0

At(h, pc) == call[h].pc = pc
Goto(h, pc) == call' = [call EXCEPT ![h].pc = pc]
Finish(h) == call' = [call EXCEPT ![h] = Idle]

\* A handler begins.
Begun(h) == overlapped' = (overlapped \/ \E g \in Handlers \ {h} : ~At(g, "idle"))

Fault == faults < MaxFaults /\ faults' = faults + 1
\* A request to the provider that fails, is answered with an error or not at all.
Refusal == refusals < MaxRefusals /\ refusals' = refusals + 1

Pending == {t \in Txns : txn[t].status = "pending"}
\* attemptRequiresCancellation, and the partial index on attempts.
Live == {"initializing", "active"}
LiveAttempts(t) == {a \in Attempts : attempt[a].txn = t /\ attempt[a].status \in Live}

\* One pending transaction per quote, one live attempt per transaction.
MaySave(t, row) == row.status = "pending" => Pending \subseteq {t}
MaySaveAttempt(a, s) == s \in Live => LiveAttempts(attempt[a].txn) \subseteq {a}

\* The tables after a Save whose error is ignored.
Saved(t, row) == IF MaySave(t, row) THEN [txn EXCEPT ![t] = row] ELSE txn
SavedAttempt(a, s) ==
    IF MaySaveAttempt(a, s) THEN [attempt EXCEPT ![a].status = s] ELSE attempt

\* Mutant: what is not a success is taken for a failure.
classifiedAsFailure(s) == IF s = "paid" THEN "successful" ELSE "failed"

\* classifyProviderVerificationStatus, of the order as the provider shows it.
classifyProviderVerificationStatus(s) ==
    CASE s = "paid" -> "successful"
      [] s \in {"failed", "cancelled"} -> "failed"
      [] OTHER -> "unknown"

\* What the provider does when it is asked to open an order for an attempt, to cancel
\* it, or what has become of it.
OrderCreated(a) == [order EXCEPT ![a] = "created"]
OrderCancelled(a) == [order EXCEPT ![a] = IF @ \in {"created", "open"} THEN "cancelled" ELSE @]
Verified(a) == classifyProviderVerificationStatus(order[a])

\* A webhook that is signed, recent and complete names an order the provider has.
ParsedWebhook(a) == order[a] # "none"

Outbox == <<recorded, sent, announced>>
Bounds == <<overlapped, calls, faults, refusals>>

-----------------------------------------------------------------------------
(***************************************************************************)
(* InitializePayment: finding or creating the transaction.                 *)
(***************************************************************************)

\* The booking comes out of the booking service's cache.  A copy older than the row is
\* left there by calls that overlapped or died (module BookingCreation); to see one
\* counts as an overlap.
BeginInitialize(h) ==
    /\ At(h, "idle") /\ calls < MaxCalls
    /\ \E seen \in {"quote_accepted", "payment_pending"} :
        /\ call' = [call EXCEPT ![h] = [Idle EXCEPT !.op = "Initialize", !.pc = "looking",
                                                    !.seen = seen]]
        /\ IF seen = booking.status THEN Begun(h) ELSE overlapped' = TRUE
    /\ calls' = calls + 1
    /\ UNCHANGED <<txn, attempt, Outbox, order, booking, faults, refusals>>

\* GetPendingByBookingAndQuote; its FOR UPDATE lock ends with the statement.
Lookup(h) ==
    /\ At(h, "looking")
    /\ \/ \E t \in Pending :
            call' = [call EXCEPT ![h].t = t, ![h].row = txn[t], ![h].pc = "resolving"]
       \/ Pending = {} /\ call[h].seen = "quote_accepted" /\ Goto(h, "creating")
       \/ Pending = {} /\ call[h].seen # "quote_accepted" /\ Finish(h)
    /\ UNCHANGED <<txn, attempt, Outbox, order, booking, Bounds>>

Create(h) ==
    LET t == 1 + Cardinality({u \in Txns : txn[u].status # "none"})
        row == [NoTxn EXCEPT !.status = "pending"]
    IN  /\ At(h, "creating")
        /\ \/ /\ Pending = {} /\ t \in Txns
              /\ txn' = [txn EXCEPT ![t] = row]
              /\ call' = [call EXCEPT ![h].t = t, ![h].row = row, ![h].pc = "reserving"]
           \/ Pending # {} /\ Finish(h) /\ UNCHANGED txn
        /\ UNCHANGED <<attempt, Outbox, order, booking, Bounds>>

\* resolveCurrentAttempt: the row read decides whether to ask, and the answer
\* comes from the table.
Resolve(h) ==
    LET a == IF call[h].row.current = 0 THEN 0 ELSE txn[call[h].t].current
        s == IF a = 0 THEN "none" ELSE attempt[a].status
    IN  /\ At(h, "resolving")
        /\ call' = [call EXCEPT ![h].a = a, ![h].mine = s,
                                ![h].pc = IF s \in Live THEN "cancelling" ELSE "reserving"]
        /\ UNCHANGED <<txn, attempt, Outbox, order, booking, Bounds>>

-----------------------------------------------------------------------------
(***************************************************************************)
(* InitializePayment: cancelAttemptForRetry.                               *)
(***************************************************************************)

\* Mutant: the attempt is marked cancelled and the provider is not told.
CancelLocally(h) ==
    /\ At(h, "cancelling")
    /\ call' = [call EXCEPT ![h].mine = "cancelled", ![h].pc = "saving"]
    /\ UNCHANGED <<txn, attempt, Outbox, order, booking, Bounds>>

Cancel(h) ==
    LET a == call[h].a
    IN  /\ At(h, "cancelling")
        /\ \/ /\ order[a] # "paid"
              /\ order' = OrderCancelled(a)
              /\ call' = [call EXCEPT ![h].mine = "cancelled", ![h].pc = "saving"]
              /\ UNCHANGED refusals
           \/ /\ order[a] \notin {"created", "open"}
              /\ Goto(h, "verifying")
              /\ UNCHANGED <<order, refusals>>
           \/ /\ order[a] \in {"created", "open"} /\ Refusal
              /\ order' \in {order, OrderCancelled(a)}      \* refused, or the answer was lost
              /\ Goto(h, "verifying")
        /\ UNCHANGED <<txn, attempt, Outbox, booking, overlapped, calls, faults>>

\* A paid order is settled at once; any other leaves the attempt to be replaced.
Verify(h) ==
    LET s == Verified(call[h].a)
        Replace(status) == call' = [call EXCEPT ![h].mine = status, ![h].pc = "saving"]
    IN  /\ At(h, "verifying")
        /\ \/ /\ s = "successful"
              /\ call' = [call EXCEPT ![h].outcome = s, ![h].pc = "settling"]
              /\ UNCHANGED refusals
           \/ s = "failed" /\ Replace("failed") /\ UNCHANGED refusals
           \/ s = "unknown" /\ Replace("superseded") /\ UNCHANGED refusals
           \/ Refusal /\ Replace("superseded")
        /\ UNCHANGED <<txn, attempt, Outbox, order, booking, overlapped, calls, faults>>

SaveReplaced(h) ==
    /\ At(h, "saving")
    /\ attempt' = SavedAttempt(call[h].a, call[h].mine)
    /\ Goto(h, "reserving")
    /\ UNCHANGED <<txn, Outbox, order, booking, Bounds>>

-----------------------------------------------------------------------------
(***************************************************************************)
(* InitializePayment: reserving the booking, opening a fresh order.        *)
(***************************************************************************)

\* booking MarkPaymentPending
Reservable(t) ==
    \/ booking.status = "quote_accepted"
    \/ booking.status = "payment_pending" /\ (booking.reservation = t \/ booking.lapsed)

\* A booking already reserved for the transaction is left as it is.
ReservedFor(t) ==
    IF booking.status = "payment_pending" /\ booking.reservation = t THEN booking
    ELSE [status |-> "payment_pending", reservation |-> t, lapsed |-> FALSE]

Reserve(h) ==
    /\ At(h, "reserving")
    /\ IF Reservable(call[h].t)
       THEN /\ booking' = ReservedFor(call[h].t)
            /\ \/ /\ Goto(h, IF call[h].row.repair THEN "clearing" ELSE "attempting")
                  /\ UNCHANGED faults
               \/ Goto(h, "flagging") /\ Fault      \* the answer was lost
       ELSE Goto(h, "flagging") /\ UNCHANGED <<booking, faults>>
    /\ UNCHANGED <<txn, attempt, Outbox, order, overlapped, calls, refusals>>

\* markBookingRepairRequired, with which the call fails.
Flag(h) ==
    /\ At(h, "flagging")
    /\ txn' = Saved(call[h].t, [call[h].row EXCEPT !.repair = TRUE])
    /\ Finish(h)
    /\ UNCHANGED <<attempt, Outbox, order, booking, Bounds>>

\* clearBookingRepairMetadata
ClearFlag(h) ==
    LET row == [call[h].row EXCEPT !.repair = FALSE]
    IN  /\ At(h, "clearing")
        /\ txn' = Saved(call[h].t, row)
        /\ call' = [call EXCEPT ![h].row = row, ![h].pc = "attempting"]
        /\ UNCHANGED <<attempt, Outbox, order, booking, Bounds>>

\* createFreshAttempt, one transaction of the payment database; the attempt it
\* replaces is saved again as this handler knows it.  If the core commit that
\* follows fails, the rows stay, as does the handler's copy, although the call goes the
\* way of a failure.  (A copy that names an attempt rolled back cannot be saved, for
\* its foreign key; here the copy is then the old one, which can.)
CreateAttempt(h) ==
    LET t == call[h].t
        old == call[h].a
        new == 1 + Cardinality({a \in Attempts : attempt[a].status # "none"})
        row == [call[h].row EXCEPT !.current = new]
        resaved == IF call[h].mine \in {"cancelled", "superseded"} THEN {old} ELSE {}
    IN  /\ At(h, "attempting") /\ new \in Attempts
        /\ IF LiveAttempts(t) = {} /\ MaySave(t, row)
           THEN /\ attempt' = [a \in Attempts |->
                        IF a = new THEN [txn |-> t, status |-> "initializing"]
                        ELSE IF a \in resaved THEN [txn |-> t, status |-> call[h].mine]
                        ELSE attempt[a]]
                /\ txn' = [txn EXCEPT ![t] = row]
                /\ \/ /\ call' = [call EXCEPT ![h].row = row, ![h].a = new,
                                      ![h].mine = "initializing", ![h].pc = "initializing"]
                      /\ UNCHANGED faults
                   \/ call' = [call EXCEPT ![h].row = row, ![h].pc = "releasing"] /\ Fault
           ELSE Goto(h, "releasing") /\ UNCHANGED <<txn, attempt, faults>>
        /\ UNCHANGED <<Outbox, order, booking, overlapped, calls, refusals>>

InitializeOrder(h) ==
    LET created == OrderCreated(call[h].a)
    IN  /\ At(h, "initializing")
        /\ \/ order' = created /\ Goto(h, "activating") /\ UNCHANGED refusals
           \/ order' \in {order, created} /\ Goto(h, "initFailed") /\ Refusal
        /\ UNCHANGED <<txn, attempt, Outbox, booking, overlapped, calls, faults>>

\* markAttemptInitializationFailed: first the attempt, then the transaction.
MarkInitFailed(h) ==
    /\ At(h, "initFailed")
    /\ attempt' = SavedAttempt(call[h].a, "failed")
    /\ Goto(h, "noting")
    /\ UNCHANGED <<txn, Outbox, order, booking, Bounds>>

NoteInitFailed(h) ==
    /\ At(h, "noting")
    /\ txn' = Saved(call[h].t, call[h].row)
    /\ Goto(h, "releasing")
    /\ UNCHANGED <<attempt, Outbox, order, booking, Bounds>>

Freed == [status |-> "quote_accepted", reservation |-> 0, lapsed |-> FALSE]

\* booking ReleasePaymentReservation
Release(h) ==
    /\ At(h, "releasing")
    /\ IF booking.status # "payment_pending" THEN Finish(h) /\ UNCHANGED booking
       ELSE IF booking.reservation = call[h].t THEN booking' = Freed /\ Finish(h)
       ELSE Goto(h, "flagging") /\ UNCHANGED booking
    /\ UNCHANGED <<txn, attempt, Outbox, order, Bounds>>

\* activateAttempt saves the attempt ...
Activate(h) ==
    /\ At(h, "activating")
    /\ attempt' = SavedAttempt(call[h].a, "active")
    /\ IF MaySaveAttempt(call[h].a, "active") THEN Goto(h, "activated") ELSE Finish(h)
    /\ UNCHANGED <<txn, Outbox, order, booking, Bounds>>

\* ... and the transaction, and the customer gets the link.
ReturnLink(h) ==
    /\ At(h, "activated")
    /\ txn' = Saved(call[h].t, call[h].row)
    /\ order' = IF MaySave(call[h].t, call[h].row)
                THEN [order EXCEPT ![call[h].a] = IF @ = "created" THEN "open" ELSE @]
                ELSE order
    /\ Finish(h)
    /\ UNCHANGED <<attempt, Outbox, booking, Bounds>>

-----------------------------------------------------------------------------
(***************************************************************************)
(* Settling: a webhook, a retry that met a paid order, the repair job.     *)
(***************************************************************************)

\* HasWebhookEvent, the read of the attempt and the provider's verification; a
\* webhook about an order that is not settled is answered with an error.
BeginWebhook(h, a) ==
    LET outcome == Verified(a)
    IN
    /\ At(h, "idle")
    /\ ParsedWebhook(a) /\ outcome \in Completed /\ a \notin recorded
    /\ call' = [call EXCEPT ![h] =
            [Idle EXCEPT !.op = "Webhook", !.pc = "settling", !.a = a,
                         !.t = attempt[a].txn, !.mine = attempt[a].status,
                         !.outcome = outcome]]
    /\ Begun(h)
    /\ UNCHANGED <<txn, attempt, Outbox, order, booking, calls, faults, refusals>>

\* RecordWebhookEvent: the unique key admits a request once ...
NoticeIsNew(h) == call[h].op = "Webhook" => call[h].a \notin recorded

\* Mutant: webhook_events has no unique key.
NoticeIsNeverHeld(h) == FALSE

\* ... and makes a second one wait for the transaction that inserted it.
NoticeIsHeld(h) ==
    \E g \in Handlers \ {h} :
        At(g, "deciding") /\ call[g].op = "Webhook" /\ call[h].op = "Webhook"
        /\ call[g].a = call[h].a

\* processAttemptWebhook begins its transaction: the notice, then the row.
ReadTxn(h) ==
    /\ At(h, "settling")
    /\ IF NoticeIsNew(h)
       THEN /\ ~NoticeIsHeld(h)
            /\ call' = [call EXCEPT ![h].row = txn[call[h].t], ![h].pc = "deciding"]
       ELSE Finish(h)
    /\ UNCHANGED <<txn, attempt, Outbox, order, booking, Bounds>>

\* Mutant: a completed transaction is completed again.
FinalizesAgain(c) == c.outcome = "successful" \/ c.row.current = c.a

\* Success of any attempt completes a pending transaction, failure only that
\* of the current one.
Finalizes(c) ==
    c.row.status = "pending" /\ (c.outcome = "successful" \/ c.row.current = c.a)

Settled(c) ==
    [c.row EXCEPT !.status = c.outcome,
                  !.current = IF c.outcome = "successful" THEN c.a ELSE @]

\* The payment transaction commits.
Settle(h) ==
    LET c == call[h]
    IN  /\ At(h, "deciding")
        /\ recorded' = IF c.op = "Webhook" THEN recorded \union {c.a} ELSE recorded
        /\ attempt' = IF c.mine = c.outcome THEN attempt
                      ELSE [attempt EXCEPT ![c.a].status = c.outcome]
        /\ IF Finalizes(c)
           THEN /\ txn' = [txn EXCEPT ![c.t] = Settled(c)]
                /\ call' = [call EXCEPT ![h].row = Settled(c), ![h].pc = "staged"]
           ELSE Finish(h) /\ UNCHANGED txn
        /\ UNCHANGED <<sent, announced, order, booking, Bounds>>

\* Mutant: only failed ones are.
requiresFailureEvent(row) == row.status = "failed" /\ row.marked # row.status

\* requiresPaymentStatusEvent and not paymentStatusEventMarked
requiresPaymentStatusEvent(row) == row.status \in Completed /\ row.marked # row.status

\* RepairPaymentOutboxEvents, for one candidate.
BeginRepair(h, t) ==
    /\ At(h, "idle")
    /\ requiresPaymentStatusEvent(txn[t])
    /\ call' = [call EXCEPT ![h] = [Idle EXCEPT !.op = "Repair", !.pc = "staged",
                                                !.t = t, !.row = txn[t]]]
    /\ Begun(h)
    /\ UNCHANGED <<txn, attempt, Outbox, order, booking, calls, faults, refusals>>

\* The core transaction commits, with the event.
CommitOutbox(h) ==
    LET c == call[h]
    IN  /\ At(h, "staged")
        /\ sent' = [sent EXCEPT ![c.t][c.row.status] = @ + 1]
        /\ announced' = IF c.op = "Webhook" THEN [announced EXCEPT ![c.a] = @ + 1]
                        ELSE announced
        /\ Goto(h, "marking")
        /\ UNCHANGED <<txn, attempt, recorded, order, booking, Bounds>>

\* markPaymentStatusEventEnqueued
Mark(h) ==
    /\ At(h, "marking")
    /\ txn' = Saved(call[h].t, [call[h].row EXCEPT !.marked = call[h].row.status])
    /\ Finish(h)
    /\ UNCHANGED <<attempt, Outbox, order, booking, Bounds>>

-----------------------------------------------------------------------------
(***************************************************************************)
(* Faults, the customer, the provider and the booking service.             *)
(***************************************************************************)

\* The process dies, or a statement fails and the call with it.
Crash(h) ==
    /\ ~At(h, "idle") /\ Fault
    /\ Finish(h)
    /\ UNCHANGED <<txn, attempt, Outbox, order, booking, overlapped, calls, refusals>>

\* Failures a call survives, and where each one leads.
After == [saving |-> "reserving", reserving |-> "flagging", clearing |-> "attempting",
          attempting |-> "releasing", initializing |-> "releasing",
          initFailed |-> "noting", noting |-> "releasing", releasing |-> "flagging"]

StatementFails(h) ==
    /\ call[h].pc \in DOMAIN After /\ Fault
    /\ Goto(h, After[call[h].pc])
    /\ UNCHANGED <<txn, attempt, Outbox, order, booking, overlapped, calls, refusals>>

OrderSettles(a) ==
    /\ \/ order[a] = "open" /\ order' = [order EXCEPT ![a] = "paid"]
       \/ order[a] \in {"created", "open"} /\ order' = [order EXCEPT ![a] = "failed"]
    /\ UNCHANGED <<txn, attempt, Outbox, booking, call, Bounds>>

ReservationLapses ==
    /\ booking.status = "payment_pending" /\ ~booking.lapsed
    /\ booking' = [booking EXCEPT !.lapsed = TRUE]
    /\ UNCHANGED <<txn, attempt, Outbox, order, call, Bounds>>

\* booking OnPaymentConfirmed and OnPaymentFailed, as often as it is delivered.
EventArrives(t) ==
    /\ booking.status = "payment_pending" /\ booking.reservation = t
    /\ \/ /\ sent[t]["successful"] > 0
          /\ booking' = [Freed EXCEPT !.status = "confirmed"]
       \/ sent[t]["failed"] > 0 /\ booking' = Freed
    /\ UNCHANGED <<txn, attempt, Outbox, order, call, Bounds>>

-----------------------------------------------------------------------------

Initialize(h) ==
    \/ Lookup(h) \/ Create(h) \/ Resolve(h) \/ Cancel(h) \/ Verify(h) \/ SaveReplaced(h)
    \/ Reserve(h) \/ Flag(h) \/ ClearFlag(h) \/ CreateAttempt(h) \/ InitializeOrder(h)
    \/ MarkInitFailed(h) \/ NoteInitFailed(h) \/ Release(h) \/ Activate(h) \/ ReturnLink(h)

Progress(h) == Initialize(h) \/ ReadTxn(h) \/ Settle(h) \/ CommitOutbox(h) \/ Mark(h)

Next ==
    \/ \E h \in Handlers :
          \/ BeginInitialize(h) \/ Progress(h) \/ Crash(h) \/ StatementFails(h)
          \/ \E a \in Attempts : BeginWebhook(h, a)
          \/ \E t \in Txns : BeginRepair(h, t)
    \/ \E a \in Attempts : OrderSettles(a)
    \/ \E t \in Txns : EventArrives(t)
    \/ ReservationLapses

Spec == Init /\ [][Next]_vars

\* A call that has begun goes on, the provider repeats a webhook until it is
\* acknowledged, the repair job runs every 5 minutes, and the relay and the
\* subscription deliver what is in the outbox.
Fairness ==
    /\ \A h \in Handlers : WF_vars(Progress(h))
    /\ \A a \in Attempts : SF_vars(\E h \in Handlers : BeginWebhook(h, a))
    /\ \A t \in Txns : SF_vars(\E h \in Handlers : BeginRepair(h, t))
    /\ \A t \in Txns : WF_vars(EventArrives(t))

FairSpec == Spec /\ Fairness

-----------------------------------------------------------------------------

TxnRow == [status : TransactionStatus, current : Attempts \union {0},
           marked : Completed \union {"none"}, repair : BOOLEAN]

TypeOK ==
    /\ txn \in [Txns -> TxnRow]
    /\ attempt \in [Attempts -> [txn : Txns \union {0}, status : AttemptStatus]]
    /\ recorded \subseteq Attempts
    /\ sent \in [Txns -> [Completed -> Nat]]
    /\ announced \in [Attempts -> Nat]
    /\ order \in [Attempts -> OrderStatus]
    /\ booking \in [status : {"quote_accepted", "payment_pending", "confirmed"},
                    reservation : Txns \union {0}, lapsed : BOOLEAN]
    /\ call \in [Handlers ->
          [op : {"none", "Initialize", "Webhook", "Repair"},
           pc : {"idle", "looking", "creating", "resolving", "cancelling", "verifying",
                 "saving", "reserving", "flagging", "clearing", "attempting",
                 "initializing", "initFailed", "noting", "releasing", "activating",
                 "activated", "settling", "deciding", "staged", "marking"},
           t : Txns \union {0}, row : TxnRow, a : Attempts \union {0},
           mine : AttemptStatus, seen : {"none", "quote_accepted", "payment_pending"},
           outcome : Completed \union {"none"}]]
    /\ calls \in Nat /\ faults \in Nat /\ refusals \in Nat

\* No booking is confirmed, and no payment announced, without an order of that
\* very transaction which the provider has settled so, whatever handlers,
\* saves, retries and repairs overlapped.
EventsAreBacked ==
    \A t \in Txns :
        /\ sent[t]["successful"] > 0 =>
              \E a \in Attempts : attempt[a].txn = t /\ order[a] = "paid"
        /\ sent[t]["failed"] > 0 =>
              \E a \in Attempts : attempt[a].txn = t /\ order[a] \in {"failed", "cancelled"}

\* A webhook is turned into at most one event, however often it is delivered.
OneEventPerNotice == \A a \in Attempts : announced[a] <= 1

\* What the following say holds while calls run one at a time.

\* Unless the provider refused something, the customer never holds two links
\* that can be paid.
OnePayableOrder ==
    refusals = 0 /\ ~overlapped => Cardinality({a \in Attempts : order[a] = "open"}) <= 1

\* A transaction is never announced both as confirmed and as failed.
OneVerdict ==
    ~overlapped => \A t \in Txns : sent[t]["successful"] = 0 \/ sent[t]["failed"] = 0

\* From the customer's payment to the booking, across two databases, a crash
\* between their commits, the repair job and the subscription: unless the
\* provider refused something, a paid booking is confirmed.
PaidIsConfirmed ==
    [](refusals = 0 /\ ~overlapped) =>
        \A a \in Attempts : order[a] = "paid" ~> booking.status = "confirmed"

-----------------------------------------------------------------------------

\* repository.go:216: "payment outbox repair reconciles any completed payment
\* state whose corresponding core outbox event was not committed": when nothing
\* runs, a success on record has been announced or the repair job will do it.
SuccessIsRepairable ==
    (\A h \in Handlers : At(h, "idle")) =>
        \A a \in Attempts, t \in Txns :
            attempt[a] = [txn |-> t, status |-> "successful"] =>
                sent[t]["successful"] > 0 \/ requiresPaymentStatusEvent(txn[t])
=============================================================================
