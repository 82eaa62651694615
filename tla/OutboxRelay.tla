----------------------------- MODULE OutboxRelay -----------------------------
(***************************************************************************)
(* The transactional-outbox relay of core/relay.  Services insert rows     *)
(* into one shared outbox table; relay loops (one per service and per      *)
(* running instance) poll it, claim rows one by one, publish them and      *)
(* stamp them.  Every database statement is a step of its own, so that     *)
(* loops interleave, the broker and the database may refuse a call, and a  *)
(* process may die between any two statements.                             *)
(*                                                                         *)
(* An event is the number of its insertion, so "ORDER BY inserted_at" is   *)
(* the order of the numbers.  Time is abstracted to two facts about a row: *)
(* whether next_retry_at has been reached (due) and whether processed_at   *)
(* is older than the audit retention (old).                                *)
(***************************************************************************)
EXTENDS Naturals, FiniteSets

CONSTANTS
    NumEvents,      \* rows the services insert in a behaviour
    Workers,        \* relay loops
    Services,       \* topic prefixes
    TopicOf,        \* the prefix of each event's topic
    Serves,         \* the prefix each loop was created with
    Malformed,      \* events whose data does not unmarshal
    BatchSize, MaxRetries,              \* relay.Config
    MaxFailures, MaxCrashes, MaxStops   \* bounds on the faults of a behaviour

Events == 1..NumEvents

ASSUME ParametersAssumption ==
    /\ NumEvents \in Nat
    /\ TopicOf \in [Events -> Services]
    /\ Serves \in [Workers -> Services]
    /\ Malformed \subseteq Events
    /\ BatchSize \in Nat \ {0}
    /\ MaxRetries \in Nat
    /\ MaxFailures \in Nat /\ MaxCrashes \in Nat /\ MaxStops \in Nat

VARIABLES
    row,        \* the outbox table
    pc,         \* where each loop is
    batch,      \* the events of its batch a loop has not finished yet
    seenRetry,  \* the retry counts each loop read when it fetched its batch
    stopping,   \* the relay's stopping flag
    published,  \* copies of each event the broker has accepted
    failures, crashes, stops

vars == <<row, pc, batch, seenRetry, stopping, published, failures, crashes, stops>>

Statuses == {"none", "pending", "processing", "processed", "failed"}

Row == [status : Statuses, retryCount : Nat, due : BOOLEAN,
        processedAt : BOOLEAN, old : BOOLEAN, gone : BOOLEAN]

Inserted(e) == row[e].status # "none"

Init ==
    /\ row = [e \in Events |-> [status |-> "none", retryCount |-> 0, due |-> TRUE,
                                processedAt |-> FALSE, old |-> FALSE, gone |-> FALSE]]
    /\ pc = [w \in Workers |-> "idle"]
    /\ batch = [w \in Workers |-> {}]
    /\ seenRetry = [w \in Workers |-> [e \in Events |-> 0]]
    /\ stopping = [w \in Workers |-> FALSE]
    /\ published = [e \in Events |-> 0]
    /\ failures = 0 /\ crashes = 0 /\ stops = 0

(***************************************************************************)
(* The producers and the clock.                                            *)
(***************************************************************************)

\* A service's transaction commits the next outbox row.
Insert(e) ==
    /\ ~Inserted(e)
    /\ \A d \in 1..(e - 1) : Inserted(d)
    /\ row' = [row EXCEPT ![e].status = "pending"]
    /\ UNCHANGED <<pc, batch, seenRetry, stopping, published, failures, crashes, stops>>

RetryTimeReached(e) ==
    /\ ~row[e].due
    /\ row' = [row EXCEPT ![e].due = TRUE]
    /\ UNCHANGED <<pc, batch, seenRetry, stopping, published, failures, crashes, stops>>

RetentionElapses(e) ==
    /\ row[e].processedAt /\ ~row[e].old
    /\ row' = [row EXCEPT ![e].old = TRUE]
    /\ UNCHANGED <<pc, batch, seenRetry, stopping, published, failures, crashes, stops>>

(***************************************************************************)
(* One pass of a relay loop.                                               *)
(***************************************************************************)

\* The rows GetUnprocessedEvents selects, before ORDER BY and LIMIT.
Unprocessed(w) ==
    {e \in Events : /\ Inserted(e) /\ ~row[e].gone
                    /\ ~row[e].processedAt
                    /\ row[e].status \in {"pending", "processing"}
                    /\ row[e].due
                    /\ TopicOf[e] = Serves[w]}

\* B is what remains of S after ORDER BY inserted_at LIMIT BatchSize.
Oldest(S, B) ==
    /\ B \subseteq S
    /\ \A e \in B, d \in S \ B : e < d
    /\ Cardinality(B) = IF Cardinality(S) < BatchSize THEN Cardinality(S) ELSE BatchSize

\* The event a loop is working on: the batch is processed in insertion order.
AtHead(w, e) == e \in batch[w] /\ \A d \in batch[w] : e <= d

\* A loop owns an event from the claim until it turns to the next one.
Owning == {"claimed", "published", "stamped", "unpublished"}
Owns(w, e) == pc[w] \in Owning /\ AtHead(w, e)

NextInBatch(w, e) ==
    /\ pc' = [pc EXCEPT ![w] = "batch"]
    /\ batch' = [batch EXCEPT ![w] = @ \ {e}]

\* An UPDATE by primary key: no row, no effect.
Store(e, r) == row' = IF row[e].gone THEN row ELSE [row EXCEPT ![e] = r]

Poll(w) ==
    /\ pc[w] = "idle"
    /\ Unprocessed(w) # {}
    /\ \E B \in SUBSET Unprocessed(w) :
          /\ Oldest(Unprocessed(w), B)
          /\ batch' = [batch EXCEPT ![w] = B]
    /\ seenRetry' = [seenRetry EXCEPT ![w] = [e \in Events |-> row[e].retryCount]]
    /\ pc' = [pc EXCEPT ![w] = "batch"]
    /\ UNCHANGED <<row, stopping, published, failures, crashes, stops>>

\* Mutant: the claim takes 'processing' rows back, as the polling query does.
ClaimableWhileProcessing(e) ==
    row[e].status \in {"pending", "processing"} /\ ~row[e].gone

\* claimEvent: UPDATE ... WHERE id = ? AND status = 'pending'.
Claimable(e) == row[e].status = "pending" /\ ~row[e].gone

Claim(w, e) ==
    /\ pc[w] = "batch" /\ AtHead(w, e)
    /\ Claimable(e)
    /\ row' = [row EXCEPT ![e].status = "processing"]
    /\ pc' = [pc EXCEPT ![w] = "claimed"]
    /\ UNCHANGED <<batch, seenRetry, stopping, published, failures, crashes, stops>>

\* No row was updated: "another worker claimed it, skip".
SkipClaimed(w, e) ==
    /\ pc[w] = "batch" /\ AtHead(w, e)
    /\ ~Claimable(e)
    /\ NextInBatch(w, e)
    /\ UNCHANGED <<row, seenRetry, stopping, published, failures, crashes, stops>>

Hopeless(w, e) == seenRetry[w][e] >= MaxRetries \/ e \in Malformed

MarkEventFailed(w, e) ==
    /\ pc[w] = "claimed" /\ AtHead(w, e)
    /\ Hopeless(w, e)
    /\ Store(e, [row[e] EXCEPT !.status = "failed", !.processedAt = TRUE])
    /\ NextInBatch(w, e)
    /\ UNCHANGED <<seenRetry, stopping, published, failures, crashes, stops>>

Publish(w, e) ==
    /\ pc[w] = "claimed" /\ AtHead(w, e)
    /\ ~Hopeless(w, e)
    /\ published' = [published EXCEPT ![e] = @ + 1]
    /\ pc' = [pc EXCEPT ![w] = "published"]
    /\ UNCHANGED <<row, batch, seenRetry, stopping, failures, crashes, stops>>

\* The broker answers with an error, whether or not it kept the message.
PublishFails(w, e) ==
    /\ pc[w] = "claimed" /\ AtHead(w, e)
    /\ ~Hopeless(w, e)
    /\ failures < MaxFailures
    /\ \E kept \in {0, 1} : published' = [published EXCEPT ![e] = @ + kept]
    /\ failures' = failures + 1
    /\ pc' = [pc EXCEPT ![w] = "unpublished"]
    /\ UNCHANGED <<row, batch, seenRetry, stopping, crashes, stops>>

\* Mutant: a publish that failed is buried at once.
ScheduleRetryAsFailed(w, e) ==
    /\ pc[w] = "unpublished" /\ AtHead(w, e)
    /\ Store(e, [row[e] EXCEPT !.status = "failed", !.processedAt = TRUE])
    /\ NextInBatch(w, e)
    /\ UNCHANGED <<seenRetry, stopping, published, failures, crashes, stops>>

\* scheduleRetry writes the counters and the time, and leaves the status.
ScheduleRetry(w, e) ==
    /\ pc[w] = "unpublished" /\ AtHead(w, e)
    /\ Store(e, [row[e] EXCEPT !.retryCount = seenRetry[w][e] + 1, !.due = FALSE])
    /\ NextInBatch(w, e)
    /\ UNCHANGED <<seenRetry, stopping, published, failures, crashes, stops>>

\* MarkEventProcessed is two UPDATEs: first the time, then the status.
StampProcessedAt(w, e) ==
    /\ pc[w] = "published" /\ AtHead(w, e)
    /\ Store(e, [row[e] EXCEPT !.processedAt = TRUE])
    /\ pc' = [pc EXCEPT ![w] = "stamped"]
    /\ UNCHANGED <<batch, seenRetry, stopping, published, failures, crashes, stops>>

MarkProcessed(w, e) ==
    /\ pc[w] = "stamped" /\ AtHead(w, e)
    /\ Store(e, [row[e] EXCEPT !.status = "processed"])
    /\ NextInBatch(w, e)
    /\ UNCHANGED <<seenRetry, stopping, published, failures, crashes, stops>>

\* A database error on the claim or on a write after it ends processEvent.
DatabaseError(w, e) ==
    /\ pc[w] \in (Owning \union {"batch"}) /\ AtHead(w, e)
    /\ pc[w] = "claimed" => Hopeless(w, e)
    /\ failures < MaxFailures
    /\ NextInBatch(w, e)
    /\ failures' = failures + 1
    /\ UNCHANGED <<row, seenRetry, stopping, published, crashes, stops>>

\* The batch is done: CleanupOldEvents deletes, or fails and is logged.
Expired == {e \in Events : row[e].processedAt /\ row[e].old}

EndBatch(w) ==
    /\ pc[w] = "batch" /\ batch[w] = {}
    /\ \E Deleted \in {{}, Expired} :
          row' = [e \in Events |-> IF e \in Deleted THEN [row[e] EXCEPT !.gone = TRUE]
                                                    ELSE row[e]]
    /\ pc' = [pc EXCEPT ![w] = "idle"]
    /\ UNCHANGED <<batch, seenRetry, stopping, published, failures, crashes, stops>>

(***************************************************************************)
(* Shutdown and crashes.                                                   *)
(***************************************************************************)

Stop(w) ==
    /\ pc[w] # "down" /\ ~stopping[w] /\ stops < MaxStops
    /\ stopping' = [stopping EXCEPT ![w] = TRUE]
    /\ stops' = stops + 1
    /\ UNCHANGED <<row, pc, batch, seenRetry, published, failures, crashes>>

\* Mutant: the loop obeys stopCh in the middle of a batch.
LeaveLoopMidBatch(w) ==
    /\ pc[w] \in Owning \union {"idle", "batch"} /\ stopping[w]
    /\ pc' = [pc EXCEPT ![w] = "down"]
    /\ batch' = [batch EXCEPT ![w] = {}]
    /\ UNCHANGED <<row, seenRetry, stopping, published, failures, crashes, stops>>

\* The loop looks at stopCh between batches only.
LeaveLoop(w) ==
    /\ pc[w] = "idle" /\ stopping[w]
    /\ pc' = [pc EXCEPT ![w] = "down"]
    /\ UNCHANGED <<row, batch, seenRetry, stopping, published, failures, crashes, stops>>

Crash(w) ==
    /\ pc[w] # "down" /\ crashes < MaxCrashes
    /\ crashes' = crashes + 1
    /\ pc' = [pc EXCEPT ![w] = "down"]
    /\ batch' = [batch EXCEPT ![w] = {}]
    /\ UNCHANGED <<row, seenRetry, stopping, published, failures, stops>>

\* A new process builds a new Relay and calls Start.
Start(w) ==
    /\ pc[w] = "down"
    /\ pc' = [pc EXCEPT ![w] = "idle"]
    /\ stopping' = [stopping EXCEPT ![w] = FALSE]
    /\ UNCHANGED <<row, batch, seenRetry, published, failures, crashes, stops>>

-----------------------------------------------------------------------------

ProcessEvent(w, e) ==
    \/ Claim(w, e) \/ SkipClaimed(w, e) \/ MarkEventFailed(w, e)
    \/ Publish(w, e) \/ ScheduleRetry(w, e)
    \/ StampProcessedAt(w, e) \/ MarkProcessed(w, e)

Fault(w, e) == PublishFails(w, e) \/ DatabaseError(w, e)

Loop(w) == Poll(w) \/ EndBatch(w) \/ LeaveLoop(w) \/ Start(w)

Next ==
    \/ \E e \in Events : Insert(e) \/ RetryTimeReached(e) \/ RetentionElapses(e)
    \/ \E w \in Workers, e \in Events : ProcessEvent(w, e) \/ Fault(w, e)
    \/ \E w \in Workers : Loop(w) \/ Stop(w) \/ Crash(w)

Spec == Init /\ [][Next]_vars

\* The ticker fires, statements return, clocks advance and dead processes
\* are restarted; nothing obliges the broker or the database to fail.
Fairness ==
    /\ \A w \in Workers : WF_vars(Loop(w) \/ \E e \in Events : ProcessEvent(w, e))
    /\ \A e \in Events : WF_vars(RetryTimeReached(e))

FairSpec == Spec /\ Fairness

-----------------------------------------------------------------------------

TypeOK ==
    /\ row \in [Events -> Row]
    /\ pc \in [Workers -> Owning \union {"idle", "batch", "down"}]
    /\ batch \in [Workers -> SUBSET Events]
    /\ seenRetry \in [Workers -> [Events -> Nat]]
    /\ stopping \in [Workers -> BOOLEAN]
    /\ published \in [Events -> Nat]
    /\ failures \in Nat /\ crashes \in Nat /\ stops \in Nat

\* Several loops may hold the same row in their batches (they select rows in
\* 'processing' too), yet the conditional UPDATE lets one of them work on it.
ClaimExclusive ==
    \A v, w \in Workers : \A e \in Events : Owns(v, e) /\ Owns(w, e) => v = w

\* No event reaches the broker twice, whatever fails, crashes or overlaps.
AtMostOnce == \A e \in Events : published[e] <= 1

\* A row that says 'processed' was published; a row that says 'failed' (the
\* dead letter an operator may replay) was never published.
StatusTellsTheTruth ==
    \A e \in Events :
        /\ row[e].status = "processed" => published[e] = 1
        /\ row[e].status = "failed" => published[e] = 0

\* Cleanup deletes no row whose event is still owed to the broker.
CleanupDeletesSettledRows ==
    \A e \in Events : row[e].gone => published[e] = 1 \/ row[e].status = "failed"

\* As long as nothing fails or crashes, every inserted event is published or
\* dead-lettered, even when loops are stopped and restarted and when batches
\* are smaller than the backlog.  With faults the code does not promise it.
EveryEventSettles ==
    [](failures = 0 /\ crashes = 0) =>
        \A e \in Events : Inserted(e) ~> (published[e] = 1 \/ row[e].status = "failed")

-----------------------------------------------------------------------------
(***************************************************************************)
(* The relay implements at-most-once delivery.                             *)
(***************************************************************************)
Delivery == INSTANCE EventDelivery WITH
    accepted <- {e \in Events : Inserted(e)},
    copies <- published,
    dead <- {e \in Events : row[e].status = "failed"}

\* Every behaviour of the relay is one of the abstract delivery service:
\* an accepted event is delivered at most once and never after its burial.
ImplementsEventDelivery == Delivery!Spec
=============================================================================
