----------------------------- MODULE ChatThreads -----------------------------
(***************************************************************************)
(* What chat stores about one booking: its thread and the messages in it.  *)
(* Booking events arrive at least once and in any order on two             *)
(* subscriptions of chat/events/subscriber.go; participants send messages  *)
(* over HTTP (chat/handlers/messages.go).  Every repository call is a step *)
(* of its own, the database and the broker may refuse a call, and the      *)
(* process may die, which loses what its handlers were doing but not the   *)
(* queued deliveries.                                                      *)
(*                                                                         *)
(* Threads and messages of different bookings never meet (booking_id is    *)
(* unique, keys start with the booking id), so one booking is enough.  A   *)
(* message is its idempotency key, the unique column of the table.         *)
(***************************************************************************)
EXTENDS Naturals, FiniteSets

CONSTANTS
    AssignedEvents,     \* events of topic booking-assigned
    StatusEvents,       \* events of topic booking-status
    SilentEvents,       \* those whose status is 'assigned' or has no template
    UnassignedEvents,   \* those that name no artisan
    AnonymousEvents,    \* those that name no customer
    AutoKey,            \* auto-<booking>-<status>[-<quote>] of each event
    Handlers,           \* deliveries in progress at a time
    Senders,            \* SendMessage requests in progress at a time
    UserKeys,           \* idempotency keys the clients choose
    Owner,              \* the participant who uses each key
    MaxFaults           \* bound on refused calls and crashes in a behaviour

Events == AssignedEvents \cup StatusEvents
AutoKeys == {AutoKey[e] : e \in Events}
Keys == AutoKeys \cup UserKeys
NoEvent == "no event"
NoKey == "no key"

ASSUME ChatAssumption ==
    /\ AssignedEvents \cap StatusEvents = {}
    /\ SilentEvents \subseteq StatusEvents
    /\ UnassignedEvents \subseteq Events /\ AnonymousEvents \subseteq Events
    /\ AutoKeys \cap UserKeys = {}
    /\ Owner \in [UserKeys -> {"customer", "artisan"}]
    /\ NoEvent \notin Events /\ NoKey \notin Keys
    /\ MaxFaults \in Nat

VARIABLES
    service,    \* subscriberInstance and serviceOnce of the process
    queue,      \* published events the broker still owes a delivery of
    acked,      \* events acknowledged at least once
    at,         \* where each delivery is
    job,        \* the event it carries
    thread,     \* the booking's row of threads; metadata names the artisan or not
    stored,     \* keys of the rows of messages
    last,       \* last_message_id of the thread
    announced,  \* thread.created events published
    line,       \* where each SendMessage is
    key,        \* the key of its request
    sent,       \* message.sent events published for each key
    overtaken,  \* a status event was handled before the assignment was acked
    faults      \* calls refused and crashes so far

inbox == <<queue, acked, at, job, announced, overtaken>>
outbox == <<line, key, sent, last>>
vars == <<service, inbox, thread, stored, outbox, faults>>

Init ==
    /\ service = "down"
    /\ queue = Events /\ acked = {}
    /\ at = [h \in Handlers |-> "idle"]
    /\ job = [h \in Handlers |-> NoEvent]
    /\ thread = "none"
    /\ stored = {}
    /\ last = NoKey
    /\ announced = 0
    /\ line = [s \in Senders |-> "idle"]
    /\ key = [s \in Senders |-> NoKey]
    /\ sent = [k \in UserKeys |-> 0]
    /\ overtaken = FALSE
    /\ faults = 0

\* The inserts and the save of the repositories, where the database performs them:
\* booking_id and idempotency_key are unique.
InsertThread(as) == thread = "none" /\ thread' = as
InsertMessage(k) == k \notin stored /\ stored' = stored \cup {k}
SaveThread(k) == last' = k

Fault == faults < MaxFaults /\ faults' = faults + 1

(***************************************************************************)
(* The broker and the process.                                             *)
(***************************************************************************)

\* At-least-once: an acknowledged event may come again.
Redeliver(e) ==
    /\ e \in acked \ queue
    /\ queue' = queue \cup {e}
    /\ UNCHANGED <<service, acked, at, job, announced, overtaken, thread, stored, outbox, faults>>

\* A delivery of e starts on h, at any time after the event was published;
\* another one of the same event may still be running.
Starts(h, e) == at[h] = "idle" /\ e \in queue

\* The handler of e returned nil.
Done(e) == queue' = queue \ {e} /\ acked' = acked \cup {e}

\* It returned an error: the broker will deliver again.
Refused == UNCHANGED <<queue, acked>>

Idle(h) == at' = [at EXCEPT ![h] = "idle"] /\ job' = [job EXCEPT ![h] = NoEvent]

Begin(h, e, there) ==
    /\ at' = [at EXCEPT ![h] = there]
    /\ job' = [job EXCEPT ![h] = e]
    /\ UNCHANGED <<queue, acked>>

Ack(h) == Idle(h) /\ Done(job[h])
Nack(h) == Idle(h) /\ Refused

Goto(h, there) ==
    /\ at' = [at EXCEPT ![h] = there]
    /\ UNCHANGED <<job, queue, acked>>

\* initService runs once per process; its connections may fail to open, and then
\* no later call tries again.
InitService ==
    \/ service = "down" /\ service' = "up" /\ UNCHANGED faults
    \/ service = "down" /\ service' = "broken" /\ Fault

\* Any API request of the service.
Request ==
    /\ InitService
    /\ UNCHANGED <<inbox, thread, stored, outbox>>

Crash ==
    /\ Fault
    /\ service' = "down"
    /\ at' = [h \in Handlers |-> "idle"]
    /\ job' = [h \in Handlers |-> NoEvent]
    /\ line' = [s \in Senders |-> "idle"]
    /\ key' = [s \in Senders |-> NoKey]
    /\ UNCHANGED <<queue, acked, announced, overtaken, thread, stored, last, sent>>

(***************************************************************************)
(* HandleBookingAssigned.  It alone creates a thread the artisan may join. *)
(***************************************************************************)

\* Events that name both participants; from no other is a thread made.
Complete == Events \ (UnassignedEvents \cup AnonymousEvents)

Assigned(h, there) == at[h] = there /\ job[h] \in AssignedEvents

\* No artisan, or a thread found: nothing to do.
AssignedSkip(e) ==
    /\ e \in queue \cap AssignedEvents /\ service = "up"
    /\ e \in UnassignedEvents \/ thread # "none"
    /\ Done(e)
    /\ UNCHANGED <<service, at, job, announced, overtaken, thread, stored, outbox, faults>>

\* No thread found, or the lookup failed, which is not told apart.  Only the
\* status subscription initialises the service: before it is up, the delivery is
\* refused without a change, as it is by ValidateCreateThread for want of a customer.
AssignedLookup(h, e) ==
    /\ Starts(h, e) /\ e \in AssignedEvents \cap Complete
    /\ service = "up"
    /\ Begin(h, e, "create")
    /\ \/ thread = "none" /\ UNCHANGED faults
       \/ thread # "none" /\ Fault
    /\ UNCHANGED <<service, announced, overtaken, thread, stored, outbox>>

\* Mutant: losing the race for the thread is taken for having created it.
AssignedCreateAnyway(h) ==
    /\ Assigned(h, "create")
    /\ thread' = IF thread = "none" THEN "joined" ELSE thread
    /\ Goto(h, "welcome")
    /\ UNCHANGED <<service, announced, overtaken, stored, outbox, faults>>

\* INSERT INTO threads with artisan_user_id in the metadata; booking_id is unique.
AssignedCreate(h) ==
    /\ Assigned(h, "create")
    /\ \/ InsertThread("joined") /\ Goto(h, "welcome") /\ UNCHANGED faults
       \/ thread # "none" /\ Ack(h) /\ UNCHANGED <<thread, faults>>
       \/ Fault /\ Nack(h) /\ UNCHANGED thread
    /\ UNCHANGED <<service, announced, overtaken, stored, outbox>>

\* The welcome message: a duplicate key or a failure is only logged.
AssignedWelcome(h) ==
    /\ Assigned(h, "welcome")
    /\ \/ InsertMessage(AutoKey[job[h]]) /\ UNCHANGED faults
       \/ AutoKey[job[h]] \in stored /\ UNCHANGED <<stored, faults>>
       \/ UNCHANGED stored /\ Fault
    /\ Goto(h, "announce")
    /\ UNCHANGED <<service, announced, overtaken, thread, outbox>>

\* thread.created goes straight to the topic; a refusal is only logged.
AssignedAnnounce(h) ==
    /\ Assigned(h, "announce")
    /\ \/ announced' = announced + 1 /\ UNCHANGED faults
       \/ UNCHANGED announced /\ Fault
    /\ Ack(h)
    /\ UNCHANGED <<service, overtaken, thread, stored, outbox>>

(***************************************************************************)
(* HandleBookingStatusChange: the automated message of a status.           *)
(***************************************************************************)

Status(h, there) == at[h] = there /\ job[h] \in StatusEvents

\* The lazy initialisation; where it failed, every delivery is refused.
StatusInit(e) ==
    /\ e \in queue \cap StatusEvents
    /\ InitService
    /\ UNCHANGED <<inbox, thread, stored, outbox>>

StatusSilent(e) ==
    /\ e \in queue \cap SilentEvents /\ service = "up"
    /\ Done(e)
    /\ UNCHANGED <<service, at, job, announced, overtaken, thread, stored, outbox, faults>>

\* getOrCreateThread: the thread is found, or one must be made, also when the
\* lookup failed; without both participants to make it with, the delivery is refused.
StatusLookup(h, e) ==
    /\ Starts(h, e) /\ e \in StatusEvents \ SilentEvents
    /\ service = "up"
    /\ \/ thread # "none" /\ Begin(h, e, "say") /\ UNCHANGED faults
       \/ /\ e \in Complete
          /\ Begin(h, e, "create")
          /\ \/ thread = "none" /\ UNCHANGED faults
             \/ thread # "none" /\ Fault
    /\ overtaken' = (overtaken \/ (AssignedEvents \ UnassignedEvents) \cap acked = {})
    /\ UNCHANGED <<service, announced, thread, stored, outbox>>

\* Mutant: losing the race for the thread ends the delivery, as it does for the
\* assignment.
StatusCreateYields(h) ==
    /\ Status(h, "create")
    /\ thread' = IF thread = "none" THEN "closed" ELSE thread
    /\ IF thread = "none" THEN Goto(h, "say") ELSE Ack(h)
    /\ UNCHANGED <<service, announced, overtaken, stored, outbox, faults>>

\* INSERT INTO threads without metadata: the artisan of such a thread cannot join.
StatusCreate(h) ==
    /\ Status(h, "create")
    /\ \/ InsertThread("closed") /\ Goto(h, "say") /\ UNCHANGED faults
       \/ thread # "none" /\ Nack(h) /\ UNCHANGED <<thread, faults>>
       \/ Fault /\ Nack(h) /\ UNCHANGED thread
    /\ UNCHANGED <<service, announced, overtaken, stored, outbox>>

\* Mutant: a failed insert of the automated message is only logged.
StatusSayLogged(h) ==
    /\ Status(h, "say")
    /\ \/ stored' = stored \cup {AutoKey[job[h]]} /\ UNCHANGED faults
       \/ UNCHANGED stored /\ Fault
    /\ Ack(h)
    /\ UNCHANGED <<service, announced, overtaken, thread, outbox>>

\* createAutomatedMessage: a duplicate key is an error like any other.
StatusSay(h) ==
    /\ Status(h, "say")
    /\ \/ InsertMessage(AutoKey[job[h]]) /\ Ack(h) /\ UNCHANGED faults
       \/ AutoKey[job[h]] \in stored /\ Nack(h) /\ UNCHANGED <<stored, faults>>
       \/ Fault /\ Nack(h) /\ UNCHANGED stored
    /\ UNCHANGED <<service, announced, overtaken, thread, outbox>>

(***************************************************************************)
(* SendMessage.                                                            *)
(***************************************************************************)

\* AuthorizeThreadParticipant: the customer, or the user the metadata names.
Participant(who) == who = "customer" \/ thread = "joined"

\* The thread is read, the user authorised and the request validated.
Send(s, k) ==
    /\ line[s] = "idle" /\ service = "up"
    /\ thread # "none" /\ Participant(Owner[k])
    /\ line' = [line EXCEPT ![s] = "check"]
    /\ key' = [key EXCEPT ![s] = k]
    /\ UNCHANGED <<service, inbox, thread, stored, sent, last, faults>>

Reply(s) ==
    /\ line' = [line EXCEPT ![s] = "idle"]
    /\ key' = [key EXCEPT ![s] = NoKey]

Step(s, there) == line' = [line EXCEPT ![s] = there] /\ UNCHANGED key

\* A message under the key is the answer; a failed lookup is an error.
SendCheck(s) ==
    /\ line[s] = "check"
    /\ \/ key[s] \in stored /\ Reply(s) /\ UNCHANGED faults
       \/ key[s] \notin stored /\ Step(s, "create") /\ UNCHANGED faults
       \/ Fault /\ Reply(s)
    /\ UNCHANGED <<service, inbox, thread, stored, sent, last>>

\* Mutant: the insert is an upsert, so a request that lost the race goes on.
SendCreateUpserts(s) ==
    /\ line[s] = "create"
    /\ stored' = stored \cup {key[s]}
    /\ Step(s, "save")
    /\ UNCHANGED <<service, inbox, thread, sent, last, faults>>

\* INSERT INTO messages: the loser of a race under one key gets an error.
SendCreate(s) ==
    /\ line[s] = "create"
    /\ \/ InsertMessage(key[s]) /\ Step(s, "save") /\ UNCHANGED faults
       \/ key[s] \in stored /\ Reply(s) /\ UNCHANGED <<stored, faults>>
       \/ Fault /\ Reply(s) /\ UNCHANGED stored
    /\ UNCHANGED <<service, inbox, thread, sent, last>>

\* The copy of the thread read at the start is saved with the new last message.
SendSave(s) ==
    /\ line[s] = "save"
    /\ \/ SaveThread(key[s]) /\ UNCHANGED faults
       \/ UNCHANGED last /\ Fault
    /\ Step(s, "publish")
    /\ UNCHANGED <<service, inbox, thread, stored, sent>>

\* message.sent goes straight to the topic; a refusal is only logged.
SendPublish(s) ==
    /\ line[s] = "publish"
    /\ \/ sent' = [sent EXCEPT ![key[s]] = @ + 1] /\ UNCHANGED faults
       \/ UNCHANGED sent /\ Fault
    /\ Reply(s)
    /\ UNCHANGED <<service, inbox, thread, stored, last>>

\* The steps of a delivery once it has started.
HandleBookingAssigned(h) == AssignedCreate(h) \/ AssignedWelcome(h) \/ AssignedAnnounce(h)
HandleBookingStatusChange(h) == StatusCreate(h) \/ StatusSay(h)

\* The broker delivers e.
Deliver(e) ==
    \/ AssignedSkip(e) \/ StatusInit(e) \/ StatusSilent(e)
    \/ \E h \in Handlers : AssignedLookup(h, e) \/ StatusLookup(h, e)

SendMessage(s) == SendCheck(s) \/ SendCreate(s) \/ SendSave(s) \/ SendPublish(s)

Next ==
    \/ \E e \in Events : Deliver(e) \/ Redeliver(e)
    \/ \E h \in Handlers : HandleBookingAssigned(h) \/ HandleBookingStatusChange(h)
    \/ \E s \in Senders, k \in UserKeys : Send(s, k)
    \/ \E s \in Senders : SendMessage(s)
    \/ Request
    \/ Crash

Spec == Init /\ [][Next]_vars

\* The broker delivers what it owes and a running handler goes on.
FairSpec ==
    /\ Spec
    /\ \A h \in Handlers :
          /\ WF_vars(HandleBookingAssigned(h)) /\ WF_vars(HandleBookingStatusChange(h))
    /\ \A e \in Events : SF_vars(Deliver(e))

(***************************************************************************)
(* Properties.                                                             *)
(***************************************************************************)

TypeOK ==
    /\ service \in {"down", "up", "broken"}
    /\ queue \subseteq Events /\ acked \subseteq Events
    /\ at \in [Handlers -> {"idle", "create", "welcome", "announce", "say"}]
    /\ job \in [Handlers -> Events \cup {NoEvent}]
    /\ \A h \in Handlers : at[h] # "idle" => job[h] \in Events
    /\ thread \in {"none", "closed", "joined"}
    /\ stored \subseteq Keys
    /\ last \in stored \cup {NoKey}
    /\ announced \in Nat
    /\ line \in [Senders -> {"idle", "check", "create", "save", "publish"}]
    /\ key \in [Senders -> UserKeys \cup {NoKey}]
    /\ \A s \in Senders : line[s] # "idle" => key[s] \in UserKeys
    /\ sent \in [UserKeys -> Nat]
    /\ overtaken \in BOOLEAN
    /\ faults \in Nat

\* Nothing is acknowledged before it has had its effect: an assignment leaves a
\* thread, a status with a template leaves its automated message.  The handlers
\* return nil from many places, after races, duplicates and failures.
AckedMeansSaid ==
    /\ \A e \in (acked \cap AssignedEvents) \ UnassignedEvents : thread # "none"
    /\ \A e \in (acked \cap StatusEvents) \ SilentEvents : AutoKey[e] \in stored

\* However often and concurrently the assignment is delivered, and whatever dies
\* in between, subscribers hear of at most one thread, and only of one they may join;
\* the artisan is shut out of it only when a status event was handled before the
\* assignment had been acknowledged.
AnnouncedOnce ==
    /\ announced <= 1
    /\ announced = 1 => thread = "joined"
    /\ thread = "closed" => overtaken

\* Retries and concurrent requests under one idempotency key store one message and
\* publish at most one message.sent event, and none for a message that is not stored.
SentOnce == \A k \in UserKeys : sent[k] <= 1 /\ (sent[k] = 1 => k \in stored)

\* A published status event with a template gets its automated message in the end,
\* through lost races, redeliveries and restarts, unless the process failed to
\* initialise or the event does not name both participants.
StatusIsSaid ==
    \A e \in (StatusEvents \cap Complete) \ SilentEvents :
        <>(AutoKey[e] \in stored \/ service = "broken")
=============================================================================
