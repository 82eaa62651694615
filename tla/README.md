# protistan.service: TLA+ models, checks and proofs

protistan.service is the backend of a marketplace for craftsmen: a customer
books an artisan, the artisan quotes, the customer accepts and pays, the artisan
does the work, and the two chat about it. It is a set of Go services in one
process (Encore), each with a PostgreSQL database of its own, which talk over
private calls and over a shared outbox table in the `core` database. This
directory holds TLA+ modules of its core logic, the TLC configurations that
check them, and TLAPS proofs.

Contents: 1 Inventory, 2 Plan, 3 Modules and the code, 4 Runs, 5 What the code
does not do, 6 Proofs, 7 Not modelled.

## 1. Inventory

| Component (src/) | State | Operations | Talks to |
|---|---|---|---|
| `core/relay` outbox relay | `core_event_outbox` rows (status, retry_count, next_retry_at, processed_at); the batch each loop holds; a stopping flag | poll, claim, publish, mark processed, retry, mark failed, cleanup, Start/Stop | inserted into by every service; publishes to the Encore topics |
| `booking` | booking row (status, artisan, payment reservation, version), offers | offer, accept, reject, expire, update status, cancel, rematch, reserve/release for payment | events of quote and payment; private calls of payment; events to chat |
| `booking`: creation | idempotency keys, booking rows, the process's cache of bookings | CreateBooking, the cache work of every handler | outbox |
| `quote` | quotes (state, db_version, valid_until), cached documents | propose, accept, reject, expire, get | reads the booking through its cache; outbox events |
| `payment` | transactions, attempts, webhook records | InitializePayment, webhooks, repair job, callback pages | the provider (Nomba); booking's private endpoints; outbox events |
| `core/cache` | entries with expiry, LRU list, trie index of keys, counters, loads in flight | Get, GetOrLoad, Set, SetWithVersion, Delete, DeleteByPrefix, eviction, cleanup | used by booking, quote, user, artisans |
| `chat`: threads | threads, messages, the subscriber's one-time initialisation | the two booking subscriptions, SendMessage, listings | events of booking; topics of chat |
| `chat`: stream | websocket connections and their channels, message receipts | connect, replay, broadcast, acknowledge, bulk read | its own messages |
| `auth` | users with roles, reset and verification tokens, sessions | register, login, refresh, roles, password reset, email verification | user, artisans (through claims) |
| `user` | profiles, settings, `users.profile_complete` | get-or-create, update, onboarding state | customers, artisans |
| `customers` | addresses with one default | add, change, delete, list | onboarding |
| `artisans` | artisan row with its rate count, rates | create or update profile, availability, rates, search | onboarding, user |
| `admin` | none of its own | user queries, one update | user |

What is hard here, and what each part must guarantee:

* **Relay.** Several loops (services, instances) poll one table. Polling also
  selects rows in `processing`, so batches overlap; the claim is a conditional
  UPDATE; a process may die or a call fail between any two statements; a
  publish may fail although the broker kept the message. To guarantee: one
  worker per event, no duplicate, truthful status, nothing deleted that is owed.
* **Booking.** Every handler reads a row, decides, and writes the whole row
  later under `WHERE version = ?`. Two databases commit one after the other.
  Offers are read outside the transaction; the expiry job runs beside the
  answers; a payment reservation lapses and is taken over; events are
  redelivered. To guarantee: legal transitions, one artisan, one live payment,
  and as many events as changes.
* **Creation and the booking cache.** CreateBooking runs without a transaction
  around its idempotency key; clients repeat it while it runs. The row is read
  again after each commit and put into a cache that others fill and drop. To
  guarantee: one booking per key, a key stuck only by a failure, an old
  cache entry only where calls overlapped.
* **Quotes.** The "transaction" opens on the core database only
  (`quote_repository.go:194`), so each quote statement commits by itself.
  Proposals, answers and expiry overlap on `db_version` and two unique indexes.
  To guarantee: one open quote, settled quotes final, truthful events.
* **Payments.** Whole-row saves without a lock, two commits, a provider that
  refuses, loses answers and repeats webhooks, and a reservation in another
  service. To guarantee: nothing is announced that the provider did not settle,
  one payable link, one verdict, a paid booking is confirmed.
* **Cache.** A load, a wait and the index update of a prefix deletion run outside
  the lock; entries expire and sweeps start at any moment. To guarantee: one
  loader per key, list and map in step, index entries lost to purges only,
  every waiter served.
* **Chat threads.** Booking events come at least once, in any order, on two
  subscriptions, and race for the one thread of the booking; the handlers
  return success from many places. To guarantee: what is acknowledged has had
  its effect, one announcement, one message per key, each status said in the end.
* **Chat stream.** A connection replays history and then follows the live stream;
  channels are bounded and shared by one goroutine; an acknowledgement reads a
  row and writes it later. To guarantee: no message falls in between, receipts
  never go back, no connection holds up another.
* **Auth.** The role calls write back every column of the row they read; tokens
  are looked up before the transaction that uses them. To guarantee: the active
  role is enabled, one registration of an email, nothing lost but to overlap.
* **User and customers.** Update-or-insert without a unique index; a flag set by
  a statement of its own; the default address is unset before the new one is
  written. To guarantee: one row unless requests raced, a default that stays.
* **Artisans.** A trigger counts rates in the snapshot of a statement that may
  wait for the row's lock. To guarantee: search and onboarding see whether there
  is a rate, although the count drifts.

`PROJECT.json` lists the hazards at their lines, each with the properties that
cover it.

## 2. Plan

| Order | Modules | State |
|---|---|---|
| 1 | `EventDelivery` (abstract), `OutboxRelay`, `OutboxRelayProofs` | checked and proved |
| 2 | `Booking`, `BookingProofs` | checked and proved, but for liveness |
| 3 | `QuoteLifecycle` (abstract), `Quotes`, `QuotesProofs` | checked and proved, but for liveness |
| 4 | `Payments`, `PaymentsProofs` | checked and proved, but for liveness |
| 5 | `InMemoryCache`, `InMemoryCacheProofs` | checked and proved, but for liveness |
| 6 | `BookingCreation`, `BookingCreationProofs` | checked and proved |
| 7 | `ChatThreads`, `ChatStream`, `ChatProofs` | checked and proved, but for liveness |
| 8 | `Accounts`, `Profiles`, `Artisans`, `MembersProofs` | checked and proved |
| next | a composition of `Quotes` and `Booking` through the relay's delivery | open: the product of their states is beyond TLC at useful bounds |

Modules that are proved about use no RECURSIVE operator; each bound is a named
CONSTANT with a named assumption; an invariant is a conjunction of named parts.
`ChatProofs` and `MembersProofs` each extend the components of one area, whose
definitions therefore have names of their own (`StreamSpec`, `ProfileSpec`,
`ArtisanSpec`).

How the modules compose: `OutboxRelay` implements `EventDelivery`, and `Quotes`
implements `QuoteLifecycle`. `Booking` sees quotes and payments only through
the events those services may send, delivered any number of times and in any
order, and `Payments` sees the booking only through its reservation, whose four
operations are single steps there because `Booking` shows that the version check
makes them so. `ChatThreads` takes the booking's events as a set, delivered
likewise. `BookingCreation` starts where `Booking`'s row begins to exist.

## 3. Modules and the code

Common to all modules: one action per statement, commit or remote call of a
handler, so that other handlers run in between wherever the code lets them; a
call whose first checks fail changes nothing and has no action; data that no
property tells apart (amounts, reasons, identities, wording) is left out.

### OutboxRelay, EventDelivery (`core/relay`)

| Model | Code |
|---|---|
| `row` | `core_event_outbox`; time is two facts, `due` (next_retry_at reached) and `old` (retention elapsed) |
| `batch`, `seenRetry` | what `GetUnprocessedEvents` returned to a loop |
| `Poll`, `Claim`, `SkipClaimed`, `Publish`, `MarkEventFailed`, `ScheduleRetry` | `processBatch`, `processEvent`, `claimEvent`, `scheduleRetry` |
| `StampProcessedAt`, `MarkProcessed` | the two UPDATEs of `MarkEventProcessed` |
| `EndBatch` | `CleanupOldEvents` after a batch |
| `Stop`, `LeaveLoop`, `Start`, `Crash`, `DatabaseError`, `PublishFails` | `Stop`/`Start`, a dying process, a refused statement, a broker error that may have kept the message |

`EventDelivery` is the promise to producers: an accepted event is delivered at
most once, and never after it was buried. `OutboxRelay` implements it through
`accepted` (the rows), `copies` (`published`) and `dead` (status `failed`).

### Booking (`booking`)

| Model | Code |
|---|---|
| `booking`, `offer` | the row with its version, the offers (one per artisan) |
| `seen`, `event` | the copy of the row a handler will write back, the event it will insert (with, as history, the version of the row it was made from) |
| `Permits` | each handler's validation: the transition table, the role rules of `internal/authz.go`, `offer_validator.go`, the reservation checks |
| `Written`, `OffersAfter` | the row and the offers its transaction writes |
| `Begin`, `BeginResponse` + `ValidateAcceptance` + `Load`, `BeginExpiry` | where each handler does its reads: inside the transaction, or partly before it |
| `CommitBooking`, `Conflict`, `CommitOutbox` | the versioned UPDATE and the commit of the booking database; the optimistic lock failure; the commit of the core database |
| `OfferLapses`, `ReservationLapses`, `QuoteChanges`, `PaymentSettles` | the clock and the other services; an event may be delivered any number of times |

### BookingCreation (`booking/handlers/bookings.go`, its cache calls everywhere)

| Model | Code |
|---|---|
| `record` | `idempotency_keys`: status, request (user, key, hash), booking; `expired` is the day that has passed |
| `booking`, `cached` | version and request of each booking; the version in the process's cache |
| `CheckIdempotencyKey`, `StoreIdempotencyKey`, `StoreUnanswered`, `Validate`, `Insert`, `CacheCreated`, `OfferFails`, `CompleteIdempotencyKey`, `CompletionFails` | CreateBooking, statement by statement, with the answers that may be lost and the failures it only logs |
| `GetBooking`, `Fill` | the read through the cache |
| `UpdateBookingStatusInternal`, `Refetch`, `Fill` | a versioned change, the read after the commit, the cache write |
| `CommitOffer`, `Drop`, `ExpireOffer` | the offer handlers, which delete the entry, and the job, which does not |
| `EntryExpires`, `KeyExpires`, `Fails`, `Restart` | the clock, a refused statement or dying call, a dying process |

### Quotes, QuoteLifecycle (`quote`)

| Model | Code |
|---|---|
| `quote` | the rows of one booking by version number; `state`, `db_version` |
| `staged`, `sent` | events inserted in the open core transaction, and committed |
| `BeginPropose`, `ExpireOld`, `Number`, `Create`, `ListExisting`, `Supersede`, `AnnounceProposal` | `ProposeQuote`, statement by statement |
| `BeginDecision`, `BeginExpiry`, `Decide` | `AcceptQuote`, `RejectQuote`, `ExpireQuote` (the job and `handleExpiredQuoteSync`) |
| `Commit`, `Abort`, `Fail`, `Restart` | the end of `WithTransaction`; `Abort` rolls the core transaction back and nothing else |
| `BeginGet`, `FillCache`, `Purge`, `CacheEntryExpires` | `GetQuote` through the cache, `clearQuoteCache`, the hour of validity |

`QuoteLifecycle` is the promise about a booking's quotes: numbered without gaps,
one open at a time, settled ones final. `Quotes` implements it by forgetting
everything but the states.

### Payments (`payment`, and booking's four payment operations)

| Model | Code |
|---|---|
| `txn`, `attempt`, `recorded` | transactions (with current attempt, event marker, repair flag), attempts, webhook records |
| `order` | the provider's order of each attempt: `created` before the customer has the link, then `open` |
| `call[h].row` | the copy a handler will save whole |
| `Lookup`, `Create`, `Resolve`, `Cancel`, `Verify`, `SaveReplaced`, `Reserve`, `CreateAttempt`, `InitializeOrder`, `Activate`, `ReturnLink` | `InitializePayment` |
| `Flag`, `ClearFlag`, `MarkInitFailed`, `NoteInitFailed`, `Release` | its error paths, with what each of them saves |
| `BeginWebhook`, `ReadTxn`, `Settle`, `CommitOutbox`, `Mark` | the webhook, the paid order found by a retry, both commits, the marker |
| `BeginRepair` | the repair job, from its candidate on |
| `EventArrives`, `ReservationLapses`, `OrderSettles` | booking's subscriptions, its clock, the provider |
| `overlapped` | history: two handlers have been under way at once, or one began with a booking older than its row |

A transaction of the payment database is one step, except for the webhook: it
holds its notice's unique key from `ReadTxn` to `Settle`, and others run in
between. When an attempt is rolled back after the handler's copy of its
transaction was pointed at it, the flag that copy should carry cannot be saved
either (a foreign key refuses it); the model saves it with the old attempt.

### InMemoryCache (`core/cache`)

| Model | Code |
|---|---|
| `cache`, `lru`, `counted`, `trie` | the map, `evictionList`, `metrics.Entries` (and, values having one size, `metrics.Size`), the keys in `keyTrie` |
| `requests`, `inFlight` | the `inFlightRequest`s ever made (waiters keep a pointer to theirs), and the table of them |
| `GetHit`, `GetMiss`, `Touch` | `Get`: the read under RLock, then the move to the front under Lock |
| `EnterHit`, `EnterJoin`, `EnterLoad`, `FinishLoad`, `Release`, `Store`, `Wake` | `GetOrLoad`, one step per lock section, loader and `wg` operation |
| `SetEntry` in `Set` and `Store` | `SetWithVersion` with version 0, its evictions and its removal of the old entry included |
| `FindPrefix`, `RemoveFound`, `Unindex` | `DeleteByPrefix`: trie lookup, locked removal, unlocked trie deletions |
| `Delete`, `Sweep`, `CleanupExpired`, `EntryExpires` | `Delete`, the deletion a `Get` starts on an expired entry, the ticker's round, the clock |

### ChatThreads (`chat/events/subscriber.go`, `chat/handlers/messages.go`)

| Model | Code |
|---|---|
| `queue`, `acked`, `Redeliver` | what the broker owes; at-least-once delivery in any order |
| `service` | `subscriberInstance` behind its `sync.Once`: `down`, `up`, or `broken` for good when the first initialisation failed |
| `thread` | the row of `threads`: absent, without (`closed`) or with (`joined`) the artisan in its metadata |
| `stored`, `last` | the messages by idempotency key; `last_message_id` |
| `UnassignedEvents`, `AnonymousEvents`, `Complete` | events without an artisan, without a customer, with both |
| `AssignedSkip`, `AssignedLookup`, `AssignedCreate`, `AssignedWelcome`, `AssignedAnnounce` | `HandleBookingAssigned` |
| `StatusInit`, `StatusSilent`, `StatusLookup`, `StatusCreate`, `StatusSay` | `HandleBookingStatusChange`, with the initialisation it starts |
| `Send`, `SendCheck`, `SendCreate`, `SendSave`, `SendPublish` | `SendMessage` |
| `Request`, `Crash` | any HTTP request (which initialises the service), a dying process |

### ChatStream (`chat/handlers/websocket.go`, `chat/repository/message_repo.go`)

| Model | Code |
|---|---|
| `status`, `version` | the receipts of the message rows and their `db_version` |
| `broadcast`, `item`, `targets` | the manager's channel, the frame its goroutine is sending and to whom it still has to |
| `stage`, `registered`, `replay`, `send`, `seen` | each connection: its place, its history, its channel, what its writer wrote |
| `skipped`, `dropped` | history: messages older than the replay; messages a full channel lost |
| `Store`, `HandOver` | a message is inserted, then handed to `Broadcast` |
| `LoopTake`, `LoopSend` | `wsManager`'s goroutine; a send gives up at a full channel |
| `Connect`, `ReadHistory`, `ReplayNext`, `ReplayComplete`, `Write`, `HangUp`, `Unregister` | `HandleWebSocket`, its writer, the end of a connection |
| `Say`, `AckRead`, `AckUpdate`, `AckBroadcast`, `AckAgain` | frames of a client; an acknowledgement reads the row, updates under `db_version`, tells the others |
| `MarkThreadAsRead` | the bulk UPDATE, which leaves `db_version` alone |

### Accounts (`auth`)

| Model | Code |
|---|---|
| `user`, `reset`, `verification`, `session` | the row of `users`, the tokens, whether a refresh token is valid |
| `claims` | the claims of the JWT issued last |
| `copy`, `arg` | the row a role call read and will save whole; what a call was asked |
| `since`, `answered` | history: what was written since that read; registrations that got tokens |
| `RegisterCheck`, `RegisterCreate`, `Login`, `Refresh` | registration and the calls that issue tokens |
| `EnableRoleRead`/`Save`, `SetActiveRoleRead`/`Save` | the role mutations: read, then `Save` of every column |
| `ForgotPassword`, `ResetPasswordFind`/`Commit`, `SendVerificationEmail`, `VerifyEmailFind`/`Commit` | the token endpoints: find, then a transaction |
| `UpdateProfileComplete`, `SessionExpires`, `ResetExpires`, `VerificationExpires` | the user service's write of one column; the clock |

### Profiles (`user`, `customers`)

| Model | Code |
|---|---|
| `Fields`, `KeyFields` | what onboarding asks for (names, phone, avatar), and what `UpdateProfile` asks for before it sets the flag (no avatar) |
| `rows`, `settings`, `complete` | the committed rows of `user_profiles` in id order (ids are random), how many `user_settings` has, `users.profile_complete` |
| `addresses` | each address: none, plain or default |
| `GetProfile`, `FetchInternal`, `EnsureSettings`, `EnsureCommit` | get-or-create in its transaction |
| `UpdateProfileRead`, `UpsertProfile`, `InsertProfile`, `SetProfileComplete` | read, UPDATE by user id, INSERT when no row was hit, the flag afterwards |
| `UpdateSettings` | the settings' update-or-insert |
| `AddDefaultAddress`, `UpdateDefaultAddress`, `UnsetDefaultAddresses`, `CreateAddress`, `UpdateAddress`, `CommitAddress` | the transaction that moves the default, with its row locks at READ COMMITTED and the unique index |
| `AddPlainAddress`, `DeleteAddress`, `CustomerOnboarding` | the one-statement operations; `computeOnboardingState` of a customer |

### Artisans (`artisans`)

| Model | Code |
|---|---|
| `artisan`, `rates` | the committed row (categories, availability, `rates_count`), the services with a rate |
| `work[c].snapshot`, `.holds`, `.locks`, `.pending` | what the waiting UPDATE of the trigger counted, the locks and uncommitted rates of a transaction |
| `CreateProfile`, `InsertArtisan`, `CommitArtisan`, `OverwriteArtisan`, `ReloadArtisan` | creation, and the path for an artisan that exists |
| `UpdateProfile`, `UpdateAvailability`, `UpdateArtisan`, `CommitUpdate` | the column updates |
| `UpdateArtisanRates`, `CheckService`, `UpdateRate`, `InsertRate`, `SetRatesCount`, `CommitRates` | the list of rates in one transaction, and the trigger of migration 7 |
| `Abort`, `EligibilityChanges` | an aborted transaction; role and basic profile, kept elsewhere |
| `Discoverable`, `ArtisanOnboarding` | search's condition; `computeOnboardingState` of an artisan |

The operators marked "Mutant" are not part of the model. Each is a plausible bug
put in place of the definition after it, with which the property named in
`PROJECT.json` fails.

## 4. Runs

| Run | Instance | States | Shows |
|---|---|---|---|
| `relay` | two loops on one prefix, 3 events (the last malformed), batches of 2, retries to 2; one failed call, one crash, one stop | 590,752 | a row's final status is true; `EventDelivery` is implemented; without faults every event is published or dead-lettered, although a batch is smaller than the backlog |
| `booking` | two handlers, two artisans, one quote, two payments, all roles; 4 calls, one crash; from a new booking and from an accepted quote | 729,086 | one artisan, legal transitions, one live reservation, complete events; the job settles lapsed offers |
| `booking_creation` | two calls at a time, 3 creations by two users under one key and without, two bookings up to version 3, one fault | 4,749,993 | one booking per key, and each answer a booking of the same request; a key is stuck only by a failure; the cache is behind only where calls overlapped |
| `quotes` | two handlers, 3 quotes, 4 calls, one failure or restart | 444,111 | the newest quote is the open one, events are truthful, the cache shows no decision that did not stand, the life cycle is implemented, the job settles lapsed quotes |
| `payments` | two handlers that may overlap, 2 checkouts, one fault, one refusal; the booking seen may be older than the row | 844,927 | nothing is announced that the provider did not settle, one event per webhook; where handlers did not overlap one payable link, one verdict, and a paid booking is confirmed |
| `payments_doc_repair` | the same | - | ends in a counterexample, see section 5 |
| `cache` | two goroutines, two keys (one with the purged prefix), room for two entries, 4 calls; loads fail and entries expire at will | 303,829 | one loader per key, list and map agree, only a purge unindexes a cached key, every GetOrLoad returns |
| `chat_threads` | one assignment and three status events (one silent, one without artisan and customer), two deliveries and two senders at a time, one key, one refused call or crash | 433,619 | what is acknowledged has had its effect; one announcement; one `message.sent` per key; each status is said in the end |
| `chat_stream` | one message, two connections, channels with room for one frame, 2 client frames, one bulk read | 652,516 | nothing falls between history and live stream; receipts follow the table; no connection holds up another |
| `accounts` | two calls at a time, two passwords, one reset and one verification token | 664,672 | the active role is enabled; one registration is answered; a role call undoes only what was written after its read |
| `profiles` | two requests at a time, three fields of which two set the flag, three addresses | 527,607 | duplicate rows, and a flag set on a row without names and phone, need overlapping requests; the default address stays; only deletions and races set a customer back |
| `artisans` | two requests at a time, two services of two categories in all orders, transactions that may abort | 704,730 | the count tells whether there is a rate although it drifts; every rate is of a category the artisan has had |

Symmetry is used where all properties are invariants or box-action formulas
(`booking_creation`, `accounts`, `profiles`, `artisans`); the runs with liveness
properties have none.

Why the bounds are enough. The races of this code are between two handlers, and
a third only repeats one of them; the runs therefore have two, and the proofs
cover any number. Two artisans and two payments are the least with which one
can be replaced by, or mistaken for, another; the third quote lets a proposal go
on while two newer quotes come and go. Four calls reach every handler's
interesting state, because `booking` also starts from an accepted quote: a new
booking would need five calls to get there. Three creations are the original,
a retry that races it and one that comes later; a third version makes a cached
copy old twice. In the cache three stores are enough to fill it, overwrite an
entry (the counter then lags by one) and evict. Three addresses are the old
default and two that compete to replace it. Two services of different
categories, asked for in both orders, make two transactions wait for each other.
In `chat_stream` the paths of two messages meet only in the channels,
which status frames fill as well when they have room for one; the replay
limit itself needs a second message, with which the run is out of reach, so
`skipped` is there only the history that could not be read. One crash or failure falls
between any two statements; a batch of 2 with 3 events makes the limit bite.

CHECK_DEADLOCK is off where calls, inserts and faults are bounded: the system
stops when they are used up and nothing is under way. `profiles` and `artisans`
need no such bounds and never stop; a pair of transactions that wait for each
other's locks in `Artisans` is broken up by the database (`Abort`).

### Fairness

* *Calls that have begun* go on (WF on each handler's, loop's or caller's steps): a
  goroutine is scheduled, a loader or a statement returns; a database that never
  answers is a failure, which the models have as a step of its own. In
  `ChatStream` these are the broadcast goroutine, each connection's reader and
  writer, and the goroutine that hands a message over; a send ends with its
  timeout.
* *Jobs and tickers* (WF): the relay's ticker, the offer expiry every 10 minutes
  and the quote expiry every 5. A lapsed offer or quote stays a candidate
  until it is settled, so weak fairness is what a periodic job gives.
* *Webhooks and the repair job* (SF, `Payments`): they need a free
  handler, which comes and goes; the provider repeats a webhook until it is
  acknowledged and the job repeats every 5 minutes, so neither is forever
  passed over.
* *Deliveries* (SF, `ChatThreads`): a delivery needs a free handler and an
  initialised service; the broker repeats an event until it is acknowledged.
  `Payments` takes delivery as WF: the relay and the topics deliver what
  is in the outbox. What the relay really promises is `EventDelivery`, which a
  refused publish ends early; `PaidIsConfirmed` supposes that this does not happen.
* Nothing obliges a client, a provider, an artisan or a fault to act.

## 5. What the code does not do

`payments_doc_repair` ends in a counterexample to a statement of the repository:
an overlapping whole-row save hides a completed payment from the repair job,
which `payment/repository/repository.go:216` says reconciles any completed
payment; the finding in `PROJECT.json` quotes it.

Other behaviours met while modelling. The models contain all of them that
concern modelled state, and the properties are stated so that they allow exactly
these.

*Relay.*
* A rescheduled row stays `processing` and is never claimed again, while
  `core/relay/RelayDocumentation.MD:317` says it will be retried. A relay that
  dies with a claimed row leaves it so too; such rows are polled for ever, and
  a batch full of them starves the queue.

*Booking.*
* A pending offer outlives the cancellation of its booking, and its answer or
  expiry revives the booking, against the comment in
  `booking/domain/models.go:41` that nothing leaves `cancelled`.
* The expiry overwrites an answer committed after its unlocked read, although
  `offers.go:572` says that it processes pending offers only.
* The two commits of a booking change can lose its event in a crash
  (`EventsAccountedFor` counts exactly these). The expiry job leaves the cached
  booking as it was.
* `generateRequestHash` (`bookings.go:654`) leaves out the chosen artisan, the
  media and the metadata, though its comment says request fields: a repetition
  that names another artisan is answered with the first booking. A key past its
  day is not found and yet refused by the unique index.
* Rematch requests are not deduplicated: `ValidateIdempotency`
  (`internal/validation.go:97`) accepts when its marker exists and stores it when
  not. `OnQuoteProposed` (`service.go:462`) looks for a quote id in the booking's
  metadata, where no handler puts it, so a redelivered proposal is applied again.

*Quotes.*
* A slow proposal supersedes the newer quote, where `quote/README.md:24` says
  that older ones are superseded; superseding inserts no event.
* An accepted quote survives the failure that loses its event: the quote
  transaction is never opened, against `quote_repository.go:190`. A quote is
  visible before its proposal's event is inserted (`quote_service.go:115`), so
  the accepted event may come first.
* The expiry job purges no cached document: an expired quote is shown as
  open for up to an hour.

*Payments.*
* Two overlapping `InitializePayment` calls share a reservation key, and the
  loser releases the reservation under the winner's link; two overlapping
  webhooks of one transaction may announce both verdicts. `OnePayableOrder`,
  `OneVerdict` and `PaidIsConfirmed` are therefore about behaviours in which no
  two handlers overlapped (and the first and last about those without a refusal
  of the provider).
* `InitializePayment` reads the booking through a cache (`payments.go:71`). One that
  sees `quote_accepted` after the booking was paid for makes a second transaction,
  and reserves the booking for it if the first reservation has lapsed and its event
  is still on the way; that event is then ignored and the paid booking never
  confirmed. A cached copy lives 30 minutes (`booking/internal/config.go:51`) and a
  reservation by default 24 hours (`payment/handlers/options.go:20`), which the
  model, having no clock, does not know: a copy older than its row counts as an
  overlap.

*Cache.*
* `GetOrLoad` takes its request out of the table before it stores the value
  (`cache.go:422`), so a call between the two loads again;
  `core/cache/README.md:192` promises one query. What holds is `OneLoadPerKey`:
  the loads never run together.
* An overwrite of a live entry lowers `metrics.Entries` and `metrics.Size`
  (`cache.go:498-504`), so the cache outgrows `MaxEntries`.
* A `Set` between the unlock and the trie deletion of `DeleteByPrefix` leaves a
  cached key that later prefix deletions miss, and a value loaded before a
  deletion is stored after it (`categories.go:110`). The index keeps keys that
  were evicted or cleaned up.

*Chat.*
* A status event that overtakes the assignment creates the thread without the
  artisan, who then may never join it. A redelivered status event fails on its
  own key for ever. A crash after the thread is stored loses `thread.created`
  (`subscriber.go:226`): the redelivered event finds the thread and stops.
* A status event names the customer only if the client put a `customer_id` into
  the booking's metadata; of the `assigned` events only AcceptOffer's has it for
  certain (`booking/handlers/offers.go:245`). One without it is refused at every
  delivery (`subscriber.go:165-168`, `chat/domain/validator.go:22`) until another
  event has made the thread. These are the `AnonymousEvents`.
* An acknowledgement may name any message of the thread, sent to the client or not.
* A bulk read leaves `db_version` alone, so an acknowledgement under way
  puts `read` back to `delivered`.

*Accounts, users, artisans.*
* A role call that overlaps a password reset restores the old password, with the
  token used up. Two overlapping uses of one reset token both succeed
  (`password.go:77`: it is found outside the transaction). "3 per hour" of the
  rate limits is a bucket of 3 refilled once a minute.
* `UpdateSettings` resets the settings a request leaves out. Duplicate profile
  rows appear as duplicates in search, which joins them.
* `UpdateProfile` sets `profile_complete` as soon as the row has names and a phone
  (`user/service.go:364`), while onboarding asks for an avatar as well and does not
  take blanks for a value (`user/service.go:598-609`): a customer may be marked
  complete and still be told `needs_basic_profile`.
* `CreateProfile`, which "creates or updates" (`profile_service.go:74`), ends in
  an error for an artisan that exists: after its UPDATE it looks the artisan's id
  up among the user ids (`profile_service.go:121`), finds nothing, and the
  transaction is rolled back. The public profile is cached for five minutes and
  never invalidated (`profile_service.go:381`).

## 6. Proofs

TLAPS proves the following for every value of the constants that satisfies each
module's assumption (`ParametersAssumption`, `ChatAssumption`,
`StreamAssumption`, `AccountsAssumption`, `ProfilesAssumption`,
`ArtisansAssumption`): bounds are natural numbers, the relay's tables, the owners of keys, the senders of
messages and the categories of services are functions, the `No...` values are
none of the things they stand beside, `Handlers` of `Booking` and the services
of an artisan are finite because they are counted, as are the fields of a
profile, those that set the flag among those onboarding asks for, and keys of
clients and of automated messages differ. Every proof is of the same form: an
inductive invariant, a lemma per action, and the property as its consequence.

**OutboxRelayProofs.** That two loops never own one row is not inductive: a row
must also be `processing` while a loop owns it, and a loop that reports success
must have published. The strengthening says, for each event, who has custody of
it and how many copies the broker has in each place; a claim takes a `pending`
row, which no one owns and which was never published. Cleanup, whose rows are
stamped, and the refinement of `EventDelivery` follow from the same invariant.

**BookingProofs.** Versions only grow, and each commit adds one; so a handler
whose copy has the row's version holds the row itself, and its decision still
stands (`FreshAt`). A commit is then a step from the row as it is, which gives
the action properties. A second invariant ties the offers to the status and the
artisan: the first offer ends `requested` for good, so at most one offer ever
exists, and only its acceptance assigns. `EventsAccountedFor` is a
count: versions, events in the outbox, handlers between their commits, crashes.

**BookingCreationProofs.** A call that has stored its key owns it until it
returns (`OneOwner`), and only the owner makes a booking under the key (`Made`);
what is recorded as completed was made for the request on record (`Recorded`).
For the cache, who is about to store a copy has a current one as long as the
booking is not marked as raced (`CopiesCurrent`).

**QuotesProofs.** The inductive invariant `IInv` has three layers. `Gapless`:
the numbers in use are 1..n and a proposal holds at most n + 1, so the
unique constraint refuses a stale number and a new quote is always the newest.
`Known`: a remembered row is the row or older, and if settled it is
true; so a write under `db_version` always settles an open quote. `Ledger`
follows each event: staged by one handler only, true when staged, and in the
outbox once. `EventsTellTheTruth`, `OpenQuoteIsNewest`, the cache and the
refinement of `QuoteLifecycle` follow. `DecisionsAreAnnounced` is inductive over
these, as long as nothing fails.

**PaymentsProofs.** Handlers save rows read long before, so what must hold of the
tables must hold of every copy a handler carries (`Good`, `CallOK`). A completed
transaction, in the table or a copy, has an order the provider has settled so
(`Backed`); orders never leave that state and attempts never change their
transaction, so no save of an old copy can make an announcement wrong. A
webhook is held by one handler or is on record (`NoticeInv`). Two more
invariants rest on this one and speak of calls that run one at a time. In
`SerialInv` a copy that is carried has the status of the table's row, and only that
status has been announced; so no save takes a verdict back, and `OneVerdict`
follows. In `OrderInv` a pending transaction, in the table or in the copy, names
its one order that is alive (`OnlyCurrent`), and a completed one has none that
can be paid (`NoneLeft`). With one pending transaction of a quote, which holds
whatever overlaps, that is `OnePayableOrder`.

**InMemoryCacheProofs.** That two callers never load one key together is not
inductive, nor is that the table names only running loaders: each needs the
other. `Coalesced` says that a running loader is registered under its key and
leads a request of its own, and that every registration has a running loader; a
caller that finds no registration therefore finds no loader. The index theorem
goes through the operations one by one; only `Unindex` needs its exception.
That list and map agree needs to tell apart the entries a key has had: every
entry has a number, those of the cached entries differ and are below the next
(`ListInv`). Each change of the list is a lemma about sequences without
repetition: the elements that stay keep their order, which a function that
numbers them describes.

**ChatProofs.** In the threads the unique columns do the work: who is past the
insert of the thread (`Making`) or of a message (`Telling`) is alone there and
has not published yet (`ThreadInv`, `SentInv`), and the insert is never repeated.
That an acknowledgement follows the effect is then a look at each return of the
handlers. `NothingMissed` of the stream is inductive by itself: each place
that may hold a message hands it on to the next, and a connection is registered
before it reads its history, so what is stored in between comes both ways.
For the receipts, the copy of an acknowledgement has at most the row's version,
and with the same version the row has not moved but by a bulk read (`CopyOK`).

**MembersProofs.** What a role call has read of an account stays true of the row
but for what was written since (`Remembered`), which bounds what `Save` may undo;
`EnabledEverywhere` says of every copy what `ActiveRoleEnabled` says of the
row; `PasswordKept` and `OneAnswer` tie the answered registration to the row.
Of a profile, a request that is not stale has read what is still there
(`Fresh`), so it either writes a row that has all the old one had, or marks the
state as raced. A change of the default address takes the flag away and gives it
in one commit (`CommitAddress`), which is all `DefaultStays` needs beside types.
For an artisan, `CallSound` says of a transaction what it is going to commit: its
snapshot counts at least one rate, its own, and no more than there will be; the
commits of others only add rates, which keeps this true.

The theorems end each module, as `Spec => []Property`, `Spec => Property` for an
action property, or `Spec => Refinement`; the list is in `PROJECT.json`. Some go
beyond what the runs list: no two loops work on one row (`ClaimsAreExclusive`),
an event is published at most once (`PublishedAtMostOnce`), cleanup loses
nothing that is owed (`CleanupIsSafe`), the previous status an event is about to
report is the one its handler replaces, but for an acceptance whose booking was
written between its validation and its transaction (`PreviousStatusAlwaysTrue`;
without the exception TLC finds a counterexample), a payment outcome is recorded only for the
reservation held (`OutcomeAlwaysMatches`, `LiveReservationAlwaysHeld`), one artisan
is ever offered the booking (`OfferedOnce`, `AcceptedOfferHasAssigned`), decisions
on quotes are announced unless something failed (`DecisionsAlwaysAnnounced`), a
quote has one pending transaction whatever overlaps (`OnePendingTransaction`), and
no finished load stays registered (`NoStuckFlight`).

**Only model-checked.** Every invariant and action property of the runs is
proved. What stays with TLC are the properties under fairness
(`EveryEventSettles`, `LapsedOfferSettles`, `LapsedQuoteSettles`,
`PaidIsConfirmed`, `GetOrLoadReturns`, `StatusIsSaid`, `EventuallySeen`): liveness
and ENABLED are out of the prover's reach. So are induction over data and
RECURSIVE operators, which the models do not use.

## 7. Not modelled

* *Booking*: listings, authorisation by identity, and `RematchBooking`, which
  changes nothing but the outbox and a cache marker that stops nothing.
* *payment*: attempts made up for rows older than the attempts table, the removal
  of old webhook records, checkout pages and the list of options. Of the provider's
  client only what its calls return and when they fail; its token cache, HTTP
  requests and the signature of webhooks are left out.
* *core/cache*: versioned sets and gets, Clear, listeners and Stop, which only the
  tests call; sizes of values; a loader that panics (its request would stay in
  flight).
* *chat*: reads and listings, the text of messages, and chat's own relay, whose
  outbox no code writes to. The websocket manager is process-local, so
  connections of another instance of the service are out of its reach and out of
  the model's.
* *auth*: the rate limiter, a process-local map of counters; bcrypt, the signing
  and parsing of tokens, the e-mail service.
* *user, artisans*: the values of settings, text search, filters and pages,
  categories, the public profile, validation of names and phones.
* *admin*: the package does not build at this commit (`admin/service.go:107` reads
  a field that package `user` does not define) and no main imports it.
* *Event envelopes, topics, health, configuration*: declarations and wiring; the
  topics appear in `OutboxRelay` as `TopicOf` and `Serves`.
* *Clocks*: a deadline is a fact that becomes true at any moment; how long
  things take plays no part.
