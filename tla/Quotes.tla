-------------------------------- MODULE Quotes --------------------------------
(***************************************************************************)
(* The quotes of one booking: proposing, accepting, rejecting and expiring *)
(* them, the outbox events that tell the booking service, and the cached   *)
(* quote documents.                                                        *)
(*                                                                         *)
(* repository/quote_repository.go WithTransaction opens a transaction on   *)
(* the core database, which holds the outbox, and never one on the quote   *)
(* database (the test in line 194 is always true).  So every statement on  *)
(* the quotes table commits by itself and releases its FOR UPDATE lock,    *)
(* and only the events wait for the commit at the end.  Each statement is  *)
(* a step here and the calls interleave between them.                      *)
(*                                                                         *)
(* A quote is its version number; GetLatestVersion and the unique          *)
(* constraint on (booking_id, version) keep the numbers without gaps.  A   *)
(* call whose first check fails has no effect and is not represented.      *)
(* Who may call is left open: the booking status the service looks at is   *)
(* a cached copy that may be arbitrarily old.                              *)
(***************************************************************************)
EXTENDS Naturals, FiniteSets

CONSTANTS
    Handlers,       \* calls that may run at the same time
    MaxQuotes,      \* bound: quotes proposed for the booking
    MaxCalls,       \* bound: requests in a behaviour
    MaxFailures     \* bound: failed statements and restarts

ASSUME ParametersAssumption ==
    MaxQuotes \in Nat /\ MaxCalls \in Nat /\ MaxFailures \in Nat

Quotes == 1..MaxQuotes

QuoteState == {"none", "proposed", "accepted", "rejected", "expired", "superseded"}
IsTerminal(s) == s \in {"accepted", "rejected", "expired", "superseded"}

VARIABLES
    quote,      \* the quotes table
    lapsed,     \* quotes whose valid_until has passed
    call, pc,   \* what each handler executes, and where it is
    seen,       \* the table as each handler last read it
    own,        \* the version a proposal computed
    todo,       \* older quotes a proposal has still to supersede
    staged,     \* events inserted in each handler's open core transaction
    sent,       \* copies of each event committed to the outbox
    cached,     \* state in the cached document of each quote
    calls, failures

vars == <<quote, lapsed, call, pc, seen, own, todo, staged, sent, cached, calls, failures>>

Row == [state : QuoteState, dbVersion : Nat]
Events == Quotes \X QuoteState
Idle == [op |-> "none", arg |-> 0]
Calls == [op : {"Propose"}, arg : {0}]
         \union [op : {"AcceptQuote", "RejectQuote", "ExpireQuote", "GetQuote"}, arg : Quotes]

Init ==
    /\ quote = [q \in Quotes |-> [state |-> "none", dbVersion |-> 0]]
    /\ lapsed = {}
    /\ call = [h \in Handlers |-> Idle]
    /\ pc = [h \in Handlers |-> "idle"]
    /\ seen = [h \in Handlers |-> quote]
    /\ own = [h \in Handlers |-> 0]
    /\ todo = [h \in Handlers |-> {}]
    /\ staged = [h \in Handlers |-> {}]
    /\ sent = [e \in Events |-> 0]
    /\ cached = [q \in Quotes |-> "none"]
    /\ calls = 0 /\ failures = 0

Proposed == {q \in Quotes : quote[q].state = "proposed"}
Existing == {q \in Quotes : quote[q].state # "none"}

Counted == calls < MaxCalls /\ calls' = calls + 1

Start(h, c, next) ==
    /\ pc[h] = "idle"
    /\ call' = [call EXCEPT ![h] = c]
    /\ pc' = [pc EXCEPT ![h] = next]
    /\ seen' = [seen EXCEPT ![h] = quote]

Goto(h, next) == pc' = [pc EXCEPT ![h] = next]

\* The call is over; an event that is still staged is rolled back with it.
Finish(h) ==
    /\ call' = [call EXCEPT ![h] = Idle]
    /\ pc' = [pc EXCEPT ![h] = "idle"]
    /\ seen' = [seen EXCEPT ![h] = [q \in Quotes |-> [state |-> "none", dbVersion |-> 0]]]
    /\ own' = [own EXCEPT ![h] = 0]
    /\ todo' = [todo EXCEPT ![h] = {}]
    /\ staged' = [staged EXCEPT ![h] = {}]

\* Mutant: the row is updated by id alone.
AnyVersion(h, q) == TRUE

\* Update: WHERE id = ? AND db_version = ?
UpToDate(h, q) == seen[h][q].dbVersion = quote[q].dbVersion

Updated(q, s) == [quote EXCEPT ![q] = [state |-> s, dbVersion |-> @.dbVersion + 1]]

-----------------------------------------------------------------------------
(***************************************************************************)
(* Proposing a quote.                                                      *)
(***************************************************************************)

\* The open quote, if there is one, must have lapsed.
BeginPropose(h, c) ==
    /\ c.op = "Propose"
    /\ Proposed \subseteq lapsed
    /\ Counted
    /\ Start(h, c, IF Proposed = {} THEN "numbering" ELSE "expiring")
    /\ UNCHANGED <<quote, lapsed, own, todo, staged, sent, cached, failures>>

ExpireOld(h, q) ==
    /\ pc[h] = "expiring" /\ seen[h][q].state = "proposed"
    /\ UpToDate(h, q)
    /\ quote' = Updated(q, "expired")
    /\ staged' = [staged EXCEPT ![h] = @ \union {<<q, "expired">>}]
    /\ Goto(h, "numbering")
    /\ UNCHANGED <<lapsed, call, seen, own, todo, sent, cached, calls, failures>>

\* GetLatestVersionByBookingID: COALESCE(MAX(version), 0)
LatestVersion ==
    IF Existing = {} THEN 0 ELSE CHOOSE v \in Existing : \A u \in Existing : u <= v

Number(h) ==
    /\ pc[h] = "numbering"
    /\ LatestVersion < MaxQuotes
    /\ own' = [own EXCEPT ![h] = LatestVersion + 1]
    /\ Goto(h, "creating")
    /\ UNCHANGED <<quote, lapsed, call, seen, todo, staged, sent, cached, calls, failures>>

\* Mutant: the table lacks the partial unique index.
NumberIsFree(h) == own[h] \notin Existing

\* UNIQUE (booking_id, version), and one row in 'proposed' per booking.
MayInsert(h) == own[h] \notin Existing /\ Proposed = {}

Create(h) ==
    /\ pc[h] = "creating" /\ MayInsert(h)
    /\ quote' = [quote EXCEPT ![own[h]] = [state |-> "proposed", dbVersion |-> 1]]
    /\ Goto(h, "listing")
    /\ UNCHANGED <<lapsed, call, seen, own, todo, staged, sent, cached, calls, failures>>

\* GetByBookingID: whatever is not terminal now, and is not the new quote.
ListExisting(h) ==
    /\ pc[h] = "listing"
    /\ seen' = [seen EXCEPT ![h] = quote]
    /\ todo' = [todo EXCEPT ![h] =
                    {q \in Existing : ~IsTerminal(quote[q].state) /\ q # own[h]}]
    /\ Goto(h, "superseding")
    /\ UNCHANGED <<quote, lapsed, call, own, staged, sent, cached, calls, failures>>

Supersede(h, q) ==
    /\ pc[h] = "superseding"
    /\ q \in todo[h] /\ \A p \in todo[h] : p <= q
    /\ UpToDate(h, q)
    /\ quote' = Updated(q, "superseded")
    /\ todo' = [todo EXCEPT ![h] = @ \ {q}]
    /\ UNCHANGED <<lapsed, call, pc, seen, own, staged, sent, cached, calls, failures>>

AnnounceProposal(h) ==
    /\ pc[h] = "superseding" /\ todo[h] = {}
    /\ staged' = [staged EXCEPT ![h] = @ \union {<<own[h], "proposed">>}]
    /\ Goto(h, "committing")
    /\ UNCHANGED <<quote, lapsed, call, seen, own, todo, sent, cached, calls, failures>>

-----------------------------------------------------------------------------
(***************************************************************************)
(* Deciding a quote.                                                       *)
(***************************************************************************)

Target(op) == [AcceptQuote |-> "accepted", RejectQuote |-> "rejected",
               ExpireQuote |-> "expired"][op]

\* Mutant: the cron's double check of the clock is inverted.
DecidableClockInverted(op, q) ==
    /\ quote[q].state = "proposed"
    /\ op \in {"AcceptQuote", "ExpireQuote"} => q \notin lapsed

\* ValidateAcceptQuote, ValidateRejectQuote, and ExpireQuote's two checks.
Decidable(op, q) ==
    /\ quote[q].state = "proposed"
    /\ op = "AcceptQuote" => q \notin lapsed
    /\ op = "ExpireQuote" => q \in lapsed

BeginDecision(h, c) ==
    /\ c.op \in {"AcceptQuote", "RejectQuote"}
    /\ Decidable(c.op, c.arg)
    /\ Counted
    /\ Start(h, c, "loaded")
    /\ UNCHANGED <<quote, lapsed, own, todo, staged, sent, cached, failures>>

\* The cron job, or a request that met a lapsed quote (handleExpiredQuoteSync).
BeginExpiry(h, c) ==
    /\ c.op = "ExpireQuote"
    /\ Decidable(c.op, c.arg)
    /\ Start(h, c, "loaded")
    /\ UNCHANGED <<quote, lapsed, own, todo, staged, sent, cached, calls, failures>>

Decide(h) ==
    LET q == call[h].arg s == Target(call[h].op)
    IN  /\ pc[h] = "loaded" /\ UpToDate(h, q)
        /\ quote' = Updated(q, s)
        /\ staged' = [staged EXCEPT ![h] = {<<q, s>>}]
        /\ Goto(h, "committing")
        /\ UNCHANGED <<lapsed, call, seen, own, todo, sent, cached, calls, failures>>

-----------------------------------------------------------------------------
(***************************************************************************)
(* How a call ends.                                                        *)
(***************************************************************************)

Conflicts(h) ==
    \/ pc[h] = "expiring" /\ \E q \in Quotes : seen[h][q].state = "proposed" /\ ~UpToDate(h, q)
    \/ pc[h] = "creating" /\ ~MayInsert(h)
    \/ pc[h] = "superseding"
       /\ \E q \in todo[h] : (\A p \in todo[h] : p <= q) /\ ~UpToDate(h, q)
    \/ pc[h] = "loaded" /\ ~UpToDate(h, call[h].arg)

\* A lock failure or a violated constraint: the core transaction is rolled
\* back, the quote statements before it are not.
Abort(h) ==
    /\ Conflicts(h)
    /\ Finish(h)
    /\ UNCHANGED <<quote, lapsed, sent, cached, calls, failures>>

\* The core transaction commits; a request then purges the cached document.
Commit(h) ==
    /\ pc[h] = "committing"
    /\ sent' = [e \in Events |-> sent[e] + (IF e \in staged[h] THEN 1 ELSE 0)]
    /\ \/ call[h].op = "ExpireQuote" /\ Finish(h)
       \/ /\ call[h].op # "ExpireQuote"
          /\ Goto(h, "purging")
          /\ staged' = [staged EXCEPT ![h] = {}]
          /\ UNCHANGED <<call, seen, own, todo>>
    /\ UNCHANGED <<quote, lapsed, cached, calls, failures>>

Subject(h) == IF call[h].op = "Propose" THEN own[h] ELSE call[h].arg

\* clearQuoteCache
Purge(h) ==
    /\ pc[h] = "purging"
    /\ cached' = [cached EXCEPT ![Subject(h)] = "none"]
    /\ Finish(h)
    /\ UNCHANGED <<quote, lapsed, sent, calls, failures>>

\* A statement or the commit is refused: WithTransaction returns the error.
Fail(h) ==
    /\ pc[h] \notin {"idle", "purging", "caching"} /\ failures < MaxFailures
    /\ failures' = failures + 1
    /\ Finish(h)
    /\ UNCHANGED <<quote, lapsed, sent, cached, calls>>

\* The process dies with its calls and its cache, and is started again.
Restart ==
    /\ failures < MaxFailures /\ \E h \in Handlers : pc[h] # "idle"
    /\ failures' = failures + 1
    /\ call' = [h \in Handlers |-> Idle]
    /\ pc' = [h \in Handlers |-> "idle"]
    /\ seen' = [h \in Handlers |-> [q \in Quotes |-> [state |-> "none", dbVersion |-> 0]]]
    /\ own' = [h \in Handlers |-> 0]
    /\ todo' = [h \in Handlers |-> {}]
    /\ staged' = [h \in Handlers |-> {}]
    /\ cached' = [q \in Quotes |-> "none"]
    /\ UNCHANGED <<quote, lapsed, sent, calls>>

-----------------------------------------------------------------------------
(***************************************************************************)
(* Reading a quote through the cache, and the clock.                       *)
(***************************************************************************)

\* GetQuote misses the cache and reads the row ...
BeginGet(h, c) ==
    /\ c.op = "GetQuote"
    /\ c.arg \in Existing /\ cached[c.arg] = "none"
    /\ Counted
    /\ Start(h, c, "caching")
    /\ UNCHANGED <<quote, lapsed, own, todo, staged, sent, cached, failures>>

\* ... and stores what it read, for one hour.
FillCache(h) ==
    /\ pc[h] = "caching"
    /\ cached' = [cached EXCEPT ![call[h].arg] = seen[h][call[h].arg].state]
    /\ Finish(h)
    /\ UNCHANGED <<quote, lapsed, sent, calls, failures>>

CacheEntryExpires(q) ==
    /\ cached[q] # "none"
    /\ cached' = [cached EXCEPT ![q] = "none"]
    /\ UNCHANGED <<quote, lapsed, call, pc, seen, own, todo, staged, sent, calls, failures>>

\* valid_until passes.
Lapse(q) ==
    /\ q \in Proposed \ lapsed
    /\ lapsed' = lapsed \union {q}
    /\ UNCHANGED <<quote, call, pc, seen, own, todo, staged, sent, cached, calls, failures>>

-----------------------------------------------------------------------------

ProposeStep(h) ==
    \/ Number(h) \/ Create(h) \/ ListExisting(h) \/ AnnounceProposal(h)
    \/ \E q \in Quotes : ExpireOld(h, q) \/ Supersede(h, q)

Progress(h) == ProposeStep(h) \/ Decide(h) \/ Abort(h) \/ Commit(h) \/ Purge(h) \/ FillCache(h)

Begin(h, c) == BeginPropose(h, c) \/ BeginDecision(h, c) \/ BeginExpiry(h, c) \/ BeginGet(h, c)

Next ==
    \/ \E h \in Handlers, c \in Calls : Begin(h, c)
    \/ \E h \in Handlers : Progress(h) \/ Fail(h)
    \/ Restart
    \/ \E q \in Quotes : Lapse(q) \/ CacheEntryExpires(q)

Spec == Init /\ [][Next]_vars

ExpiryJob(q) == \E h \in Handlers : BeginExpiry(h, [op |-> "ExpireQuote", arg |-> q])

\* A call that has begun goes on, and the cron job runs every 5 minutes.
FairSpec ==
    /\ Spec
    /\ \A h \in Handlers : WF_vars(Progress(h))
    /\ \A q \in Quotes : WF_vars(ExpiryJob(q))

-----------------------------------------------------------------------------

TypeOK ==
    /\ quote \in [Quotes -> Row]
    /\ lapsed \subseteq Quotes
    /\ call \in [Handlers -> Calls \union {Idle}]
    /\ pc \in [Handlers -> {"idle", "expiring", "numbering", "creating", "listing",
                            "superseding", "loaded", "committing", "purging", "caching"}]
    /\ seen \in [Handlers -> [Quotes -> Row]]
    /\ own \in [Handlers -> Quotes \union {0}]
    /\ todo \in [Handlers -> SUBSET Quotes]
    /\ staged \in [Handlers -> SUBSET Events]
    /\ sent \in [Events -> Nat]
    /\ cached \in [Quotes -> QuoteState]
    /\ calls \in Nat /\ failures \in Nat

\* The open quote is the newest: no quote was numbered past it while it was
\* open, whichever proposals, expiries and decisions overlapped.
OpenQuoteIsNewest == \A q \in Proposed, p \in Existing : p <= q

\* The booking service is told of each change once, and never of a decision
\* that lost the race: the event names the state the quote is in for good.
EventsTellTheTruth ==
    \A e \in Events :
        /\ sent[e] <= 1
        /\ sent[e] = 1 /\ IsTerminal(e[2]) => quote[e[1]].state = e[2]

\* Unless a statement failed or the process died, a decision of the customer
\* is announced: its event is committed or its call is about to commit it.
DecisionsAreAnnounced ==
    failures = 0 =>
        \A q \in Quotes :
            quote[q].state \in {"accepted", "rejected"} =>
                LET e == <<q, quote[q].state>>
                IN  sent[e] = 1 \/ \E h \in Handlers : e \in staged[h]

\* A cached document can only lag behind as an open quote: a decision that is
\* shown to a reader is the one that stands, whatever purges and fills raced.
OnlyOpenQuotesGoStale ==
    \A q \in Quotes : cached[q] \notin {"none", "proposed"} => cached[q] = quote[q].state

\* Every step is one of the life cycle of QuoteLifecycle: settled quotes are
\* final, although no lock is held between reading and writing a quote.
Lifecycle == INSTANCE QuoteLifecycle WITH state <- [q \in Quotes |-> quote[q].state]
ImplementsQuoteLifecycle == Lifecycle!Spec

\* A quote whose time is over does not stay open: the cron job, a proposal or
\* an answer under way settles it.
LapsedQuoteSettles ==
    \A q \in Quotes : (quote[q].state = "proposed" /\ q \in lapsed)
                        ~> quote[q].state # "proposed"
=============================================================================
