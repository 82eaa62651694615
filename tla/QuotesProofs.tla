---------------------------- MODULE QuotesProofs ----------------------------
(***************************************************************************)
(* Proofs about Quotes, for any number of quotes and handlers, and any     *)
(* number of calls, failed statements and restarts.                        *)
(*                                                                         *)
(* The service has no transaction around a quote and its event, so the     *)
(* proofs rest on two things the database does enforce: a row is written   *)
(* only over the version that was read (Known), and a row is inserted only *)
(* under a free number when no quote is open (Gapless).  Ledger follows    *)
(* each event from the handler that stages it to the outbox.               *)
(***************************************************************************)
EXTENDS Quotes, TLAPS

\* Where a handler can be, and what it can be asked to decide.
Places == {"idle", "expiring", "numbering", "creating", "listing",
           "superseding", "loaded", "committing", "purging", "caching"}
Deciding == {"AcceptQuote", "RejectQuote", "ExpireQuote"}
SettledState == {"accepted", "rejected", "expired", "superseded"}

\* A handler that is not idle executes a call that leads to where it is.
Occupied ==
    \A h \in Handlers :
        /\ pc[h] # "idle" => call[h] \in Calls
        /\ pc[h] = "loaded" => call[h].op \in Deciding
        /\ pc[h] = "caching" => call[h].op = "GetQuote"
        /\ pc[h] \in {"expiring", "numbering", "creating", "listing", "superseding"}
              => call[h].op = "Propose"
        /\ pc[h] \in {"creating", "listing", "superseding"} => own[h] \in Quotes
        /\ call[h].op = "Propose" /\ pc[h] \in {"committing", "purging"} => own[h] \in Quotes

\* The numbers in use have no gap, and a proposal holds at most the next one.
Gapless == \E n \in 0..MaxQuotes :
              /\ Existing = 1..n
              /\ \A h \in Handlers : pc[h] = "creating" => own[h] <= n + 1

Typed == TypeOK /\ Occupied

\* What a handler that has read nothing remembers.
Blank == [q \in Quotes |-> [state |-> "none", dbVersion |-> 0]]

\* An empty table is a table.
LEMMA BlankTable == Blank \in [Quotes -> Row]
BY DEF Blank, Row, QuoteState

\* Update leaves rows of the schema.
LEMMA UpdatedRows ==
    ASSUME NEW q \in Quotes, NEW s \in QuoteState, quote \in [Quotes -> Row]
    PROVE  Updated(q, s) \in [Quotes -> Row]
BY DEF Updated, Row

\* Accepting, rejecting and expiring lead to terminal states.
LEMMA TargetIsSettled == \A op \in Deciding : Target(op) \in SettledState
BY DEF Target, Deciding, SettledState

\* GetLatestVersionByBookingID returns the last of the numbers in use.
LEMMA LatestIsLast ==
    ASSUME NEW n \in Nat, Existing = 1..n
    PROVE  LatestVersion = n
<1>1. CASE n = 0
  BY <1>1 DEF LatestVersion
<1>2. CASE n # 0
  <2>1. n \in Existing /\ (\A u \in Existing : u <= n) /\ Existing # {}
    BY <1>2
  <2>2. \A v \in Existing : (\A u \in Existing : u <= v) => v = n
    BY <2>1
  <2> QED BY <2>1, <2>2 DEF LatestVersion
<1> QED BY <1>1, <1>2

\* Ending a call keeps the handlers within their types.
LEMMA FinishType ==
    ASSUME Typed, NEW h \in Handlers, Finish(h)
    PROVE  /\ call' \in [Handlers -> Calls \union {Idle}]
           /\ pc' \in [Handlers -> Places]
           /\ seen' \in [Handlers -> [Quotes -> Row]]
           /\ own' \in [Handlers -> Quotes \union {0}]
           /\ todo' \in [Handlers -> SUBSET Quotes]
           /\ staged' \in [Handlers -> SUBSET Events]
           /\ Occupied'
<1>1. seen' \in [Handlers -> [Quotes -> Row]]
  BY BlankTable DEF Finish, Typed, TypeOK, Blank
<1>2. Occupied'
  BY DEF Finish, Typed, TypeOK, Occupied, Idle
<1> QED BY <1>1, <1>2 DEF Finish, Typed, TypeOK, Places

\* Beginning a call keeps the handlers within their types.
LEMMA StartType ==
    ASSUME Typed, NEW h \in Handlers, NEW c \in Calls, NEW next, Start(h, c, next), UNCHANGED own,
           \/ next \in {"numbering", "expiring"} /\ c.op = "Propose"
           \/ next = "loaded" /\ c.op \in Deciding
           \/ next = "caching" /\ c.op = "GetQuote"
    PROVE  /\ call' \in [Handlers -> Calls \union {Idle}]
           /\ pc' \in [Handlers -> Places]
           /\ seen' \in [Handlers -> [Quotes -> Row]]
           /\ Occupied'
<1>1. Occupied'
  BY DEF Start, Typed, TypeOK, Occupied, Deciding
<1> QED BY <1>1 DEF Start, Typed, TypeOK, Places

\* Beginning any call keeps the types.
LEMMA BeginType ==
    ASSUME Typed, NEW h \in Handlers, NEW c \in Calls, Begin(h, c)
    PROVE  Typed'
<1>1. CASE BeginPropose(h, c)
  BY <1>1, StartType DEF BeginPropose, Counted, Typed, TypeOK, Places
<1>2. CASE BeginDecision(h, c)
  BY <1>2, StartType DEF BeginDecision, Counted, Typed, TypeOK, Places, Deciding
<1>3. CASE BeginExpiry(h, c)
  BY <1>3, StartType DEF BeginExpiry, Typed, TypeOK, Places, Deciding
<1>4. CASE BeginGet(h, c)
  BY <1>4, StartType DEF BeginGet, Counted, Typed, TypeOK, Places
<1> QED BY <1>1, <1>2, <1>3, <1>4 DEF Begin

\* A step within a call keeps the handlers within their types.
LEMMA MoveType ==
    ASSUME Typed, NEW h \in Handlers, NEW p \in Places, pc' = [pc EXCEPT ![h] = p],
           UNCHANGED call,
           own' = own \/ (p = "creating" /\ \E n \in Quotes : own' = [own EXCEPT ![h] = n]),
           p \notin {"loaded", "caching"},
           p \in {"expiring", "numbering", "creating", "listing", "superseding"}
              => call[h].op = "Propose",
           p \in {"listing", "superseding", "committing", "purging"} /\ call[h].op = "Propose"
              => own[h] \in Quotes,
           p = "creating" => own'[h] \in Quotes,
           pc[h] # "idle"
    PROVE  /\ pc' \in [Handlers -> Places]
           /\ own' \in [Handlers -> Quotes \union {0}]
           /\ Occupied'
<1>1. pc' \in [Handlers -> Places] /\ own' \in [Handlers -> Quotes \union {0}]
  BY DEF Typed, TypeOK, Places
<1>2. \A g \in Handlers : /\ g # h => pc'[g] = pc[g] /\ own'[g] = own[g]
                          /\ pc'[h] = p
  BY DEF Typed, TypeOK
<1>3. p # "creating" => own' = own
  OBVIOUS
<1>4. Occupied'
  BY <1>2, <1>3 DEF Typed, Occupied
<1> QED BY <1>1, <1>4

\* Every step of a handler keeps the types.
LEMMA ProgressType ==
    ASSUME Typed, Gapless, NEW h \in Handlers, Progress(h) \/ Fail(h)
    PROVE  Typed'
<1>t. TypeOK /\ Occupied
  BY DEF Typed
<1>p. \A p \in {"expiring", "numbering", "creating", "listing", "superseding",
                "loaded", "committing", "purging", "caching"} : p \in Places
  BY DEF Places
<1>1. CASE Number(h)
  <2>1. LatestVersion + 1 \in Quotes
    <3>1. PICK n \in 0..MaxQuotes : Existing = 1..n
      BY DEF Gapless
    <3>2. LatestVersion = n /\ n \in Nat /\ MaxQuotes \in Nat
      BY <3>1, LatestIsLast, ParametersAssumption
    <3> QED BY <1>1, <3>2 DEF Number, Quotes
  <2>2. own' = [own EXCEPT ![h] = LatestVersion + 1] /\ own'[h] = LatestVersion + 1
    BY <1>1, <1>t DEF Number, TypeOK
  <2>3. \E n \in Quotes : own' = [own EXCEPT ![h] = n]
    BY <2>1, <2>2
  <2>4. own'[h] \in Quotes
    BY <2>1, <2>2
  <2>5. /\ pc' = [pc EXCEPT ![h] = "creating"] /\ UNCHANGED call
        /\ pc[h] = "numbering" /\ call[h].op = "Propose"
    BY <1>1, <1>t DEF Number, Goto, Occupied
  <2>6. pc' \in [Handlers -> Places] /\ own' \in [Handlers -> Quotes \union {0}] /\ Occupied'
    BY <1>p, <2>3, <2>4, <2>5, MoveType
  <2> QED BY <1>1, <1>t, <2>6 DEF Number, Typed, TypeOK, Places
<1>2. CASE Create(h)
  <2>1. /\ pc' \in [Handlers -> Places] /\ Occupied'
    BY <1>2, <1>t, <1>p, MoveType DEF Create, Goto, Occupied
  <2>2. quote' \in [Quotes -> Row]
    BY <1>2, <1>t DEF Create, TypeOK, Row, QuoteState
  <2> QED BY <1>2, <1>t, <2>1, <2>2 DEF Create, Typed, TypeOK, Places
<1>3. CASE ListExisting(h)
  <2>1. /\ pc' \in [Handlers -> Places] /\ Occupied'
    BY <1>3, <1>t, <1>p, MoveType DEF ListExisting, Goto, Occupied
  <2> QED BY <1>3, <1>t, <2>1 DEF ListExisting, Existing, Typed, TypeOK, Places
<1>4. CASE AnnounceProposal(h)
  <2>1. /\ pc' \in [Handlers -> Places] /\ Occupied'
    BY <1>4, <1>t, <1>p, MoveType DEF AnnounceProposal, Goto, Occupied
  <2>2. <<own[h], "proposed">> \in Events
    BY <1>4, <1>t DEF AnnounceProposal, Occupied, Events, QuoteState
  <2> QED BY <1>4, <1>t, <2>1, <2>2 DEF AnnounceProposal, Typed, TypeOK, Places
<1>5. ASSUME NEW q \in Quotes, ExpireOld(h, q) PROVE Typed'
  <2>1. /\ pc' \in [Handlers -> Places] /\ Occupied'
    BY <1>5, <1>t, <1>p, MoveType DEF ExpireOld, Goto, Occupied
  <2>2. <<q, "expired">> \in Events /\ quote' \in [Quotes -> Row]
    BY <1>5, <1>t, UpdatedRows DEF ExpireOld, Events, QuoteState, TypeOK
  <2> QED BY <1>5, <1>t, <2>1, <2>2 DEF ExpireOld, Typed, TypeOK, Places
<1>6. ASSUME NEW q \in Quotes, Supersede(h, q) PROVE Typed'
  <2>1. quote' \in [Quotes -> Row]
    BY <1>6, <1>t, UpdatedRows DEF Supersede, QuoteState, TypeOK
  <2>2. Occupied'
    BY <1>6, <1>t DEF Supersede, Occupied
  <2> QED BY <1>6, <1>t, <2>1, <2>2 DEF Supersede, Typed, TypeOK
<1>7. CASE Decide(h)
  <2>1. /\ pc' \in [Handlers -> Places] /\ Occupied'
    BY <1>7, <1>t, <1>p, MoveType DEF Decide, Goto, Occupied, Deciding
  <2>2. call[h].arg \in Quotes /\ Target(call[h].op) \in SettledState
    BY <1>7, <1>t, TargetIsSettled DEF Decide, Occupied, Calls, Deciding
  <2>3. <<call[h].arg, Target(call[h].op)>> \in Events /\ quote' \in [Quotes -> Row]
    BY <1>7, <1>t, <2>2, UpdatedRows DEF Decide, Events, SettledState, QuoteState, TypeOK
  <2> QED BY <1>7, <1>t, <2>1, <2>3 DEF Decide, Typed, TypeOK, Places
<1>8. CASE Abort(h)
  BY <1>8, <1>t, FinishType DEF Abort, Typed, TypeOK, Places
<1>9. CASE Commit(h)
  <2>1. sent' \in [Events -> Nat]
    BY <1>9, <1>t DEF Commit, TypeOK
  <2>2. CASE Finish(h)
    BY <1>9, <1>t, <2>1, <2>2, FinishType DEF Commit, Typed, TypeOK, Places
  <2>3. CASE ~Finish(h)
    <3>1. /\ pc' \in [Handlers -> Places] /\ Occupied'
      BY <1>9, <1>t, <1>p, <2>3, MoveType DEF Commit, Goto, Occupied
    <3> QED BY <1>9, <1>t, <2>1, <2>3, <3>1 DEF Commit, Typed, TypeOK, Places
  <2> QED BY <2>2, <2>3
<1>10. CASE Purge(h)
  <2>1. cached' \in [Quotes -> QuoteState]
    BY <1>10, <1>t DEF Purge, TypeOK, QuoteState
  <2> QED BY <1>10, <1>t, <2>1, FinishType DEF Purge, Typed, TypeOK, Places
<1>11. CASE FillCache(h)
  <2>1. cached' \in [Quotes -> QuoteState]
    BY <1>11, <1>t DEF FillCache, TypeOK, Occupied, Calls, Row
  <2> QED BY <1>11, <1>t, <2>1, FinishType DEF FillCache, Typed, TypeOK, Places
<1>12. CASE Fail(h)
  BY <1>12, <1>t, FinishType DEF Fail, Typed, TypeOK, Places
<1> QED BY <1>1, <1>2, <1>3, <1>4, <1>5, <1>6, <1>7, <1>8, <1>9, <1>10, <1>11, <1>12
        DEF Progress, ProposeStep

\* Every step of the system keeps the types.
LEMMA TypeStep == Typed /\ Gapless /\ [Next]_vars => Typed'
<1> SUFFICES ASSUME Typed, Gapless, [Next]_vars PROVE Typed'
  OBVIOUS
<1>1. CASE Restart
  <2>1. seen' \in [Handlers -> [Quotes -> Row]] /\ cached' \in [Quotes -> QuoteState]
    BY <1>1, BlankTable DEF Restart, Blank, QuoteState
  <2>2. Occupied'
    BY <1>1 DEF Restart, Occupied, Idle
  <2> QED BY <1>1, <2>1, <2>2 DEF Restart, Typed, TypeOK, Places
<1>2. ASSUME NEW q \in Quotes, Lapse(q) \/ CacheEntryExpires(q) PROVE Typed'
  BY <1>2 DEF Lapse, CacheEntryExpires, Typed, TypeOK, Occupied, QuoteState
<1>3. CASE UNCHANGED vars
  BY <1>3 DEF vars, Typed, TypeOK, Occupied
<1> QED BY <1>1, <1>2, <1>3, BeginType, ProgressType DEF Next

-----------------------------------------------------------------------------

\* A step of one handler leaves the others alone.
LEMMA OneAtATime ==
    ASSUME Typed, NEW h \in Handlers,
           (\E c \in Calls : Begin(h, c)) \/ Progress(h) \/ Fail(h),
           NEW g \in Handlers, g # h
    PROVE  /\ call'[g] = call[g] /\ pc'[g] = pc[g] /\ seen'[g] = seen[g]
           /\ own'[g] = own[g] /\ todo'[g] = todo[g] /\ staged'[g] = staged[g]
<1>t. TypeOK
  BY DEF Typed
<1>1. ASSUME NEW c \in Calls, Begin(h, c)
      PROVE  /\ call'[g] = call[g] /\ pc'[g] = pc[g] /\ seen'[g] = seen[g]
             /\ own'[g] = own[g] /\ todo'[g] = todo[g] /\ staged'[g] = staged[g]
  BY <1>1, <1>t DEF Begin, BeginPropose, BeginDecision, BeginExpiry, BeginGet, Start, TypeOK
<1>2. CASE ProposeStep(h)
  BY <1>2, <1>t DEF ProposeStep, Number, Create, ListExisting, AnnounceProposal, ExpireOld,
                    Supersede, Goto, TypeOK
<1>3. CASE Decide(h) \/ Abort(h) \/ Commit(h) \/ Purge(h) \/ FillCache(h) \/ Fail(h)
  BY <1>3, <1>t DEF Decide, Abort, Commit, Purge, FillCache, Fail, Finish, Goto, TypeOK
<1> QED BY <1>1, <1>2, <1>3 DEF Progress

\* A number is unused exactly when its row has never been written.
Unborn == \A q \in Quotes : (quote[q].state = "none") <=> (quote[q].dbVersion = 0)

\* A remembered row is the row, or older; a settled row is remembered truly.
SeenAt(h) ==
    \A q \in Quotes :
        /\ seen[h][q].dbVersion <= quote[q].dbVersion
        /\ seen[h][q].dbVersion = quote[q].dbVersion => seen[h][q] = quote[q]
        /\ IsTerminal(seen[h][q].state) => quote[q].state = seen[h][q].state

\* A handler about to settle quotes remembers them as open.
KnowsAt(h) ==
    /\ SeenAt(h)
    /\ pc[h] = "loaded" => seen[h][call[h].arg].state = "proposed"
    /\ pc[h] = "superseding" => \A q \in todo[h] : seen[h][q].state = "proposed"

\* The version check gives away nothing: what handlers remember is sound.
Known == Unborn /\ \A h \in Handlers : KnowsAt(h)

\* The one kind of update the service makes: an open quote is settled.
Settles(q, s) == quote[q].state = "proposed" /\ quote' = Updated(q, s)

\* The table changes by a settlement or by a new quote.
LEMMA WhoWrites ==
    ASSUME Typed, Known, [Next]_vars
    PROVE  \/ quote' = quote
           \/ \E q \in Quotes, s \in SettledState : Settles(q, s)
           \/ \E h \in Handlers : Create(h)
<1>t. TypeOK /\ Occupied
  BY DEF Typed
<1>k. \A h \in Handlers : SeenAt(h)
  BY DEF Known, KnowsAt
<1>1. ASSUME NEW h \in Handlers, NEW q \in Quotes, ExpireOld(h, q)
      PROVE  Settles(q, "expired")
  BY <1>1, <1>k DEF ExpireOld, UpToDate, SeenAt, Settles
<1>2. ASSUME NEW h \in Handlers, NEW q \in Quotes, Supersede(h, q)
      PROVE  Settles(q, "superseded")
  BY <1>2, <1>k DEF Supersede, UpToDate, SeenAt, Settles, Known, KnowsAt
<1>3. ASSUME NEW h \in Handlers, Decide(h)
      PROVE  \E q \in Quotes, s \in SettledState : Settles(q, s)
  <2>1. call[h].arg \in Quotes /\ Target(call[h].op) \in SettledState
    BY <1>3, <1>t, TargetIsSettled DEF Decide, Occupied, Calls, Deciding
  <2>2. Settles(call[h].arg, Target(call[h].op))
    BY <1>3, <2>1, <1>k DEF Decide, UpToDate, SeenAt, Settles, Known, KnowsAt
  <2> QED BY <2>1, <2>2
<1>4. ASSUME NEW h \in Handlers, NEW c \in Calls, Begin(h, c) PROVE quote' = quote
  BY <1>4 DEF Begin, BeginPropose, BeginDecision, BeginExpiry, BeginGet
<1>5. ASSUME NEW h \in Handlers, Fail(h) \/ Number(h) \/ ListExisting(h) \/ AnnounceProposal(h)
                 \/ Abort(h) \/ Commit(h) \/ Purge(h) \/ FillCache(h)
      PROVE  quote' = quote
  BY <1>5 DEF Fail, Number, ListExisting, AnnounceProposal, Abort, Commit, Purge, FillCache
<1>6. CASE Restart \/ (\E q \in Quotes : Lapse(q) \/ CacheEntryExpires(q)) \/ UNCHANGED vars
  BY <1>6 DEF Restart, Lapse, CacheEntryExpires, vars
<1>s. "expired" \in SettledState /\ "superseded" \in SettledState
  BY DEF SettledState
<1> QED BY <1>1, <1>2, <1>3, <1>4, <1>5, <1>6, <1>s DEF Next, Progress, ProposeStep

\* A handler reads the whole table as it is, or forgets it.
LEMMA WhoReads ==
    ASSUME Typed, [Next]_vars, NEW g \in Handlers
    PROVE  \/ seen'[g] = seen[g]
           \/ quote' = quote /\ (seen'[g] = quote \/ seen'[g] = Blank)
<1>t. TypeOK
  BY DEF Typed
<1>1. ASSUME NEW h \in Handlers, NEW c \in Calls, Begin(h, c)
      PROVE  quote' = quote /\ (seen'[g] = quote \/ seen'[g] = seen[g])
  BY <1>1, <1>t DEF Begin, BeginPropose, BeginDecision, BeginExpiry, BeginGet, Start, TypeOK
<1>2. ASSUME NEW h \in Handlers, ListExisting(h)
      PROVE  quote' = quote /\ (seen'[g] = quote \/ seen'[g] = seen[g])
  BY <1>2, <1>t DEF ListExisting, TypeOK
<1>3. ASSUME NEW h \in Handlers,
             Abort(h) \/ Commit(h) \/ Purge(h) \/ FillCache(h) \/ Fail(h)
      PROVE  quote' = quote /\ (seen'[g] = Blank \/ seen'[g] = seen[g])
  BY <1>3, <1>t DEF Abort, Commit, Purge, FillCache, Fail, Finish, Blank, TypeOK
<1>4. CASE Restart
  BY <1>4 DEF Restart, Blank
<1>5. ASSUME NEW h \in Handlers, Number(h) \/ Create(h) \/ AnnounceProposal(h) \/ Decide(h)
                 \/ \E q \in Quotes : ExpireOld(h, q) \/ Supersede(h, q)
      PROVE  seen' = seen
  BY <1>5 DEF Number, Create, AnnounceProposal, Decide, ExpireOld, Supersede
<1>6. CASE (\E q \in Quotes : Lapse(q) \/ CacheEntryExpires(q)) \/ UNCHANGED vars
  BY <1>6 DEF Lapse, CacheEntryExpires, vars
<1> QED BY <1>1, <1>2, <1>3, <1>4, <1>5, <1>6 DEF Next, Progress, ProposeStep

\* A row changes from unused to open, or from open to settled, counting versions.
LEMMA RowsOnlyMoveOn ==
    ASSUME Typed, Known, [Next]_vars, NEW q \in Quotes
    PROVE  \/ quote'[q] = quote[q]
           \/ /\ quote'[q].dbVersion = quote[q].dbVersion + 1
              /\ quote[q].state = "proposed" /\ quote'[q].state \in SettledState
           \/ /\ quote'[q].dbVersion = quote[q].dbVersion + 1
              /\ quote[q].state = "none" /\ quote'[q].state = "proposed"
<1>t. quote \in [Quotes -> Row]
  BY DEF Typed, TypeOK
<1>1. CASE quote' = quote
  BY <1>1
<1>2. ASSUME NEW p \in Quotes, NEW s \in SettledState, Settles(p, s)
      PROVE  \/ quote'[q] = quote[q]
             \/ /\ quote'[q].dbVersion = quote[q].dbVersion + 1
                /\ quote[q].state = "proposed" /\ quote'[q].state \in SettledState
  BY <1>2, <1>t DEF Settles, Updated, Row
<1>3. ASSUME NEW h \in Handlers, Create(h)
      PROVE  \/ quote'[q] = quote[q]
             \/ /\ quote'[q].dbVersion = quote[q].dbVersion + 1
                /\ quote[q].state = "none" /\ quote'[q].state = "proposed"
  BY <1>3, <1>t DEF Create, MayInsert, Existing, Row, Known, Unborn
<1> QED BY <1>1, <1>2, <1>3, WhoWrites

\* What handlers remember stays sound.
LEMMA KnownStep == Typed /\ Known /\ [Next]_vars => Known'
<1> SUFFICES ASSUME Typed, Known, [Next]_vars PROVE Known'
  OBVIOUS
<1>t. TypeOK /\ Occupied
  BY DEF Typed
<1>d. \A g \in Handlers, q \in Quotes :
         quote[q].dbVersion \in Nat /\ seen[g][q].dbVersion \in Nat
  BY <1>t DEF TypeOK, Row
<1>u. Unborn'
  <2> SUFFICES ASSUME NEW q \in Quotes
               PROVE  (quote'[q].state = "none") <=> (quote'[q].dbVersion = 0)
    BY DEF Unborn
  <2>1. CASE quote'[q] = quote[q]
    BY <2>1 DEF Known, Unborn
  <2>2. CASE quote'[q].dbVersion = quote[q].dbVersion + 1
             /\ quote'[q].state \in SettledState \union {"proposed"}
    <3>1. quote[q].dbVersion \in Nat
      BY <1>t DEF TypeOK, Row
    <3> QED BY <2>2, <3>1 DEF SettledState
  <2> QED BY <2>1, <2>2, RowsOnlyMoveOn
<1>s. ASSUME NEW g \in Handlers PROVE SeenAt(g)'
  <2>1. CASE seen'[g] = seen[g]
    BY <2>1, <1>d, RowsOnlyMoveOn DEF Known, KnowsAt, SeenAt, SettledState, IsTerminal
  <2>2. CASE quote' = quote /\ seen'[g] = quote
    BY <2>2, <1>d DEF SeenAt
  <2>3. CASE quote' = quote /\ seen'[g] = Blank
    <3>1. \A q \in Quotes : quote[q].dbVersion = 0 => quote[q] = Blank[q]
      BY <1>t DEF TypeOK, Row, Blank, Known, Unborn
    <3> QED BY <2>3, <3>1, <1>d DEF SeenAt, Blank, IsTerminal
  <2> QED BY <2>1, <2>2, <2>3, WhoReads
<1>k. ASSUME NEW g \in Handlers,
             pc'[g] = "loaded" => seen'[g][call'[g].arg].state = "proposed",
             pc'[g] = "superseding" => \A q \in todo'[g] : seen'[g][q].state = "proposed"
      PROVE  KnowsAt(g)'
  BY <1>k, <1>s DEF KnowsAt
<1>o. ASSUME NEW g \in Handlers, call'[g] = call[g], pc'[g] = pc[g], seen'[g] = seen[g],
             todo'[g] = todo[g]
      PROVE  KnowsAt(g)'
  BY <1>o, <1>k DEF Known, KnowsAt
<1>1. ASSUME NEW h \in Handlers, (\E c \in Calls : Begin(h, c)) \/ Progress(h) \/ Fail(h)
      PROVE  Known'
  <2>1. ASSUME NEW g \in Handlers, g # h PROVE KnowsAt(g)'
    BY <1>1, <2>1, OneAtATime, <1>o
  <2>2. KnowsAt(h)'
    <3>1. ASSUME NEW c \in Calls, Begin(h, c)
          PROVE  KnowsAt(h)'
      <4>1. pc'[h] # "superseding"
        BY <3>1, <1>t DEF Begin, BeginPropose, BeginDecision, BeginExpiry, BeginGet, Start, TypeOK
      <4>2. pc'[h] = "loaded" => seen'[h][call'[h].arg].state = "proposed"
        BY <3>1, <1>t DEF Begin, BeginPropose, BeginDecision, BeginExpiry, BeginGet, Start,
                          Decidable, TypeOK
      <4> QED BY <4>1, <4>2, <1>k
    <3>2. CASE ListExisting(h)
      <4>1. \A q \in todo'[h] : seen'[h][q].state = "proposed"
        BY <3>2, <1>t DEF ListExisting, TypeOK, Existing, IsTerminal, Row, QuoteState
      <4>2. pc'[h] = "superseding"
        BY <3>2, <1>t DEF ListExisting, Goto, TypeOK
      <4> QED BY <4>1, <4>2, <1>k
    <3>3. ASSUME NEW q \in Quotes, Supersede(h, q) PROVE KnowsAt(h)'
      <4>1. /\ pc'[h] = "superseding" /\ pc[h] = "superseding" /\ seen' = seen
            /\ todo'[h] \subseteq todo[h]
        BY <3>3, <1>t DEF Supersede, TypeOK
      <4> QED BY <4>1, <1>k DEF Known, KnowsAt
    <3>4. CASE Number(h) \/ Create(h) \/ AnnounceProposal(h) \/ Decide(h)
               \/ \E q \in Quotes : ExpireOld(h, q)
      <4>1. pc'[h] \notin {"loaded", "superseding"}
        BY <3>4, <1>t DEF Number, Create, AnnounceProposal, Decide, ExpireOld, Goto, TypeOK
      <4> QED BY <4>1, <1>k
    <3>5. CASE Abort(h) \/ Commit(h) \/ Purge(h) \/ FillCache(h) \/ Fail(h)
      <4>1. pc'[h] \notin {"loaded", "superseding"}
        BY <3>5, <1>t DEF Abort, Commit, Purge, FillCache, Fail, Finish, Goto, TypeOK
      <4> QED BY <4>1, <1>k
    <3> QED BY <1>1, <3>1, <3>2, <3>3, <3>4, <3>5 DEF Progress, ProposeStep
  <2> QED BY <2>1, <2>2, <1>u DEF Known
<1>2. CASE Restart
  BY <1>2, <1>k, <1>u DEF Restart, Known
<1>3. CASE (\E q \in Quotes : Lapse(q) \/ CacheEntryExpires(q)) \/ UNCHANGED vars
  BY <1>3, <1>o, <1>u DEF Lapse, CacheEntryExpires, vars, Known
<1> QED BY <1>1, <1>2, <1>3 DEF Next

\* The numbers stay without gaps: the unique constraint refuses a stale number.
LEMMA GaplessStep == Typed /\ Gapless /\ Known /\ [Next]_vars => Gapless'
<1> SUFFICES ASSUME Typed, Gapless, Known, [Next]_vars PROVE Gapless'
  OBVIOUS
<1>t. TypeOK /\ Occupied
  BY DEF Typed
<1>m. MaxQuotes \in Nat
  BY ParametersAssumption
<1>n. PICK n \in 0..MaxQuotes :
           /\ Existing = 1..n
           /\ \A h \in Handlers : pc[h] = "creating" => own[h] <= n + 1
  BY DEF Gapless
<1>1. ASSUME NEW h \in Handlers, Create(h) PROVE Gapless'
  <2>1. own[h] = n + 1 /\ n + 1 \in 0..MaxQuotes
    <3>1. own[h] \in 1..MaxQuotes /\ own[h] \notin 1..n /\ own[h] <= n + 1
      BY <1>1, <1>n, <1>t DEF Create, MayInsert, Occupied, Quotes
    <3> QED BY <3>1, <1>m
  <2>2. Existing' = 1..(n + 1)
    <3>1. Existing' = Existing \union {own[h]}
      BY <1>1, <1>t DEF Create, Existing, TypeOK, Occupied
    <3> QED BY <3>1, <2>1, <1>n
  <2>3. ASSUME NEW g \in Handlers, pc'[g] = "creating" PROVE own'[g] <= n + 2
    <3>1. pc[g] = "creating" /\ own'[g] = own[g] /\ own[g] \in 1..MaxQuotes
      BY <1>1, <2>3, <1>t DEF Create, Goto, TypeOK, Occupied, Quotes
    <3> QED BY <3>1, <1>n, <1>m
  <2> QED BY <2>1, <2>2, <2>3, <1>m DEF Gapless
<1>2. ASSUME \A h \in Handlers : ~Create(h) PROVE Gapless'
  <2>1. Existing' = Existing
    BY <1>2, RowsOnlyMoveOn, WhoWrites, <1>t DEF Existing, SettledState, Settles, Updated, TypeOK, Row
  <2>2. ASSUME NEW g \in Handlers, pc'[g] = "creating" PROVE own'[g] <= n + 1
    <3>1. CASE pc[g] = "creating" /\ own'[g] = own[g]
      BY <3>1, <1>n
    <3>2. CASE Number(g)
      <4>1. own'[g] = n + 1
        BY <3>2, <1>n, <1>t, LatestIsLast DEF Number, TypeOK
      <4> QED BY <4>1, <1>m
    <3>3. CASE ~Number(g) /\ ~(pc[g] = "creating" /\ own'[g] = own[g])
      <4>1. ASSUME NEW h \in Handlers, (\E c \in Calls : Begin(h, c)) \/ Progress(h) \/ Fail(h)
            PROVE  FALSE
        <5>1. h = g
          BY <4>1, <3>3, <2>2, OneAtATime
        <5>2. ASSUME NEW c \in Calls, Begin(h, c) PROVE FALSE
          BY <5>2, <5>1, <2>2, <1>t DEF Begin, BeginPropose, BeginDecision, BeginExpiry, BeginGet,
                                Start, TypeOK
        <5>3. CASE ListExisting(h) \/ AnnounceProposal(h) \/ Decide(h)
                   \/ \E q \in Quotes : ExpireOld(h, q) \/ Supersede(h, q)
          BY <5>3, <5>1, <2>2, <3>3, <1>t DEF ListExisting, AnnounceProposal, Decide, ExpireOld,
                                Supersede, Goto, TypeOK
        <5>4. CASE Abort(h) \/ Commit(h) \/ Purge(h) \/ FillCache(h) \/ Fail(h)
          BY <5>4, <5>1, <2>2, <1>t DEF Abort, Commit, Purge, FillCache, Fail, Finish, Goto, TypeOK
        <5> QED BY <4>1, <5>1, <5>2, <5>3, <5>4, <3>3, <1>2 DEF Progress, ProposeStep
      <4>2. ~Restart
        BY <2>2 DEF Restart
      <4>3. ~((\E q \in Quotes : Lapse(q) \/ CacheEntryExpires(q)) \/ UNCHANGED vars)
        BY <2>2, <3>3 DEF Lapse, CacheEntryExpires, vars
      <4> QED BY <4>1, <4>2, <4>3 DEF Next
    <3> QED BY <3>1, <3>2, <3>3
  <2> QED BY <2>1, <2>2, <1>n DEF Gapless
<1> QED BY <1>1, <1>2

-----------------------------------------------------------------------------

\* The proposal that has created quote q and will announce it.
Announcer(h, q) ==
    /\ own[h] = q
    /\ \/ pc[h] \in {"listing", "superseding"}
       \/ pc[h] = "committing" /\ call[h].op = "Propose"

\* A staged event is not in the outbox, is true, and is staged nowhere else.
StagedAt(h, q, s) ==
    <<q, s>> \in staged[h] =>
        /\ sent[<<q, s>>] = 0
        /\ (s \in SettledState /\ quote[q].state = s)
           \/ (s = "proposed" /\ pc[h] = "committing" /\ Announcer(h, q))
        /\ s \in {"accepted", "rejected"} => pc[h] = "committing"
        /\ \A g \in Handlers : <<q, s>> \in staged[g] => g = h

\* A committed event is there once and, if it names a terminal state, is true.
SentAt(q, s) ==
    /\ sent[<<q, s>>] <= 1
    /\ sent[<<q, s>>] = 1 /\ s \in SettledState => quote[q].state = s

\* A quote is announced by the proposal that created it only.
AnnouncerAt(h, q) ==
    Announcer(h, q) => /\ q \in Existing
                       /\ sent[<<q, "proposed">>] = 0
                       /\ \A g \in Handlers : Announcer(g, q) => g = h

\* Where every event is, and what it is worth.
Ledger ==
    /\ \A q \in Quotes, s \in QuoteState :
          SentAt(q, s) /\ \A h \in Handlers : StagedAt(h, q, s)
    /\ \A q \in Quotes, h \in Handlers : AnnouncerAt(h, q)
    /\ \A q \in Quotes : q \notin Existing => sent[<<q, "proposed">>] = 0

\* A quote never goes out of use and never leaves a terminal state.
Forward ==
    /\ Existing \subseteq Existing'
    /\ \A q \in Quotes : quote[q].state \in SettledState => quote'[q].state = quote[q].state

\* Every step moves the quotes forward.
LEMMA AlwaysForward == Typed /\ Known /\ [Next]_vars => Forward
<1> SUFFICES ASSUME Typed, Known, [Next]_vars PROVE Forward
  OBVIOUS
<1>1. \A q \in Quotes : quote[q].state \in SettledState => quote'[q].state = quote[q].state
  BY RowsOnlyMoveOn DEF SettledState
<1>2. \A q \in Quotes : quote[q].state # "none" => quote'[q].state # "none"
  BY RowsOnlyMoveOn DEF SettledState
<1> QED BY <1>1, <1>2 DEF Forward, Existing

\* A step that commits and stages no event keeps the ledger.
LEMMA QuietLedger ==
    ASSUME Ledger, Forward, sent' = sent,
           \A g \in Handlers : staged'[g] \subseteq staged[g],
           \A g \in Handlers, q \in Quotes : Announcer(g, q)' => Announcer(g, q),
           \A g \in Handlers : \/ staged'[g] = {}
                               \/ pc[g] # "committing"
                               \/ UNCHANGED <<pc[g], own[g], call[g]>>
    PROVE  Ledger'
<1>1. ASSUME NEW q \in Quotes, NEW s \in QuoteState PROVE SentAt(q, s)'
  BY DEF Ledger, SentAt, Forward
<1>2. ASSUME NEW q \in Quotes, NEW s \in QuoteState, NEW h \in Handlers
      PROVE  StagedAt(h, q, s)'
  <2> SUFFICES ASSUME <<q, s>> \in staged'[h] PROVE StagedAt(h, q, s)'
    BY DEF StagedAt
  <2>1. /\ <<q, s>> \in staged[h] /\ sent[<<q, s>>] = 0
        /\ (s \in SettledState /\ quote[q].state = s)
           \/ (s = "proposed" /\ pc[h] = "committing" /\ Announcer(h, q))
        /\ s \in {"accepted", "rejected"} => pc[h] = "committing"
        /\ \A g \in Handlers : <<q, s>> \in staged[g] => g = h
    BY DEF Ledger, StagedAt
  <2>2. pc[h] = "committing" => pc'[h] = pc[h] /\ (Announcer(h, q) => Announcer(h, q)')
    BY DEF Announcer
  <2> QED BY <2>1, <2>2 DEF StagedAt, Forward
<1>3. ASSUME NEW q \in Quotes, NEW h \in Handlers PROVE AnnouncerAt(h, q)'
  BY DEF Ledger, AnnouncerAt, Forward
<1>4. ASSUME NEW q \in Quotes, q \notin Existing' PROVE sent'[<<q, "proposed">>] = 0
  BY <1>4 DEF Ledger, Forward
<1> QED BY <1>1, <1>2, <1>3, <1>4 DEF Ledger

\* A new quote finds a clean page in the ledger.
LEMMA CreateLedger ==
    ASSUME Typed, Ledger, Forward, NEW h \in Handlers, Create(h)
    PROVE  Ledger'
<1>t. TypeOK /\ Occupied
  BY DEF Typed
<1>a. /\ own[h] \in Quotes /\ own[h] \notin Existing /\ own[h] \in Existing'
      /\ pc[h] = "creating" /\ pc'[h] = "listing"
      /\ sent' = sent /\ staged' = staged /\ own' = own /\ call' = call
      /\ \A g \in Handlers : g # h => pc'[g] = pc[g]
  BY <1>t DEF Create, MayInsert, Goto, Occupied, TypeOK, Existing
<1>h. \A q \in Quotes : Announcer(h, q)' <=> q = own[h]
  BY <1>a DEF Announcer
<1>g. \A g \in Handlers, q \in Quotes : g # h => (Announcer(g, q)' <=> Announcer(g, q))
  BY <1>a DEF Announcer
<1>1. ASSUME NEW q \in Quotes, NEW s \in QuoteState PROVE SentAt(q, s)'
  BY <1>a DEF Ledger, SentAt, Forward
<1>2. ASSUME NEW q \in Quotes, NEW s \in QuoteState, NEW g \in Handlers
      PROVE  StagedAt(g, q, s)'
  <2> SUFFICES ASSUME <<q, s>> \in staged'[g] PROVE StagedAt(g, q, s)'
    BY DEF StagedAt
  <2>1. /\ <<q, s>> \in staged[g] /\ sent[<<q, s>>] = 0
        /\ (s \in SettledState /\ quote[q].state = s)
           \/ (s = "proposed" /\ pc[g] = "committing" /\ Announcer(g, q))
        /\ s \in {"accepted", "rejected"} => pc[g] = "committing"
        /\ \A f \in Handlers : <<q, s>> \in staged[f] => f = g
    BY <1>a DEF Ledger, StagedAt
  <2>2. pc[g] = "committing" => pc'[g] = pc[g] /\ (Announcer(g, q) => Announcer(g, q)')
    BY <1>a DEF Announcer
  <2> QED BY <1>a, <2>1, <2>2 DEF StagedAt, Forward
<1>3. ASSUME NEW q \in Quotes, NEW g \in Handlers PROVE AnnouncerAt(g, q)'
  <2> SUFFICES ASSUME Announcer(g, q)'
               PROVE  /\ q \in Existing' /\ sent'[<<q, "proposed">>] = 0
                      /\ \A f \in Handlers : Announcer(f, q)' => f = g
    BY DEF AnnouncerAt
  <2>1. CASE q = own[h]
    <3>1. \A f \in Handlers : ~Announcer(f, q)
      BY <2>1, <1>a DEF Ledger, AnnouncerAt
    <3> QED BY <2>1, <3>1, <1>a, <1>g, <1>h DEF Ledger
  <2>2. CASE q # own[h]
    <3>1. g # h /\ Announcer(g, q) /\ \A f \in Handlers : Announcer(f, q)' => Announcer(f, q)
      BY <2>2, <1>g, <1>h
    <3> QED BY <3>1, <1>a DEF Ledger, AnnouncerAt, Forward
  <2> QED BY <2>1, <2>2
<1>4. ASSUME NEW q \in Quotes, q \notin Existing' PROVE sent'[<<q, "proposed">>] = 0
  BY <1>4, <1>a DEF Ledger, Forward
<1> QED BY <1>1, <1>2, <1>3, <1>4 DEF Ledger

\* Settling a quote stages an event that no one has staged or committed.
LEMMA SettleLedger ==
    ASSUME Typed, Ledger, Forward, NEW h \in Handlers, NEW p \in Quotes, NEW r \in SettledState,
           Settles(p, r), sent' = sent, UNCHANGED <<own, call>>,
           \/ pc[h] = "expiring" /\ r = "expired" /\ pc' = [pc EXCEPT ![h] = "numbering"]
           \/ /\ pc[h] = "loaded" /\ call[h].op # "Propose"
              /\ pc' = [pc EXCEPT ![h] = "committing"],
           \/ staged' = [staged EXCEPT ![h] = {<<p, r>>}]
           \/ staged' = [staged EXCEPT ![h] = @ \union {<<p, r>>}]
    PROVE  Ledger'
<1>t. TypeOK /\ Occupied
  BY DEF Typed
<1>a. /\ \A g \in Handlers : g # h => pc'[g] = pc[g] /\ staged'[g] = staged[g]
      /\ staged'[h] \subseteq staged[h] \union {<<p, r>>}
      /\ quote[p].state = "proposed" /\ quote'[p].state = r
      /\ r \notin {"none", "proposed"}
      /\ pc[h] \in {"expiring", "loaded"}
      /\ \/ pc'[h] = "numbering"
         \/ pc'[h] = "committing" /\ call[h].op # "Propose"
      /\ r \in {"accepted", "rejected"} => pc'[h] = "committing"
  BY <1>t DEF TypeOK, Settles, Updated, SettledState
<1>g. \A g \in Handlers, q \in Quotes : Announcer(g, q)' <=> Announcer(g, q)
  BY <1>a DEF Announcer
<1>n. sent[<<p, r>>] = 0 /\ \A g \in Handlers : <<p, r>> \notin staged[g]
  <2>1. r \in QuoteState /\ sent[<<p, r>>] \in Nat
    BY <1>t DEF SettledState, QuoteState, TypeOK, Events
  <2>2. SentAt(p, r) /\ \A g \in Handlers : StagedAt(g, p, r)
    BY <2>1 DEF Ledger
  <2>3. sent[<<p, r>>] # 1
    BY <2>2, <1>a DEF SentAt
  <2> QED BY <2>1, <2>2, <2>3, <1>a DEF SentAt, StagedAt
<1>1. ASSUME NEW q \in Quotes, NEW s \in QuoteState PROVE SentAt(q, s)'
  BY <1>a DEF Ledger, SentAt, Forward
<1>2. ASSUME NEW q \in Quotes, NEW s \in QuoteState, NEW g \in Handlers
      PROVE  StagedAt(g, q, s)'
  <2> SUFFICES ASSUME <<q, s>> \in staged'[g] PROVE StagedAt(g, q, s)'
    BY DEF StagedAt
  <2>1. CASE <<q, s>> \in staged[g]
    <3>1. /\ sent[<<q, s>>] = 0
          /\ (s \in SettledState /\ quote[q].state = s)
             \/ (s = "proposed" /\ pc[g] = "committing" /\ Announcer(g, q))
          /\ s \in {"accepted", "rejected"} => pc[g] = "committing"
          /\ \A f \in Handlers : <<q, s>> \in staged[f] => f = g
      BY <2>1 DEF Ledger, StagedAt
    <3>2. <<q, s>> # <<p, r>>
      BY <2>1, <1>n
    <3>3. \A f \in Handlers : <<q, s>> \in staged'[f] => f = g
      BY <3>1, <3>2, <1>a
    <3>4. pc[g] = "committing" => pc'[g] = "committing"
      BY <1>a
    <3> QED BY <3>1, <3>3, <3>4, <1>g DEF StagedAt, Forward
  <2>2. CASE <<q, s>> \notin staged[g]
    <3>1. g = h /\ q = p /\ s = r
      BY <2>2, <1>a
    <3>2. \A f \in Handlers : <<q, s>> \in staged'[f] => f = g
      BY <3>1, <1>a, <1>n
    <3>3. s \in {"accepted", "rejected"} => pc'[g] = "committing"
      BY <3>1, <1>a
    <3>4. sent'[<<q, s>>] = 0
      BY <3>1, <1>n
    <3>5. s \in SettledState /\ quote'[q].state = s
      BY <3>1, <1>a
    <3>6. s # "proposed"
      BY <3>1, <1>a
    <3> QED BY <3>2, <3>3, <3>4, <3>5, <3>6 DEF StagedAt
  <2> QED BY <2>1, <2>2
<1>3. ASSUME NEW q \in Quotes, NEW g \in Handlers PROVE AnnouncerAt(g, q)'
  BY <1>g DEF Ledger, AnnouncerAt, Forward
<1>4. ASSUME NEW q \in Quotes, q \notin Existing' PROVE sent'[<<q, "proposed">>] = 0
  BY <1>4 DEF Ledger, Forward
<1> QED BY <1>1, <1>2, <1>3, <1>4 DEF Ledger

\* Announcing a proposal stages an event that only its creator can stage.
LEMMA AnnounceLedger ==
    ASSUME Typed, Ledger, Forward, NEW h \in Handlers, AnnounceProposal(h)
    PROVE  Ledger'
<1>t. TypeOK /\ Occupied
  BY DEF Typed
<1> DEFINE p == own[h]
<1>a. /\ \A g \in Handlers : g # h => pc'[g] = pc[g] /\ staged'[g] = staged[g]
      /\ staged'[h] = staged[h] \union {<<p, "proposed">>}
      /\ pc[h] = "superseding" /\ pc'[h] = "committing"
      /\ p \in Quotes /\ call[h].op = "Propose"
      /\ sent' = sent /\ quote' = quote /\ own' = own /\ call' = call
  BY <1>t DEF TypeOK, AnnounceProposal, Goto, Occupied
<1>g. \A g \in Handlers, q \in Quotes : Announcer(g, q)' <=> Announcer(g, q)
  BY <1>a DEF Announcer
<1>n. /\ Announcer(h, p) /\ sent[<<p, "proposed">>] = 0
      /\ \A g \in Handlers : Announcer(g, p) => g = h
      /\ \A g \in Handlers : <<p, "proposed">> \notin staged[g]
  <2>1. Announcer(h, p)
    BY <1>a DEF Announcer
  <2>2. /\ sent[<<p, "proposed">>] = 0
        /\ \A g \in Handlers : Announcer(g, p) => g = h
    BY <2>1, <1>a DEF Ledger, AnnouncerAt
  <2>3. ASSUME NEW g \in Handlers, <<p, "proposed">> \in staged[g] PROVE FALSE
    <3>1. StagedAt(g, p, "proposed")
      BY <1>a DEF Ledger, QuoteState
    <3>2. pc[g] = "committing" /\ Announcer(g, p)
      BY <2>3, <3>1 DEF StagedAt, SettledState
    <3> QED BY <3>2, <2>2, <1>a
  <2> QED BY <2>1, <2>2, <2>3
<1> HIDE DEF p
<1>1. ASSUME NEW q \in Quotes, NEW s \in QuoteState PROVE SentAt(q, s)'
  BY <1>a DEF Ledger, SentAt
<1>2. ASSUME NEW q \in Quotes, NEW s \in QuoteState, NEW g \in Handlers
      PROVE  StagedAt(g, q, s)'
  <2> SUFFICES ASSUME <<q, s>> \in staged'[g] PROVE StagedAt(g, q, s)'
    BY DEF StagedAt
  <2>1. CASE <<q, s>> \in staged[g]
    <3>1. /\ sent[<<q, s>>] = 0
          /\ (s \in SettledState /\ quote[q].state = s)
             \/ (s = "proposed" /\ pc[g] = "committing" /\ Announcer(g, q))
          /\ s \in {"accepted", "rejected"} => pc[g] = "committing"
          /\ \A f \in Handlers : <<q, s>> \in staged[f] => f = g
      BY <2>1 DEF Ledger, StagedAt
    <3>2. <<q, s>> # <<p, "proposed">>
      BY <2>1, <1>n
    <3>3. \A f \in Handlers : <<q, s>> \in staged'[f] => f = g
      BY <3>1, <3>2, <1>a
    <3>4. pc[g] = "committing" => pc'[g] = "committing"
      BY <1>a
    <3> QED BY <3>1, <3>3, <3>4, <1>g, <1>a DEF StagedAt
  <2>2. CASE <<q, s>> \notin staged[g]
    <3>1. g = h /\ q = p /\ s = "proposed"
      BY <2>2, <1>a
    <3>2. \A f \in Handlers : <<q, s>> \in staged'[f] => f = g
      BY <3>1, <1>a, <1>n
    <3>3. Announcer(g, q)' /\ pc'[g] = "committing"
      BY <3>1, <1>a, <1>n, <1>g
    <3>4. sent'[<<q, s>>] = 0
      BY <3>1, <1>a, <1>n
    <3>5. s \notin {"accepted", "rejected"}
      BY <3>1
    <3> QED BY <3>1, <3>2, <3>3, <3>4, <3>5 DEF StagedAt
  <2> QED BY <2>1, <2>2
<1>3. ASSUME NEW q \in Quotes, NEW g \in Handlers PROVE AnnouncerAt(g, q)'
  BY <1>g, <1>a DEF Ledger, AnnouncerAt, Forward
<1>4. ASSUME NEW q \in Quotes, q \notin Existing' PROVE sent'[<<q, "proposed">>] = 0
  BY <1>4, <1>a DEF Ledger, Forward
<1> QED BY <1>1, <1>2, <1>3, <1>4 DEF Ledger

\* A commit moves the staged events to the outbox, each for the first time.
LEMMA CommitLedger ==
    ASSUME Typed, Ledger, NEW h \in Handlers, Commit(h)
    PROVE  Ledger'
<1>t. TypeOK /\ Occupied
  BY DEF Typed
<1>a. /\ \A g \in Handlers : g # h => /\ pc'[g] = pc[g] /\ staged'[g] = staged[g]
                                      /\ own'[g] = own[g] /\ call'[g] = call[g]
      /\ staged'[h] = {} /\ pc[h] = "committing" /\ pc'[h] \in {"idle", "purging"}
      /\ quote' = quote
  BY <1>t DEF TypeOK, Commit, Finish, Goto
<1>s. \A q \in Quotes, s \in QuoteState :
          sent'[<<q, s>>] = sent[<<q, s>>] + (IF <<q, s>> \in staged[h] THEN 1 ELSE 0)
  BY <1>t DEF Commit, TypeOK, Events
<1>g. /\ \A q \in Quotes : ~Announcer(h, q)'
      /\ \A g \in Handlers, q \in Quotes : g # h => (Announcer(g, q)' <=> Announcer(g, q))
  BY <1>a DEF Announcer
<1>p. "proposed" \in QuoteState
  BY DEF QuoteState
<1>1. ASSUME NEW q \in Quotes, NEW s \in QuoteState PROVE SentAt(q, s)'
  <2>1. SentAt(q, s) /\ StagedAt(h, q, s)
    BY DEF Ledger
  <2>2. CASE <<q, s>> \in staged[h]
    <3>1. sent'[<<q, s>>] = 1 /\ (s \in SettledState => quote[q].state = s)
      BY <2>1, <2>2, <1>s DEF StagedAt, SettledState
    <3> QED BY <3>1, <1>a DEF SentAt
  <2>3. CASE <<q, s>> \notin staged[h]
    <3>1. sent'[<<q, s>>] = sent[<<q, s>>]
      BY <2>3, <1>s, <1>t DEF TypeOK, Events
    <3> QED BY <3>1, <2>1, <1>a DEF SentAt
  <2> QED BY <2>2, <2>3
<1>2. ASSUME NEW q \in Quotes, NEW s \in QuoteState, NEW g \in Handlers
      PROVE  StagedAt(g, q, s)'
  <2> SUFFICES ASSUME <<q, s>> \in staged'[g] PROVE StagedAt(g, q, s)'
    BY DEF StagedAt
  <2>1. g # h /\ <<q, s>> \in staged[g]
    BY <1>a
  <2>2. /\ sent[<<q, s>>] = 0
        /\ (s \in SettledState /\ quote[q].state = s)
           \/ (s = "proposed" /\ pc[g] = "committing" /\ Announcer(g, q))
        /\ s \in {"accepted", "rejected"} => pc[g] = "committing"
        /\ \A f \in Handlers : <<q, s>> \in staged[f] => f = g
    BY <2>1 DEF Ledger, StagedAt
  <2>3. sent'[<<q, s>>] = 0
    BY <2>1, <2>2, <1>s
  <2>4. \A f \in Handlers : <<q, s>> \in staged'[f] => f = g
    BY <2>2, <1>a
  <2> QED BY <2>1, <2>2, <2>3, <2>4, <1>a, <1>g DEF StagedAt
<1>u. ASSUME NEW q \in Quotes, <<q, "proposed">> \in staged[h]
      PROVE  Announcer(h, q)
  <2>1. StagedAt(h, q, "proposed")
    BY <1>p DEF Ledger
  <2> QED BY <1>u, <2>1 DEF StagedAt, SettledState
<1>3. ASSUME NEW q \in Quotes, NEW g \in Handlers PROVE AnnouncerAt(g, q)'
  <2> SUFFICES ASSUME Announcer(g, q)'
               PROVE  /\ q \in Existing' /\ sent'[<<q, "proposed">>] = 0
                      /\ \A f \in Handlers : Announcer(f, q)' => f = g
    BY DEF AnnouncerAt
  <2>1. g # h /\ Announcer(g, q)
    BY <1>g
  <2>2. /\ q \in Existing /\ sent[<<q, "proposed">>] = 0
        /\ \A f \in Handlers : Announcer(f, q) => f = g
    BY <2>1 DEF Ledger, AnnouncerAt
  <2>3. <<q, "proposed">> \notin staged[h]
    BY <2>1, <2>2, <1>u
  <2>4. sent'[<<q, "proposed">>] = 0
    BY <2>2, <2>3, <1>s, <1>p
  <2>5. Existing' = Existing
    BY <1>a DEF Existing
  <2> QED BY <2>1, <2>2, <2>4, <2>5, <1>g
<1>4. ASSUME NEW q \in Quotes, q \notin Existing' PROVE sent'[<<q, "proposed">>] = 0
  <2>1. q \notin Existing /\ sent[<<q, "proposed">>] = 0
    BY <1>4, <1>a DEF Existing, Ledger
  <2>2. <<q, "proposed">> \notin staged[h]
    BY <2>1, <1>u DEF Ledger, AnnouncerAt
  <2> QED BY <2>1, <2>2, <1>s, <1>p
<1> QED BY <1>1, <1>2, <1>3, <1>4 DEF Ledger

\* Every step keeps the ledger.
LEMMA LedgerStep ==
    Typed /\ Known /\ Ledger /\ [Next]_vars => Ledger'
<1> SUFFICES ASSUME Typed, Known, Ledger, [Next]_vars PROVE Ledger'
  OBVIOUS
<1>t. TypeOK /\ Occupied
  BY DEF Typed
<1>f. Forward
  BY AlwaysForward
<1>q. ASSUME NEW h \in Handlers, sent' = sent,
             \A g \in Handlers : g # h => /\ call'[g] = call[g] /\ pc'[g] = pc[g]
                                          /\ own'[g] = own[g] /\ staged'[g] = staged[g],
             staged'[h] \subseteq staged[h],
             staged'[h] = {} \/ pc[h] # "committing",
             \A q \in Quotes : Announcer(h, q)' => Announcer(h, q)
      PROVE  Ledger'
  <2>1. \A g \in Handlers, q \in Quotes : Announcer(g, q)' => Announcer(g, q)
    BY <1>q DEF Announcer
  <2> QED BY <2>1, <1>q, <1>f, QuietLedger
<1>1. ASSUME NEW h \in Handlers, NEW c \in Calls, Begin(h, c) PROVE Ledger'
  <2>1. /\ sent' = sent /\ staged' = staged /\ pc[h] = "idle"
        /\ pc'[h] \in {"expiring", "numbering", "loaded", "caching"}
    BY <1>1, <1>t DEF Begin, BeginPropose, BeginDecision, BeginExpiry, BeginGet, Start, TypeOK
  <2>2. \A q \in Quotes : ~Announcer(h, q)'
    BY <2>1 DEF Announcer
  <2> QED BY <1>1, <2>1, <2>2, <1>q, OneAtATime
<1>2. ASSUME NEW h \in Handlers, Number(h) PROVE Ledger'
  <2>1. /\ sent' = sent /\ staged' = staged /\ pc[h] = "numbering" /\ pc'[h] = "creating"
    BY <1>2, <1>t DEF Number, Goto, TypeOK
  <2>2. \A q \in Quotes : ~Announcer(h, q)'
    BY <2>1 DEF Announcer
  <2> QED BY <1>2, <2>1, <2>2, <1>q, OneAtATime DEF Progress, ProposeStep
<1>3. ASSUME NEW h \in Handlers, ListExisting(h) PROVE Ledger'
  <2>1. /\ sent' = sent /\ staged' = staged /\ own' = own /\ pc[h] = "listing"
    BY <1>3 DEF ListExisting
  <2>2. \A q \in Quotes : Announcer(h, q)' => Announcer(h, q)
    BY <2>1 DEF Announcer
  <2> QED BY <1>3, <2>1, <2>2, <1>q, OneAtATime DEF Progress, ProposeStep
<1>4. ASSUME NEW h \in Handlers, NEW q \in Quotes, Supersede(h, q) PROVE Ledger'
  <2>1. sent' = sent /\ staged' = staged /\ own' = own /\ pc' = pc /\ call' = call
        /\ pc[h] = "superseding"
    BY <1>4 DEF Supersede
  <2>2. \A p \in Quotes : Announcer(h, p)' => Announcer(h, p)
    BY <2>1 DEF Announcer
  <2> QED BY <2>1, <2>2, <1>q
<1>5. ASSUME NEW h \in Handlers, Abort(h) \/ Purge(h) \/ FillCache(h) \/ Fail(h)
      PROVE  Ledger'
  <2>1. sent' = sent /\ staged'[h] = {} /\ pc'[h] = "idle"
    BY <1>5, <1>t DEF Abort, Purge, FillCache, Fail, Finish, TypeOK
  <2>2. \A q \in Quotes : ~Announcer(h, q)'
    BY <2>1 DEF Announcer
  <2> QED BY <1>5, <2>1, <2>2, <1>q, OneAtATime DEF Progress
<1>6. ASSUME NEW h \in Handlers, NEW q \in Quotes, ExpireOld(h, q) PROVE Ledger'
  <2>1. /\ pc[h] = "expiring" /\ pc'[h] = "numbering" /\ pc' = [pc EXCEPT ![h] = "numbering"]
        /\ sent' = sent /\ own' = own /\ call' = call
        /\ staged' = [staged EXCEPT ![h] = @ \union {<<q, "expired">>}]
    BY <1>6, <1>t DEF ExpireOld, Goto, TypeOK
  <2>2. Settles(q, "expired") /\ "expired" \in SettledState
    BY <1>6 DEF ExpireOld, UpToDate, Known, KnowsAt, SeenAt, Settles, SettledState
  <2> QED BY <2>1, <2>2, <1>f, SettleLedger
<1>7. ASSUME NEW h \in Handlers, Decide(h) PROVE Ledger'
  <2> DEFINE q == call[h].arg
             s == Target(call[h].op)
  <2>1. /\ pc[h] = "loaded" /\ pc'[h] = "committing" /\ pc' = [pc EXCEPT ![h] = "committing"]
        /\ sent' = sent /\ own' = own /\ call' = call
        /\ staged' = [staged EXCEPT ![h] = {<<q, s>>}]
    BY <1>7, <1>t DEF Decide, Goto, TypeOK
  <2>2. q \in Quotes /\ s \in SettledState /\ call[h].op # "Propose"
    BY <1>7, <1>t, TargetIsSettled DEF Decide, Occupied, Calls, Deciding
  <2>3. Settles(q, s)
    BY <1>7, <2>2 DEF Decide, UpToDate, Known, KnowsAt, SeenAt, Settles
  <2> HIDE DEF q, s
  <2> QED BY <2>1, <2>2, <2>3, <1>f, SettleLedger
<1>8. CASE Restart
  <2>1. /\ sent' = sent /\ \A g \in Handlers : staged'[g] = {} /\ pc'[g] = "idle"
    BY <1>8 DEF Restart
  <2>2. \A g \in Handlers, q \in Quotes : ~Announcer(g, q)'
    BY <2>1 DEF Announcer
  <2> QED BY <2>1, <2>2, <1>f, QuietLedger
<1>9. CASE (\E q \in Quotes : Lapse(q) \/ CacheEntryExpires(q)) \/ UNCHANGED vars
  <2>1. UNCHANGED <<sent, staged, pc, own, call>>
    BY <1>9 DEF Lapse, CacheEntryExpires, vars
  <2>2. \A g \in Handlers, q \in Quotes : Announcer(g, q)' => Announcer(g, q)
    BY <2>1 DEF Announcer
  <2> QED BY <2>1, <2>2, <1>f, QuietLedger
<1> QED BY <1>1, <1>2, <1>3, <1>4, <1>5, <1>6, <1>7, <1>8, <1>9, <1>f,
           CreateLedger, AnnounceLedger, CommitLedger DEF Next, Progress, ProposeStep

-----------------------------------------------------------------------------

\* The decisions of the customer.
Answered == {"accepted", "rejected"}

\* The inductive invariant.
IInv ==
    /\ Typed /\ Gapless /\ Known /\ Ledger
    /\ OpenQuoteIsNewest
    /\ OnlyOpenQuotesGoStale
    /\ DecisionsAreAnnounced

\* A quote is numbered only when none is open, so the open one stays the newest.
LEMMA NewestStep == IInv /\ [Next]_vars => OpenQuoteIsNewest'
<1> SUFFICES ASSUME IInv, [Next]_vars,
                    NEW q \in Proposed', NEW p \in Existing'
             PROVE  p <= q
  BY DEF OpenQuoteIsNewest
<1>i. Typed /\ Gapless /\ Known /\ OpenQuoteIsNewest
  BY DEF IInv
<1>t. TypeOK /\ Occupied
  BY <1>i DEF Typed
<1>q. q \in Quotes /\ p \in Quotes /\ quote'[q].state = "proposed" /\ quote'[p].state # "none"
  BY DEF Proposed, Existing
<1>1. ASSUME NEW h \in Handlers, Create(h) PROVE p <= q
  <2>1. PICK n \in 0..MaxQuotes :
           /\ Existing = 1..n
           /\ \A g \in Handlers : pc[g] = "creating" => own[g] <= n + 1
    BY <1>i DEF Gapless
  <2>2. own[h] = n + 1 /\ n \in Nat
    <3>1. own[h] \in 1..MaxQuotes /\ own[h] \notin 1..n /\ own[h] <= n + 1
      BY <1>1, <2>1, <1>t DEF Create, MayInsert, Occupied, Quotes
    <3> QED BY <3>1, ParametersAssumption
  <2>3. q = own[h]
    BY <1>1, <1>q, <1>t DEF Create, MayInsert, Proposed, TypeOK
  <2>4. p \in Existing \/ p = own[h]
    BY <1>1, <1>q, <1>t DEF Create, Existing, TypeOK
  <2> QED BY <2>1, <2>2, <2>3, <2>4
<1>2. ASSUME \A h \in Handlers : ~Create(h) PROVE p <= q
  <2>1. quote[q].state = "proposed" /\ quote[p].state # "none"
    BY <1>2, <1>q, <1>i, <1>t, WhoWrites, RowsOnlyMoveOn
       DEF Settles, Updated, SettledState, TypeOK, Row
  <2> QED BY <2>1, <1>q, <1>i DEF OpenQuoteIsNewest, Proposed, Existing
<1> QED BY <1>1, <1>2

\* A settled state enters the cache from a sound copy and cannot change after.
LEMMA CacheStep == IInv /\ [Next]_vars => OnlyOpenQuotesGoStale'
<1> SUFFICES ASSUME IInv, [Next]_vars,
                    NEW q \in Quotes, cached'[q] \notin {"none", "proposed"}
             PROVE  cached'[q] = quote'[q].state
  BY DEF OnlyOpenQuotesGoStale
<1>i. Typed /\ Known /\ OnlyOpenQuotesGoStale /\ Forward
  BY AlwaysForward DEF IInv
<1>t. TypeOK /\ Occupied
  BY <1>i DEF Typed
<1>1. CASE cached'[q] = cached[q]
  <2>1. cached[q] = quote[q].state /\ quote[q].state \in SettledState
    BY <1>1, <1>i, <1>t DEF OnlyOpenQuotesGoStale, TypeOK, Row, QuoteState, SettledState
  <2> QED BY <1>1, <2>1, <1>i DEF Forward
<1>2. CASE cached'[q] # cached[q]
  <2>1. ASSUME NEW h \in Handlers, FillCache(h) PROVE cached'[q] = quote'[q].state
    <3>1. call[h].arg = q /\ cached'[q] = seen[h][q].state /\ quote' = quote
      BY <2>1, <1>2, <1>t DEF FillCache, TypeOK
    <3>2. seen[h][q].state \in SettledState
      BY <3>1, <1>t DEF TypeOK, Row, QuoteState, SettledState
    <3> QED BY <3>1, <3>2, <1>i DEF Known, KnowsAt, SeenAt, IsTerminal, SettledState
  <2>2. ASSUME NEW h \in Handlers, ~FillCache(h), Progress(h) \/ Fail(h) PROVE FALSE
    BY <2>2, <1>2, <1>t DEF Progress, ProposeStep, Number, Create, ListExisting,
       AnnounceProposal, ExpireOld, Supersede, Decide, Abort, Commit, Purge, Fail, TypeOK
  <2>3. ASSUME NEW h \in Handlers, NEW c \in Calls, Begin(h, c) PROVE FALSE
    BY <2>3, <1>2 DEF Begin, BeginPropose, BeginDecision, BeginExpiry, BeginGet
  <2>4. ~(Restart \/ (\E p \in Quotes : Lapse(p) \/ CacheEntryExpires(p)) \/ UNCHANGED vars)
    BY <1>2, <1>t DEF Restart, Lapse, CacheEntryExpires, vars, TypeOK
  <2> QED BY <2>1, <2>2, <2>3, <2>4 DEF Next
<1> QED BY <1>1, <1>2

\* Without failures, a decision's event goes from its handler to the outbox.
LEMMA AnnouncedStep == IInv /\ [Next]_vars => DecisionsAreAnnounced'
<1> SUFFICES ASSUME IInv, [Next]_vars, failures' = 0,
                    NEW q \in Quotes, quote'[q].state \in Answered
             PROVE  \/ sent'[<<q, quote'[q].state>>] = 1
                    \/ \E h \in Handlers : <<q, quote'[q].state>> \in staged'[h]
  BY DEF DecisionsAreAnnounced, Answered
<1>i. Typed /\ Known /\ Ledger /\ DecisionsAreAnnounced
  BY DEF IInv
<1>t. TypeOK /\ Occupied
  BY <1>i DEF Typed
<1>z. failures = 0 /\ ~Restart /\ \A h \in Handlers : ~Fail(h)
  <2>1. \A h \in Handlers : ~Fail(h)
    BY <1>t DEF Fail, TypeOK
  <2>2. ~Restart
    BY <1>t DEF Restart, TypeOK
  <2>3. failures' = failures
    BY <2>1, <2>2 DEF Next, Begin, BeginPropose, BeginDecision, BeginExpiry, BeginGet, Progress,
       ProposeStep, Number, Create, ListExisting, AnnounceProposal, ExpireOld, Supersede,
       Decide, Abort, Commit, Purge, FillCache, Lapse, CacheEntryExpires, vars
  <2> QED BY <2>1, <2>2, <2>3
<1> DEFINE s == quote'[q].state
<1>s. s \in QuoteState /\ s \in SettledState
  BY DEF Answered, QuoteState, SettledState
<1>e. <<q, s>> \in Events
  BY <1>s DEF Events
<1>o. ASSUME quote[q].state = s
      PROVE  sent[<<q, s>>] = 1 \/ \E h \in Handlers : <<q, s>> \in staged[h]
  BY <1>o, <1>z, <1>i DEF DecisionsAreAnnounced, Answered
<1>c. \A h \in Handlers : <<q, s>> \in staged[h] => pc[h] = "committing" /\ sent[<<q, s>>] = 0
  BY <1>i, <1>s DEF Ledger, StagedAt, Answered
<1> HIDE DEF s
<1>1. ASSUME NEW h \in Handlers, Decide(h)
      PROVE  sent'[<<q, s>>] = 1 \/ \E g \in Handlers : <<q, s>> \in staged'[g]
  <2> DEFINE p == call[h].arg
             r == Target(call[h].op)
  <2>1. /\ pc[h] = "loaded" /\ sent' = sent /\ quote' = Updated(p, r)
        /\ staged' = [staged EXCEPT ![h] = {<<p, r>>}]
        /\ p \in Quotes
    BY <1>1, <1>t DEF Decide, Occupied, Calls, Deciding
  <2>2. CASE q = p
    <3>1. s = r
      BY <2>1, <2>2, <1>t DEF s, Updated, TypeOK
    <3> QED BY <2>1, <2>2, <3>1, <1>t DEF TypeOK
  <2>3. CASE q # p
    <3>1. quote[q].state = s
      BY <2>1, <2>3, <1>t DEF s, Updated, TypeOK
    <3>2. \A g \in Handlers : <<q, s>> \in staged[g] => <<q, s>> \in staged'[g]
      BY <2>1, <1>c, <1>t DEF TypeOK
    <3> QED BY <3>1, <3>2, <2>1, <1>o
  <2> QED BY <2>2, <2>3
<1>2. ASSUME NEW h \in Handlers, Commit(h)
      PROVE  sent'[<<q, s>>] = 1 \/ \E g \in Handlers : <<q, s>> \in staged'[g]
  <2>1. quote[q].state = s
    BY <1>2 DEF s, Commit
  <2>2. sent'[<<q, s>>] = sent[<<q, s>>] + (IF <<q, s>> \in staged[h] THEN 1 ELSE 0)
    BY <1>2, <1>e DEF Commit
  <2>3. \A g \in Handlers : g # h => staged'[g] = staged[g]
    BY <1>2, <1>t DEF Commit, Finish, TypeOK
  <2>4. CASE <<q, s>> \in staged[h]
    BY <2>2, <2>4, <1>c
  <2>5. CASE <<q, s>> \notin staged[h]
    <3>1. sent'[<<q, s>>] = sent[<<q, s>>]
      BY <2>2, <2>5, <1>e, <1>t DEF TypeOK
    <3> QED BY <3>1, <2>1, <2>3, <2>5, <1>o
  <2> QED BY <2>4, <2>5
<1>3. ASSUME \A h \in Handlers : ~Decide(h) /\ ~Commit(h)
      PROVE  sent'[<<q, s>>] = 1 \/ \E g \in Handlers : <<q, s>> \in staged'[g]
  <2>1. quote[q].state = s
    <3>1. ASSUME NEW h \in Handlers, Create(h) PROVE quote[q].state = s
      BY <3>1, <1>t DEF s, Create, Answered, TypeOK
    <3>2. ASSUME NEW h \in Handlers, NEW p \in Quotes, ExpireOld(h, p) \/ Supersede(h, p)
          PROVE  quote[q].state = s
      <4>1. PICK r \in {"expired", "superseded"} : quote' = Updated(p, r)
        BY <3>2 DEF ExpireOld, Supersede
      <4>2. q # p
        BY <4>1, <1>t DEF Updated, Answered, TypeOK
      <4> QED BY <4>1, <4>2, <1>t DEF s, Updated, TypeOK
    <3>3. ASSUME quote' = quote PROVE quote[q].state = s
      BY <3>3 DEF s
    <3>4. ASSUME NEW h \in Handlers, NEW c \in Calls, Begin(h, c) PROVE quote' = quote
      BY <3>4 DEF Begin, BeginPropose, BeginDecision, BeginExpiry, BeginGet
    <3>5. ASSUME NEW h \in Handlers, Number(h) \/ ListExisting(h) \/ AnnounceProposal(h)
                     \/ Abort(h) \/ Purge(h) \/ FillCache(h)
          PROVE  quote' = quote
      BY <3>5 DEF Number, ListExisting, AnnounceProposal, Abort, Purge, FillCache
    <3>6. ASSUME (\E p \in Quotes : Lapse(p) \/ CacheEntryExpires(p)) \/ UNCHANGED vars
          PROVE  quote' = quote
      BY <3>6 DEF Lapse, CacheEntryExpires, vars
    <3> QED BY <3>1, <3>2, <3>3, <3>4, <3>5, <3>6, <1>3, <1>z DEF Next, Progress, ProposeStep
  <2>2. sent' = sent
    BY <1>3, <1>z DEF Next, Begin, BeginPropose, BeginDecision, BeginExpiry, BeginGet, Progress,
       ProposeStep, Number, Create, ListExisting, AnnounceProposal, ExpireOld, Supersede,
       Abort, Purge, FillCache, Lapse, CacheEntryExpires, vars
  <2>3. ASSUME NEW g \in Handlers, <<q, s>> \in staged[g] PROVE <<q, s>> \in staged'[g]
    <3>1. pc[g] = "committing"
      BY <2>3, <1>c
    <3>2. ASSUME NEW h \in Handlers, h # g, (\E c \in Calls : Begin(h, c)) \/ Progress(h)
          PROVE  staged'[g] = staged[g]
      BY <3>2, <1>i, OneAtATime
    <3>3. ASSUME (\E c \in Calls : Begin(g, c)) \/ Progress(g) PROVE FALSE
      BY <3>1, <3>3, <1>3 DEF Begin, BeginPropose, BeginDecision, BeginExpiry, BeginGet, Start,
         Progress, ProposeStep, Number, Create, ListExisting, AnnounceProposal, ExpireOld,
         Supersede, Abort, Conflicts, Purge, FillCache
    <3>4. ASSUME (\E p \in Quotes : Lapse(p) \/ CacheEntryExpires(p)) \/ UNCHANGED vars
          PROVE  staged' = staged
      BY <3>4 DEF Lapse, CacheEntryExpires, vars
    <3> QED BY <2>3, <3>2, <3>3, <3>4, <1>z DEF Next
  <2> QED BY <2>1, <2>2, <2>3, <1>o
<1> QED BY <1>1, <1>2, <1>3 DEF s

-----------------------------------------------------------------------------

\* The inductive invariant holds in the empty table and is kept by every step.
LEMMA Invariant == Spec => []IInv
<1>1. Init => IInv
  <2> SUFFICES ASSUME Init PROVE IInv
    OBVIOUS
  <2>1. Existing = 1..0
    BY DEF Init, Existing
  <2>2. Proposed = {}
    BY DEF Init, Proposed
  <2>3. TypeOK
    BY BlankTable DEF Init, TypeOK, Blank, QuoteState, Idle
  <2>4. Occupied
    BY DEF Init, Occupied, Idle
  <2>5. Gapless
    <3>1. 0 \in 0..MaxQuotes /\ \A h \in Handlers : pc[h] # "creating"
      BY ParametersAssumption DEF Init
    <3> QED BY <2>1, <3>1 DEF Gapless
  <2>6. Known
    BY DEF Init, Known, Unborn, KnowsAt, SeenAt, IsTerminal
  <2>7. \A q \in Quotes, s \in QuoteState : sent[<<q, s>>] = 0
    BY DEF Init, Events
  <2>8. Ledger
    <3>1. \A h \in Handlers : staged[h] = {} /\ pc[h] = "idle"
      BY DEF Init
    <3>2. \A h \in Handlers, q \in Quotes : ~Announcer(h, q)
      BY <3>1 DEF Announcer
    <3>3. "proposed" \in QuoteState
      BY DEF QuoteState
    <3> QED BY <2>7, <3>1, <3>2, <3>3 DEF Ledger, SentAt, StagedAt, AnnouncerAt
  <2>9. OpenQuoteIsNewest /\ OnlyOpenQuotesGoStale /\ DecisionsAreAnnounced
    BY <2>2 DEF Init, OpenQuoteIsNewest, OnlyOpenQuotesGoStale, DecisionsAreAnnounced
  <2> QED BY <2>3, <2>4, <2>5, <2>6, <2>8, <2>9 DEF IInv, Typed
<1>2. IInv /\ [Next]_vars => IInv'
  <2> SUFFICES ASSUME IInv, [Next]_vars PROVE IInv'
    OBVIOUS
  <2>1. Typed' /\ Gapless' /\ Known' /\ Ledger'
    BY TypeStep, GaplessStep, KnownStep, LedgerStep DEF IInv
  <2>2. OpenQuoteIsNewest' /\ OnlyOpenQuotesGoStale' /\ DecisionsAreAnnounced'
    BY NewestStep, CacheStep, AnnouncedStep
  <2> QED BY <2>1, <2>2 DEF IInv
<1> QED BY <1>1, <1>2, PTL DEF Spec

\* Every variable keeps its type, for any number of quotes and handlers.
THEOREM TypeCorrect == Spec => []TypeOK
<1>1. IInv => TypeOK
  BY DEF IInv, Typed
<1> QED BY <1>1, Invariant, PTL

\* No quote is numbered past an open one, whatever overlaps.
THEOREM NewestIsOpen == Spec => []OpenQuoteIsNewest
<1>1. IInv => OpenQuoteIsNewest
  BY DEF IInv
<1> QED BY <1>1, Invariant, PTL

\* An event is committed at most once, and tells the final state of its quote.
THEOREM EventsAlwaysTruthful == Spec => []EventsTellTheTruth
<1>1. IInv => EventsTellTheTruth
  <2> SUFFICES ASSUME IInv, NEW e \in Events
               PROVE  /\ sent[e] <= 1
                      /\ sent[e] = 1 /\ IsTerminal(e[2]) => quote[e[1]].state = e[2]
    BY DEF EventsTellTheTruth
  <2>1. e[1] \in Quotes /\ e[2] \in QuoteState /\ e = <<e[1], e[2]>>
    BY DEF Events
  <2>2. SentAt(e[1], e[2])
    BY <2>1 DEF IInv, Ledger
  <2> QED BY <2>1, <2>2 DEF SentAt, IsTerminal, SettledState
<1> QED BY <1>1, Invariant, PTL

\* Without a failure, the customer's decision is announced or about to be.
THEOREM DecisionsAlwaysAnnounced == Spec => []DecisionsAreAnnounced
<1>1. IInv => DecisionsAreAnnounced
  BY DEF IInv
<1> QED BY <1>1, Invariant, PTL

\* A settled state in the cache is the one the table holds, although clearing
\* and filling the cache are not ordered with the commits.
THEOREM CacheNeverInvents == Spec => []OnlyOpenQuotesGoStale
<1>1. IInv => OnlyOpenQuotesGoStale
  BY DEF IInv
<1> QED BY <1>1, Invariant, PTL

\* The service implements the life cycle: a write of the table settles an open
\* quote or appends the next number when none is open.
THEOREM QuotesFollowTheLifecycle == Spec => ImplementsQuoteLifecycle
<1> DEFINE st == [q \in Quotes |-> quote[q].state]
<1>1. Init => Lifecycle!Init
  BY DEF Init, Lifecycle!Init, Lifecycle!Quotes, Quotes
<1>2. IInv /\ [Next]_vars => [Lifecycle!Next]_st
  <2> SUFFICES ASSUME IInv, [Next]_vars PROVE Lifecycle!Next \/ st' = st
    OBVIOUS
  <2>i. Typed /\ Known /\ Gapless
    BY DEF IInv
  <2>t. TypeOK /\ Occupied
    BY <2>i DEF Typed
  <2>1. CASE quote' = quote
    BY <2>1
  <2>2. ASSUME NEW q \in Quotes, NEW s \in SettledState, Settles(q, s)
        PROVE  Lifecycle!Settle(q)
    <3>1. st[q] = "proposed" /\ st' = [st EXCEPT ![q] = s]
      BY <2>2, <2>t DEF Settles, Updated, TypeOK
    <3> QED BY <3>1 DEF Lifecycle!Settle, Lifecycle!Settled, SettledState
  <2>3. ASSUME NEW h \in Handlers, Create(h), NEW q \in Quotes, q = own[h]
        PROVE  Lifecycle!Propose(q)
    <3>1. PICK n \in 0..MaxQuotes :
             /\ Existing = 1..n
             /\ \A g \in Handlers : pc[g] = "creating" => own[g] <= n + 1
      BY <2>i DEF Gapless
    <3>2. q \notin Existing /\ Proposed = {}
      BY <2>3 DEF Create, MayInsert
    <3>3. q = n + 1 /\ n \in Nat
      BY <2>3, <3>1, <3>2, ParametersAssumption DEF Create, Quotes
    <3>4. \A p \in 1..(q - 1) : p \in Quotes /\ p \in Existing /\ p \notin Proposed
      BY <3>1, <3>2, <3>3 DEF Existing
    <3>5. \A p \in 1..(q - 1) : st[p] \in SettledState
      BY <3>4, <2>t DEF Existing, Proposed, TypeOK, Row, QuoteState, SettledState
    <3>6. st[q] = "none" /\ st' = [st EXCEPT ![q] = "proposed"]
      BY <2>3, <3>2, <2>t DEF Create, Existing, TypeOK
    <3> QED BY <3>5, <3>6 DEF Lifecycle!Propose, Lifecycle!Settled, SettledState
  <2>4. ASSUME NEW q \in Quotes, Lifecycle!Propose(q) \/ Lifecycle!Settle(q)
        PROVE  Lifecycle!Next
    BY <2>4 DEF Lifecycle!Next, Lifecycle!Quotes, Quotes
  <2>5. CASE \E q \in Quotes, s \in SettledState : Settles(q, s)
    BY <2>5, <2>2, <2>4
  <2>6. ASSUME NEW h \in Handlers, Create(h) PROVE Lifecycle!Next
    <3>1. own[h] \in Quotes
      BY <2>6, <2>t DEF Create, Occupied
    <3>2. PICK q \in Quotes : q = own[h]
      BY <3>1
    <3> QED BY <2>6, <3>2, <2>3, <2>4
  <2> QED BY <2>1, <2>5, <2>6, <2>i, WhoWrites
<1> QED BY <1>1, <1>2, Invariant, PTL DEF Spec, ImplementsQuoteLifecycle, Lifecycle!Spec
=============================================================================
