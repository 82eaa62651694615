---------------------------- MODULE PaymentsProofs ----------------------------
(***************************************************************************)
(* Theorems about Payments, for any number of handlers and calls.          *)
(*                                                                         *)
(* Handlers write whole rows that they have read long before, so what must *)
(* hold of the tables must hold of every copy a handler carries (CallOK):  *)
(* a transaction that is completed, in the table or in a copy, has an      *)
(* order that the provider has settled so (Backed), and as orders never    *)
(* leave that state and attempts never change their transaction, no save   *)
(* of an old copy can make it wrong.  A webhook is held by one handler, or *)
(* is recorded (NoticeInv).                                                *)
(*                                                                         *)
(* Two invariants on top of this one are about calls that run one at a     *)
(* time: SerialInv, that copies and announcements agree with the table's   *)
(* status, and OrderInv, that a pending transaction knows the one order of *)
(* its own that is alive and a completed one has none that can be paid.    *)
(***************************************************************************)
EXTENDS Payments, FiniteSetTheorems, TLAPS

Final == [s \in Completed |-> IF s = "successful" THEN {"paid"} ELSE {"failed", "cancelled"}]

\* The transaction t has an attempt whose order ended with s.
Backed(t, s) == \E a \in Attempts : attempt[a].txn = t /\ order[a] \in Final[s]

\* a is an attempt of t.
Mine(t, a) == a \in Attempts /\ attempt[a].txn = t /\ attempt[a].status # "none"

\* What may stand in the row of t, or in a copy of it.
Good(t, row) ==
    /\ row \in TxnRow /\ row.status # "none"
    /\ row.status \in Completed => Backed(t, row.status)
    /\ row.current # 0 => Mine(t, row.current)

MadeTxns == {t \in Txns : txn[t].status # "none"}
MadeAttempts == {a \in Attempts : attempt[a].status # "none"}

\* New rows get the numbers that follow.
Numbered == /\ \E n \in Nat : MadeTxns = 1..n
            /\ \E n \in Nat : MadeAttempts = 1..n

RowInv == \A t \in MadeTxns : Good(t, txn[t])

AttemptInv ==
    /\ \A a \in MadeAttempts : attempt[a].txn \in MadeTxns
    /\ \A a \in Attempts : order[a] # "none" => a \in MadeAttempts

Starting == {"idle", "looking", "creating"}
AboutAttempt == {"cancelling", "verifying", "saving", "initializing", "initFailed",
                 "activating", "activated", "settling", "deciding"}

CallOK(h) ==
    LET c == call[h]
    IN  /\ c.pc \notin Starting => c.t \in MadeTxns
        /\ c.pc \notin Starting \cup {"settling"} => Good(c.t, c.row)
        /\ c.a # 0 => Mine(c.t, c.a)
        /\ c.pc \in Starting => c.a = 0
        /\ c.pc \in AboutAttempt => c.a # 0
        /\ c.pc = "saving" => c.mine \in {"cancelled", "superseded", "failed"}
        /\ c.pc \in {"settling", "deciding"} =>
              c.outcome \in Completed /\ order[c.a] \in Final[c.outcome]
        /\ c.pc \in {"staged", "marking"} => c.row.status \in Completed
        /\ c.pc = "initializing" => order[c.a] = "none"

CallInv ==
    /\ \A h \in Handlers : CallOK(h)
    /\ \A g, h \in Handlers :
          At(g, "initializing") /\ At(h, "initializing") /\ call[g].a = call[h].a => g = h

\* The handler holds the webhook of a.
Holds(h, a) == call[h].op = "Webhook" /\ call[h].pc \in {"deciding", "staged"} /\ call[h].a = a

NoticeInv ==
    \A a \in Attempts :
        /\ announced[a] <= 1
        /\ a \notin recorded => announced[a] = 0
        /\ \A g, h \in Handlers : Holds(g, a) /\ Holds(h, a) => g = h
        /\ \A h \in Handlers : Holds(h, a) =>
              IF At(h, "deciding") THEN a \notin recorded
              ELSE a \in recorded /\ announced[a] = 0

Inv == TypeOK /\ Numbered /\ RowInv /\ AttemptInv /\ CallInv /\ NoticeInv /\ EventsAreBacked

-----------------------------------------------------------------------------
(***************************************************************************)
(* Types.                                                                  *)
(***************************************************************************)

Places == {"idle", "looking", "creating", "resolving", "cancelling", "verifying",
           "saving", "reserving", "flagging", "clearing", "attempting",
           "initializing", "initFailed", "noting", "releasing", "activating",
           "activated", "settling", "deciding", "staged", "marking"}

CallState == [op : {"none", "Initialize", "Webhook", "Repair"}, pc : Places,
              t : Txns \union {0}, row : TxnRow, a : Attempts \union {0},
              mine : AttemptStatus, seen : {"none", "quote_accepted", "payment_pending"},
              outcome : Completed \union {"none"}]

BookingState == [status : {"quote_accepted", "payment_pending", "confirmed"},
                 reservation : Txns \union {0}, lapsed : BOOLEAN]

AttemptRow == [txn : Txns \union {0}, status : AttemptStatus]

\* The parts of the state that are functions.
LEMMA Shapes ==
    ASSUME TypeOK
    PROVE  /\ txn \in [Txns -> TxnRow] /\ attempt \in [Attempts -> AttemptRow]
           /\ call \in [Handlers -> CallState] /\ order \in [Attempts -> OrderStatus]
           /\ sent \in [Txns -> [Completed -> Nat]] /\ announced \in [Attempts -> Nat]
           /\ recorded \subseteq Attempts
BY DEF TypeOK, AttemptRow, CallState, Places

LEMMA IdleState == /\ Idle \in CallState /\ NoTxn \in TxnRow
                   /\ Idle.pc = "idle" /\ Idle.a = 0 /\ Idle.op = "none"
BY DEF Idle, CallState, Places, NoTxn, TxnRow, TransactionStatus, AttemptStatus

\* The numbers of rows.
LEMMA RowNumbers == /\ 0 \notin Txns /\ 0 \notin Attempts
                    /\ Txns \subseteq Nat /\ Attempts \subseteq Nat
BY ParametersAssumption DEF Txns, Attempts

\* What Goto and Finish do to the calls.
LEMMA Moves ==
    ASSUME TypeOK, NEW h \in Handlers
    PROVE  /\ \A pc \in Places : Goto(h, pc) =>
                 /\ call' \in [Handlers -> CallState]
                 /\ \A g \in Handlers \ {h} : call'[g] = call[g]
                 /\ call'[h] = [call[h] EXCEPT !.pc = pc]
           /\ Finish(h) =>
                 /\ call' \in [Handlers -> CallState]
                 /\ \A g \in Handlers \ {h} : call'[g] = call[g]
                 /\ call'[h] = Idle
<1>0. call \in [Handlers -> CallState] /\ call[h] \in CallState
  BY Shapes
<1>1. ASSUME NEW pc \in Places, Goto(h, pc)
      PROVE  /\ call' \in [Handlers -> CallState]
             /\ \A g \in Handlers \ {h} : call'[g] = call[g]
             /\ call'[h] = [call[h] EXCEPT !.pc = pc]
  <2>1. call' = [call EXCEPT ![h] = [call[h] EXCEPT !.pc = pc]]
    BY <1>0, <1>1 DEF Goto
  <2>2. [call[h] EXCEPT !.pc = pc] \in CallState
    BY <1>0 DEF CallState
  <2> QED BY <1>0, <2>1, <2>2
<1>2. ASSUME Finish(h)
      PROVE  /\ call' \in [Handlers -> CallState]
             /\ \A g \in Handlers \ {h} : call'[g] = call[g]
             /\ call'[h] = Idle
  BY <1>0, <1>2, IdleState DEF Finish
<1> QED BY <1>1, <1>2

-----------------------------------------------------------------------------
(***************************************************************************)
(* What every step of the tables and of the provider respects, and what it *)
(* means for the copies.                                                   *)
(***************************************************************************)

Grows ==
    /\ \A a \in MadeAttempts : attempt'[a].txn = attempt[a].txn /\ attempt'[a].status # "none"
    /\ \A t \in MadeTxns : txn'[t].status # "none"
    /\ \A a \in Attempts, s \in Completed : order[a] \in Final[s] => order'[a] \in Final[s]

\* Orders that are still none, apart from the one that the handler h opens.
OrdersKept(h) ==
    \A a \in Attempts : order[a] = "none" /\ order'[a] # "none" =>
                          At(h, "initializing") /\ call[h].a = a

\* The rows, the attempts, and what is known of them stay.
LEMMA MineStays ==
    ASSUME Inv, Grows, NEW t, NEW a, Mine(t, a)
    PROVE  Mine(t, a)'
BY DEF Mine, Grows, MadeAttempts

LEMMA BackedStays ==
    ASSUME Inv, Grows, NEW t, NEW s \in Completed, Backed(t, s)
    PROVE  Backed(t, s)'
<1>1. PICK a \in Attempts : attempt[a].txn = t /\ order[a] \in Final[s]
  BY DEF Backed
<1>2. order[a] # "none"
  BY <1>1 DEF Final
<1>3. a \in MadeAttempts
  BY <1>2 DEF Inv, AttemptInv
<1>4. attempt'[a].txn = t /\ order'[a] \in Final[s]
  BY <1>1, <1>3 DEF Grows
<1> QED BY <1>4 DEF Backed

LEMMA GoodStays ==
    ASSUME Inv, Grows, NEW t, NEW row, Good(t, row)
    PROVE  Good(t, row)'
<1>1. row.status \in Completed => Backed(t, row.status)'
  BY BackedStays DEF Good
<1>2. row.current # 0 => Mine(t, row.current)'
  BY MineStays DEF Good
<1> QED BY <1>1, <1>2 DEF Good

LEMMA MadeStays ==
    ASSUME Inv, Grows
    PROVE  MadeTxns \subseteq MadeTxns' /\ MadeAttempts \subseteq MadeAttempts'
BY DEF Grows, MadeTxns, MadeAttempts

\* A handler that does nothing.
LEMMA OthersOK ==
    ASSUME Inv, Grows, NEW g \in Handlers, call'[g] = call[g],
           At(g, "initializing") => order'[call[g].a] = "none"
    PROVE  CallOK(g)'
<1>1. CallOK(g) /\ call[g] \in CallState
  BY Shapes DEF Inv, CallInv
<1>2. PICK c : c = call[g]
  OBVIOUS
<1>3. c.pc \notin Starting => c.t \in MadeTxns'
  BY <1>1, <1>2, MadeStays DEF CallOK
<1>4. c.pc \notin Starting \cup {"settling"} => Good(c.t, c.row)'
  <2>1. CASE Good(c.t, c.row)
    BY <2>1, GoodStays
  <2> QED BY <1>1, <1>2, <2>1 DEF CallOK
<1>5. c.a # 0 => Mine(c.t, c.a)'
  <2>1. CASE Mine(c.t, c.a)
    BY <2>1, MineStays
  <2> QED BY <1>1, <1>2, <2>1 DEF CallOK
<1>6. c.pc \in {"settling", "deciding"} =>
         c.outcome \in Completed /\ order'[c.a] \in Final[c.outcome]
  BY <1>1, <1>2 DEF CallOK, Grows, CallState, AboutAttempt
<1>7. c.pc = "initializing" => order'[c.a] = "none"
  BY <1>2 DEF At
<1>8. /\ c.pc \in Starting => c.a = 0
      /\ c.pc \in AboutAttempt => c.a # 0
      /\ c.pc = "saving" => c.mine \in {"cancelled", "superseded", "failed"}
      /\ c.pc \in {"staged", "marking"} => c.row.status \in Completed
  BY <1>1, <1>2 DEF CallOK
<1> QED BY <1>2, <1>3, <1>4, <1>5, <1>6, <1>7, <1>8 DEF CallOK

\* What a handler carries, before and after a step.
LEMMA Carried ==
    ASSUME Inv, Grows, NEW h \in Handlers, NEW c, c = call[h]
    PROVE  /\ c \in CallState
           /\ c.pc \notin Starting => c.t \in MadeTxns /\ c.t \in MadeTxns'
           /\ c.pc \notin Starting \cup {"settling"} => Good(c.t, c.row) /\ Good(c.t, c.row)'
           /\ c.a # 0 => Mine(c.t, c.a) /\ Mine(c.t, c.a)'
           /\ c.pc \in Starting => c.a = 0
           /\ c.pc \in AboutAttempt => c.a # 0
           /\ c.pc \in {"settling", "deciding"} =>
                 c.outcome \in Completed /\ order[c.a] \in Final[c.outcome]
           /\ c.pc \in {"staged", "marking"} => c.row.status \in Completed
<1>1. CallOK(h) /\ call[h] \in CallState
  BY Shapes DEF Inv, CallInv
<1>2. c.pc \notin Starting => c.t \in MadeTxns /\ c.t \in MadeTxns'
  BY <1>1, MadeStays DEF CallOK
<1>3. c.pc \notin Starting \cup {"settling"} => Good(c.t, c.row) /\ Good(c.t, c.row)'
  <2>1. CASE Good(c.t, c.row)
    BY <2>1, GoodStays
  <2> QED BY <1>1, <2>1 DEF CallOK
<1>4. c.a # 0 => Mine(c.t, c.a) /\ Mine(c.t, c.a)'
  <2>1. CASE Mine(c.t, c.a)
    BY <2>1, MineStays
  <2> QED BY <1>1, <2>1 DEF CallOK
<1> QED BY <1>1, <1>2, <1>3, <1>4 DEF CallOK

\* A handler that goes on to one of the places without further conditions.
LEMMA WentOn ==
    ASSUME NEW h \in Handlers, NEW d, call'[h] = d,
           d.pc \notin Starting \cup {"settling", "deciding", "staged", "marking",
                                      "initializing", "saving"},
           d.t \in MadeTxns', Good(d.t, d.row)',
           d.a # 0 => Mine(d.t, d.a)',
           d.pc \in AboutAttempt => d.a # 0
    PROVE  CallOK(h)'
BY DEF CallOK

LEMMA Finished ==
    ASSUME NEW h \in Handlers, call'[h] = Idle
    PROVE  CallOK(h)'
BY IdleState DEF CallOK, Starting, AboutAttempt

\* The tables when no row is new.
LEMMA TablesKept ==
    ASSUME Inv, Grows, MadeTxns' = MadeTxns, MadeAttempts' = MadeAttempts,
           \A t \in MadeTxns : txn'[t] = txn[t] \/ Good(t, txn[t])',
           \A a \in Attempts : order'[a] # "none" => a \in MadeAttempts
    PROVE  Numbered' /\ RowInv' /\ AttemptInv'
<1>1. Numbered'
  BY DEF Inv, Numbered
<1>2. ASSUME NEW t \in MadeTxns PROVE Good(t, txn[t])'
  <2>1. Good(t, txn[t])
    BY DEF Inv, RowInv
  <2>2. CASE txn'[t] = txn[t]
    <3>1. PICK row : row = txn[t]
      OBVIOUS
    <3>2. Good(t, row)'
      BY <2>1, <3>1, GoodStays
    <3> QED BY <2>2, <3>1, <3>2
  <2> QED BY <2>2
<1>3. RowInv'
  BY <1>2 DEF RowInv
<1>4. AttemptInv'
  BY DEF Inv, AttemptInv, Grows
<1> QED BY <1>1, <1>3, <1>4

\* The notices under a step of h that neither takes nor records one.
LEMMA NoticesKept ==
    ASSUME Inv, NEW h \in Handlers, recorded' = recorded, announced' = announced,
           \A g \in Handlers \ {h} : call'[g] = call[g],
           call'[h].op = "Webhook" => call'[h].pc \notin {"deciding", "staged"}
    PROVE  NoticeInv'
<1>1. \A g \in Handlers, a \in Attempts :
         Holds(g, a)' => g # h /\ Holds(g, a) /\ call'[g] = call[g]
  BY DEF Holds
<1> QED BY <1>1 DEF Inv, NoticeInv, At

\* What a step of h has to show.
LEMMA StepKeeps ==
    ASSUME Inv, NEW h \in Handlers, Grows, TypeOK', Numbered', RowInv', AttemptInv', NoticeInv',
           \A g \in Handlers \ {h} : call'[g] = call[g],
           OrdersKept(h), CallOK(h)',
           call'[h].pc = "initializing" =>
              \A g \in Handlers \ {h} : At(g, "initializing") => call[g].a # call'[h].a,
           \A t \in Txns, s \in Completed : sent'[t][s] > 0 => sent[t][s] > 0 \/ Backed(t, s)'
    PROVE  Inv'
<1>1. ASSUME NEW g \in Handlers PROVE CallOK(g)'
  <2>1. CASE g # h
    <3>1. At(g, "initializing") => order'[call[g].a] = "none"
      <4>1. CallOK(g) /\ call[g].a \in Attempts \cup {0}
        BY Shapes DEF Inv, CallInv, CallState
      <4>2. At(g, "initializing") => order[call[g].a] = "none" /\ call[g].a \in Attempts
        BY <4>1 DEF CallOK, At, AboutAttempt
      <4>3. At(g, "initializing") /\ At(h, "initializing") => call[g].a # call[h].a
        BY <2>1 DEF Inv, CallInv
      <4> QED BY <4>2, <4>3 DEF OrdersKept
    <3> QED BY <2>1, <3>1, OthersOK
  <2> QED BY <2>1
<1>2. ASSUME NEW f \in Handlers, NEW g \in Handlers, At(f, "initializing")', At(g, "initializing")',
             call'[f].a = call'[g].a
      PROVE  f = g
  BY <1>2 DEF Inv, CallInv, At
<1>3. CallInv'
  BY <1>1, <1>2 DEF CallInv
<1>4. EventsAreBacked'
  <2>1. ASSUME NEW t \in Txns, NEW s \in Completed, sent'[t][s] > 0
        PROVE  Backed(t, s)'
    <3>1. CASE sent[t][s] > 0
      <4>1. Backed(t, s)
        BY <3>1 DEF Inv, EventsAreBacked, Backed, Final, Completed
      <4> QED BY <4>1, BackedStays
    <3> QED BY <2>1, <3>1
  <2>2. \A t \in Txns : /\ sent'[t]["successful"] > 0 => Backed(t, "successful")'
                        /\ sent'[t]["failed"] > 0 => Backed(t, "failed")'
    BY <2>1 DEF Completed
  <2> QED BY <2>2 DEF EventsAreBacked, Backed, Final, Completed
<1> QED BY <1>3, <1>4 DEF Inv

-----------------------------------------------------------------------------
(***************************************************************************)
(* Steps that leave the tables and the orders alone.                       *)
(***************************************************************************)

LEMMA Quiet ==
    ASSUME Inv, NEW h \in Handlers, UNCHANGED <<txn, attempt, order>>
    PROVE  Grows /\ OrdersKept(h) /\ Numbered' /\ RowInv' /\ AttemptInv'
<1>1. Grows /\ OrdersKept(h) /\ MadeTxns' = MadeTxns /\ MadeAttempts' = MadeAttempts
  BY DEF Grows, OrdersKept, MadeTxns, MadeAttempts
<1>2. \A a \in Attempts : order'[a] # "none" => a \in MadeAttempts
  BY DEF Inv, AttemptInv
<1> QED BY <1>1, <1>2, TablesKept

\* With the outbox alone as well, the calls and the booking are what is left to show.
LEMMA QuietKeeps ==
    ASSUME Inv, NEW h \in Handlers, UNCHANGED <<txn, attempt, order, Outbox>>,
           \A g \in Handlers \ {h} : call'[g] = call[g],
           call' \in [Handlers -> CallState], CallOK(h)',
           call'[h].pc # "initializing",
           call'[h].op = "Webhook" => call'[h].pc \notin {"deciding", "staged"},
           booking' \in BookingState,
           calls' \in Nat, faults' \in Nat, refusals' \in Nat
    PROVE  Inv'
<1>1. TypeOK'
  BY DEF Inv, TypeOK, Outbox, CallState, Places, BookingState
<1>2. NoticeInv'
  BY NoticesKept DEF Outbox
<1>3. \A t \in Txns, s \in Completed : sent'[t][s] > 0 => sent[t][s] > 0
  BY DEF Outbox
<1> QED BY <1>1, <1>2, <1>3, Quiet, StepKeeps

\* The part of the state that most steps leave alone.
LEMMA RestTypes ==
    ASSUME Inv
    PROVE  /\ booking \in BookingState
           /\ calls \in Nat /\ faults \in Nat /\ refusals \in Nat
           /\ calls + 1 \in Nat /\ faults + 1 \in Nat /\ refusals + 1 \in Nat
           /\ TypeOK
<1>1. TypeOK
  BY DEF Inv
<1> QED BY <1>1 DEF TypeOK, BookingState

LEMMA BeginInitializeKeeps ==
    ASSUME Inv, NEW h \in Handlers, BeginInitialize(h)
    PROVE  Inv'
<1>0. PICK seen \in {"quote_accepted", "payment_pending"} :
         call' = [call EXCEPT ![h] = [Idle EXCEPT !.op = "Initialize", !.pc = "looking",
                                                  !.seen = seen]]
  BY DEF BeginInitialize
<1>1. PICK d : /\ d = [Idle EXCEPT !.op = "Initialize", !.pc = "looking", !.seen = seen]
               /\ call' = [call EXCEPT ![h] = d]
  BY <1>0
<1>2. UNCHANGED <<txn, attempt, order, Outbox>> /\ UNCHANGED <<booking, faults, refusals>>
      /\ calls' = calls + 1 /\ call' = [call EXCEPT ![h] = d]
  BY <1>1 DEF BeginInitialize
<1>3. d \in CallState /\ d.pc = "looking" /\ d.a = 0 /\ d.op = "Initialize"
  BY <1>1, IdleState DEF CallState, Places
<1>4. call' \in [Handlers -> CallState] /\ call'[h] = d /\ \A g \in Handlers \ {h} : call'[g] = call[g]
  BY <1>2, <1>3, RestTypes, Shapes
<1>5. CallOK(h)'
  BY <1>3, <1>4 DEF CallOK, Starting, AboutAttempt
<1> QED BY <1>2, <1>3, <1>4, <1>5, RestTypes, QuietKeeps

LEMMA LookupKeeps ==
    ASSUME Inv, NEW h \in Handlers, Lookup(h)
    PROVE  Inv'
<1>0. PICK c : c = call[h]
  OBVIOUS
<1>1. UNCHANGED <<txn, attempt, order, Outbox>> /\ UNCHANGED <<booking, calls, faults, refusals>>
  BY DEF Lookup, Bounds
<1>2. c \in CallState /\ c.pc = "looking" /\ c.a = 0 /\ call \in [Handlers -> CallState]
  BY <1>0, RestTypes, Shapes DEF Lookup, At, Inv, CallInv, CallOK, Starting
<1>3. ASSUME NEW t \in Pending,
             call' = [call EXCEPT ![h].t = t, ![h].row = txn[t], ![h].pc = "resolving"]
      PROVE  Inv'
  <2>1. PICK d : d = [c EXCEPT !.t = t, !.row = txn[t], !.pc = "resolving"]
    OBVIOUS
  <2>2. t \in MadeTxns /\ txn[t] \in TxnRow
    BY RestTypes, Shapes DEF Pending, MadeTxns
  <2>3. d \in CallState /\ d.t = t /\ d.row = txn[t] /\ d.pc = "resolving" /\ d.a = 0
    BY <1>2, <2>1, <2>2 DEF CallState, Places, MadeTxns
  <2>4. /\ call' \in [Handlers -> CallState] /\ call'[h] = d
        /\ \A g \in Handlers \ {h} : call'[g] = call[g]
    <3>1. call' = [call EXCEPT ![h] = d]
      BY <1>0, <1>2, <1>3, <2>1
    <3> QED BY <1>2, <2>3, <3>1
  <2>5. PICK row : row = txn[t]
    OBVIOUS
  <2>6. Good(t, row) /\ Grows
    BY <1>1, <2>2, <2>5, Quiet DEF Inv, RowInv
  <2>7. Good(d.t, d.row)' /\ d.t \in MadeTxns'
    BY <2>2, <2>3, <2>5, <2>6, GoodStays, MadeStays
  <2>8. CallOK(h)'
    BY <2>3, <2>4, <2>7, WentOn DEF Starting, AboutAttempt
  <2> QED BY <1>1, <2>3, <2>4, <2>8, RestTypes, QuietKeeps
<1>4. ASSUME Goto(h, "creating") PROVE Inv'
  <2>1. /\ call' \in [Handlers -> CallState] /\ call'[h] = [c EXCEPT !.pc = "creating"]
        /\ \A g \in Handlers \ {h} : call'[g] = call[g]
    BY <1>0, <1>4, RestTypes, Moves DEF Places
  <2>2. call'[h].pc = "creating" /\ call'[h].a = 0
    BY <1>2, <2>1 DEF CallState
  <2>3. CallOK(h)'
    BY <2>2 DEF CallOK, Starting, AboutAttempt
  <2> QED BY <1>1, <2>1, <2>2, <2>3, RestTypes, QuietKeeps
<1>5. ASSUME Finish(h) PROVE Inv'
  BY <1>1, <1>5, RestTypes, Moves, IdleState, Finished, QuietKeeps
<1> QED BY <1>3, <1>4, <1>5 DEF Lookup

\* Finish and a place without conditions, after a step that leaves the tables alone.
LEMMA QuietFinish ==
    ASSUME Inv, NEW h \in Handlers, UNCHANGED <<txn, attempt, order, Outbox>>, Finish(h),
           booking' \in BookingState,
           calls' \in Nat, faults' \in Nat, refusals' \in Nat
    PROVE  Inv'
BY RestTypes, Moves, IdleState, Finished, QuietKeeps

Free == {"resolving", "reserving", "flagging", "clearing", "attempting", "noting", "releasing"}

\* A handler that is past its beginning goes on with what it carries.
LEMMA GoneOn ==
    ASSUME Inv, Grows, NEW h \in Handlers, NEW pc \in Places, Goto(h, pc),
           pc \in Free \/ (pc \in AboutAttempt /\ call[h].a # 0),
           call[h].pc \notin Starting \cup {"settling"},
           pc \notin {"settling", "deciding", "initializing", "saving"}
    PROVE  CallOK(h)' /\ call'[h].pc = pc /\ call'[h].op = call[h].op
<1>1. PICK c : c = call[h]
  OBVIOUS
<1>2. /\ c \in CallState /\ c.t \in MadeTxns' /\ Good(c.t, c.row)'
      /\ c.a # 0 => Mine(c.t, c.a)'
  BY <1>1, Carried
<1>3. PICK d : d = [c EXCEPT !.pc = pc]
  OBVIOUS
<1>4. call'[h] = d
  BY <1>1, <1>3, RestTypes, Moves
<1>5. d.pc = pc /\ d.t = c.t /\ d.row = c.row /\ d.a = c.a /\ d.op = c.op
  BY <1>2, <1>3 DEF CallState
<1>6. Good(d.t, d.row)' /\ (d.a # 0 => Mine(d.t, d.a)')
  BY <1>2, <1>5
<1>7. CallOK(h)'
  BY <1>1, <1>2, <1>4, <1>5, <1>6, WentOn DEF Starting, AboutAttempt, Free
<1> QED BY <1>1, <1>4, <1>5, <1>7

LEMMA QuietGoto ==
    ASSUME Inv, NEW h \in Handlers, NEW pc \in Places, Goto(h, pc),
           UNCHANGED <<txn, attempt, order, Outbox>>,
           pc \in Free \/ (pc \in AboutAttempt /\ call[h].a # 0),
           call[h].pc \notin Starting \cup {"settling"},
           pc \notin {"settling", "deciding", "initializing", "saving"},
           booking' \in BookingState,
           calls' \in Nat, faults' \in Nat, refusals' \in Nat
    PROVE  Inv'
<1>1. Grows
  BY Quiet
<1>2. CallOK(h)' /\ call'[h].pc = pc
  BY <1>1, GoneOn
<1>3. /\ call' \in [Handlers -> CallState]
      /\ \A g \in Handlers \ {h} : call'[g] = call[g]
  BY RestTypes, Moves
<1>4. pc \notin {"deciding", "staged", "initializing"}
  BY DEF Free, AboutAttempt
<1> QED BY <1>2, <1>3, <1>4, QuietKeeps

LEMMA CrashKeeps ==
    ASSUME Inv, NEW h \in Handlers, Crash(h)
    PROVE  Inv'
BY RestTypes, QuietFinish DEF Crash, Fault

LEMMA StatementFailsKeeps ==
    ASSUME Inv, NEW h \in Handlers, StatementFails(h)
    PROVE  Inv'
<1>1. PICK pc : pc = After[call[h].pc]
  OBVIOUS
<1>2. /\ pc \in Free /\ pc \in Places
      /\ call[h].pc \notin Starting \cup {"settling"}
      /\ pc \notin {"settling", "deciding", "initializing", "saving"}
  BY <1>1 DEF StatementFails, After, Free, Places, Starting
<1>3. Goto(h, pc) /\ UNCHANGED <<txn, attempt, order, Outbox>>
  BY <1>1 DEF StatementFails
<1>4. booking' = booking /\ calls' = calls /\ refusals' = refusals /\ faults' = faults + 1
  BY DEF StatementFails, Fault
<1> QED BY <1>2, <1>3, <1>4, RestTypes, QuietGoto

LEMMA ReserveKeeps ==
    ASSUME Inv, NEW h \in Handlers, Reserve(h)
    PROVE  Inv'
<1>1. /\ UNCHANGED <<txn, attempt, order, Outbox>> /\ UNCHANGED <<calls, refusals>>
      /\ call[h].pc = "reserving" /\ (faults' = faults \/ faults' = faults + 1)
  BY DEF Reserve, Fault, At
<1>2. \E pc \in {"clearing", "attempting", "flagging"} : Goto(h, pc)
  BY DEF Reserve
<1>3. booking' = booking \/ booking' = ReservedFor(call[h].t)
  BY DEF Reserve
<1>4. call[h].t \in Txns
  BY <1>1, RestTypes, Shapes DEF Inv, CallInv, CallOK, Starting, MadeTxns
<1>5. booking' \in BookingState
  <2>1. [status |-> "payment_pending", reservation |-> call[h].t, lapsed |-> FALSE]
           \in BookingState
    BY <1>4 DEF BookingState
  <2> QED BY <1>3, <2>1, RestTypes DEF ReservedFor
<1> QED BY <1>1, <1>2, <1>5, RestTypes, QuietGoto DEF Free, Places, Starting

LEMMA ReleaseKeeps ==
    ASSUME Inv, NEW h \in Handlers, Release(h)
    PROVE  Inv'
<1>1. /\ UNCHANGED <<txn, attempt, order, Outbox>> /\ UNCHANGED <<calls, refusals, faults>>
      /\ call[h].pc = "releasing"
  BY DEF Release, Bounds, At
<1>2. Finish(h) \/ Goto(h, "flagging")
  BY DEF Release
<1>3. booking' = booking \/ booking' = Freed
  BY DEF Release
<1>4. booking' \in BookingState
  <2>1. Freed \in BookingState
    BY DEF Freed, BookingState
  <2> QED BY <1>3, <2>1, RestTypes
<1> QED
  BY <1>1, <1>2, <1>4, RestTypes, QuietFinish, QuietGoto DEF Free, Places, Starting

\* What stands in the row of a transaction is good, and so is its current attempt.
LEMMA RowRead ==
    ASSUME Inv, Grows, NEW t \in MadeTxns, NEW row, row = txn[t]
    PROVE  /\ row \in TxnRow /\ Good(t, row)'
           /\ row.current # 0 => Mine(t, row.current)'
BY GoodStays DEF Inv, RowInv, Good

LEMMA ResolveKeeps ==
    ASSUME Inv, NEW h \in Handlers, Resolve(h)
    PROVE  Inv'
<1>1. PICK c, row, a, s :
        /\ c = call[h] /\ row = txn[c.t]
        /\ a = (IF c.row.current = 0 THEN 0 ELSE row.current)
        /\ s = (IF a = 0 THEN "none" ELSE attempt[a].status)
  OBVIOUS
<1> DEFINE pc == IF s \in Live THEN "cancelling" ELSE "reserving"
<1>2. PICK d : d = [c EXCEPT !.a = a, !.mine = s, !.pc = pc]
  OBVIOUS
<1>3. /\ UNCHANGED <<txn, attempt, order, Outbox>> /\ UNCHANGED <<booking, calls, faults, refusals>>
      /\ c.pc = "resolving" /\ call' = [call EXCEPT ![h] = d]
  BY <1>1, <1>2 DEF Resolve, Bounds, At
<1>4. Grows
  BY <1>3, Quiet
<1>5. c \in CallState /\ c.t \in MadeTxns /\ c.t \in MadeTxns' /\ Good(c.t, c.row)'
  BY <1>1, <1>3, <1>4, Carried DEF Starting
<1>6. a \in Attempts \cup {0} /\ (a # 0 => Mine(c.t, a)')
  BY <1>1, <1>4, <1>5, RowRead DEF TxnRow
<1>7. s \in AttemptStatus
  BY <1>1, <1>6, RestTypes, Shapes DEF AttemptRow, AttemptStatus
<1>8. /\ d \in CallState /\ d.t = c.t /\ d.row = c.row /\ d.a = a
      /\ d.pc \in {"cancelling", "reserving"} /\ (d.pc = "cancelling" => a # 0)
  <2>1. pc \in {"cancelling", "reserving"} /\ (pc = "cancelling" => a # 0)
    BY <1>1 DEF Live
  <2> HIDE DEF pc
  <2> QED BY <1>2, <1>5, <1>6, <1>7, <2>1 DEF CallState, Places
<1>9. /\ call' \in [Handlers -> CallState] /\ call'[h] = d
      /\ \A g \in Handlers \ {h} : call'[g] = call[g]
  BY <1>3, <1>8, RestTypes, Shapes
<1>10. CallOK(h)'
  <2>1. Good(d.t, d.row)' /\ (d.a # 0 => Mine(d.t, d.a)') /\ d.t \in MadeTxns'
    BY <1>5, <1>6, <1>8
  <2> QED BY <1>8, <1>9, <2>1, WentOn DEF Starting, AboutAttempt
<1> QED BY <1>3, <1>8, <1>9, <1>10, RestTypes, QuietKeeps

\* A handler that knows what is to become of the attempt it asked about.
LEMMA Replacing ==
    ASSUME Inv, Grows, NEW h \in Handlers, NEW s \in {"cancelled", "superseded", "failed"},
           call[h].pc \in {"cancelling", "verifying"},
           call' = [call EXCEPT ![h].mine = s, ![h].pc = "saving"]
    PROVE  /\ CallOK(h)' /\ call' \in [Handlers -> CallState] /\ call'[h].pc = "saving"
           /\ \A g \in Handlers \ {h} : call'[g] = call[g]
<1>1. PICK c : c = call[h]
  OBVIOUS
<1>2. PICK d : d = [c EXCEPT !.mine = s, !.pc = "saving"]
  OBVIOUS
<1>3. /\ c \in CallState /\ c.t \in MadeTxns' /\ Good(c.t, c.row)'
      /\ c.a # 0 /\ Mine(c.t, c.a)'
  BY <1>1, Carried DEF Starting, AboutAttempt
<1>4. /\ d \in CallState /\ d.t = c.t /\ d.row = c.row /\ d.a = c.a /\ d.mine = s
      /\ d.pc = "saving"
  BY <1>2, <1>3 DEF CallState, Places, AttemptStatus
<1>5. call' = [call EXCEPT ![h] = d]
  BY <1>1, <1>2
<1>6. /\ call' \in [Handlers -> CallState] /\ call'[h] = d
      /\ \A g \in Handlers \ {h} : call'[g] = call[g]
  BY <1>4, <1>5, RestTypes, Shapes
<1>7. Good(d.t, d.row)' /\ Mine(d.t, d.a)' /\ d.t \in MadeTxns' /\ d.a # 0
  BY <1>3, <1>4
<1>8. CallOK(h)'
  BY <1>4, <1>6, <1>7 DEF CallOK, Starting
<1> QED BY <1>4, <1>6, <1>8

LEMMA VerifyKeeps ==
    ASSUME Inv, NEW h \in Handlers, Verify(h)
    PROVE  Inv'
<1>1. PICK c : c = call[h]
  OBVIOUS
<1>2. /\ UNCHANGED <<txn, attempt, order, Outbox>> /\ UNCHANGED <<booking, calls, faults>>
      /\ refusals' \in Nat /\ c.pc = "verifying"
  BY <1>1, RestTypes DEF Verify, At, Refusal
<1>3. Grows
  BY <1>2, Quiet
<1>4. /\ c \in CallState /\ c.t \in MadeTxns' /\ Good(c.t, c.row)'
      /\ c.a # 0 /\ Mine(c.t, c.a)'
  BY <1>1, <1>2, <1>3, Carried DEF Starting, AboutAttempt
<1>5. CASE /\ Verified(c.a) = "successful"
           /\ call' = [call EXCEPT ![h].outcome = "successful", ![h].pc = "settling"]
  <2>1. order[c.a] = "paid"
    BY <1>5 DEF Verified, classifyProviderVerificationStatus
  <2>2. PICK d : d = [c EXCEPT !.outcome = "successful", !.pc = "settling"]
    OBVIOUS
  <2>3. /\ d \in CallState /\ d.t = c.t /\ d.a = c.a /\ d.outcome = "successful"
        /\ d.pc = "settling"
    BY <1>4, <2>2 DEF CallState, Places, Completed
  <2>4. call' = [call EXCEPT ![h] = d]
    BY <1>1, <1>5, <2>2
  <2>5. /\ call' \in [Handlers -> CallState] /\ call'[h] = d
        /\ \A g \in Handlers \ {h} : call'[g] = call[g]
    BY <2>3, <2>4, RestTypes, Shapes
  <2>6. Mine(d.t, d.a)' /\ d.t \in MadeTxns' /\ d.a # 0 /\ order'[d.a] \in Final[d.outcome]
    BY <1>2, <1>4, <2>1, <2>3 DEF Final, Completed
  <2>7. CallOK(h)'
    BY <2>3, <2>5, <2>6 DEF CallOK, Starting, Completed
  <2> QED BY <1>2, <2>3, <2>5, <2>7, RestTypes, QuietKeeps
<1>6. CASE \E s \in {"cancelled", "superseded", "failed"} :
              call' = [call EXCEPT ![h].mine = s, ![h].pc = "saving"]
  BY <1>1, <1>2, <1>3, <1>6, RestTypes, Replacing, QuietKeeps
<1> QED BY <1>1, <1>5, <1>6 DEF Verify

\* The notices when h comes to hold the webhook of an attempt.
LEMMA ReadTxnKeeps ==
    ASSUME Inv, NEW h \in Handlers, ReadTxn(h)
    PROVE  Inv'
<1>1. PICK c : c = call[h]
  OBVIOUS
<1>2. /\ UNCHANGED <<txn, attempt, order, Outbox>> /\ UNCHANGED <<booking, calls, faults, refusals>>
      /\ c.pc = "settling"
  BY <1>1 DEF ReadTxn, Bounds, At
<1>3. CASE Finish(h)
  BY <1>2, <1>3, RestTypes, QuietFinish
<1>4. CASE /\ NoticeIsNew(h) /\ ~NoticeIsHeld(h)
           /\ call' = [call EXCEPT ![h].row = txn[call[h].t], ![h].pc = "deciding"]
  <2>1. PICK row : row = txn[c.t]
    OBVIOUS
  <2>2. PICK d : d = [c EXCEPT !.row = row, !.pc = "deciding"]
    OBVIOUS
  <2>3. Grows /\ OrdersKept(h) /\ Numbered' /\ RowInv' /\ AttemptInv'
    BY <1>2, Quiet
  <2>4. /\ c \in CallState /\ c.t \in MadeTxns /\ c.t \in MadeTxns'
        /\ c.a # 0 /\ Mine(c.t, c.a)'
        /\ c.outcome \in Completed /\ order[c.a] \in Final[c.outcome]
    BY <1>1, <1>2, <2>3, Carried DEF Starting, AboutAttempt
  <2>5. row \in TxnRow /\ Good(c.t, row)'
    BY <2>1, <2>3, <2>4, RowRead
  <2>6. /\ d \in CallState /\ d.t = c.t /\ d.a = c.a /\ d.row = row
        /\ d.outcome = c.outcome /\ d.pc = "deciding" /\ d.op = c.op
    BY <2>2, <2>4, <2>5 DEF CallState, Places
  <2>7. call' = [call EXCEPT ![h] = d]
    BY <1>1, <1>4, <2>1, <2>2
  <2>8. /\ call' \in [Handlers -> CallState] /\ call'[h] = d
        /\ \A g \in Handlers \ {h} : call'[g] = call[g]
    BY <2>6, <2>7, RestTypes, Shapes
  <2>9. CallOK(h)'
    <3>1. /\ Good(d.t, d.row)' /\ Mine(d.t, d.a)' /\ d.t \in MadeTxns' /\ d.a # 0
          /\ d.outcome \in Completed /\ order'[d.a] \in Final[d.outcome]
      BY <1>2, <2>4, <2>5, <2>6
    <3> QED BY <2>6, <2>8, <3>1 DEF CallOK, Starting
  <2>10. NoticeInv'
    <3>1. c.op = "Webhook" => c.a \notin recorded
      BY <1>1, <1>4 DEF NoticeIsNew
    <3>2. ASSUME NEW g \in Handlers \ {h}, Holds(g, c.a), c.op = "Webhook" PROVE FALSE
      <4>1. c.a \in Attempts
        BY <2>4 DEF CallState
      <4>2. ~At(g, "deciding")
        BY <1>1, <1>4, <3>2 DEF NoticeIsHeld, Holds
      <4> QED BY <3>1, <3>2, <4>1, <4>2 DEF Inv, NoticeInv
    <3>3. \A g \in Handlers \ {h}, a \in Attempts : Holds(g, a)' <=> Holds(g, a)
      BY <2>8 DEF Holds
    <3>4. \A a \in Attempts : Holds(h, a)' <=> c.op = "Webhook" /\ a = c.a
      BY <2>6, <2>8 DEF Holds
    <3>5. ASSUME NEW a \in Attempts, NEW g \in Handlers, NEW f \in Handlers,
                 Holds(g, a)', Holds(f, a)'
          PROVE  g = f
      <4>1. CASE g # h /\ f # h
        BY <3>3, <3>5, <4>1 DEF Inv, NoticeInv
      <4>2. CASE g = h \/ f = h
        BY <3>2, <3>3, <3>4, <3>5, <4>2
      <4> QED BY <4>1, <4>2
    <3>6. ASSUME NEW a \in Attempts, NEW g \in Handlers, Holds(g, a)'
          PROVE  IF At(g, "deciding")' THEN a \notin recorded ELSE a \in recorded /\ announced[a] = 0
      <4>1. CASE g = h
        BY <2>6, <2>8, <3>1, <3>4, <3>6, <4>1 DEF At
      <4>2. CASE g # h
        BY <2>8, <3>3, <3>6, <4>2 DEF Inv, NoticeInv, At
      <4> QED BY <4>1, <4>2
    <3> QED BY <1>2, <3>5, <3>6 DEF Inv, NoticeInv, Outbox
  <2>11. TypeOK'
    BY <1>2, <2>8, RestTypes DEF TypeOK, Outbox, CallState, Places
  <2> QED BY <1>2, <2>3, <2>6, <2>8, <2>9, <2>10, <2>11, StepKeeps DEF Outbox
<1> QED BY <1>3, <1>4 DEF ReadTxn

LEMMA BeginWebhookKeeps ==
    ASSUME Inv, NEW h \in Handlers, NEW a \in Attempts, BeginWebhook(h, a)
    PROVE  Inv'
<1>1. PICK d : d = [Idle EXCEPT !.op = "Webhook", !.pc = "settling", !.a = a,
                                !.t = attempt[a].txn, !.mine = attempt[a].status,
                                !.outcome = Verified(a)]
  OBVIOUS
<1>2. /\ UNCHANGED <<txn, attempt, order, Outbox>> /\ UNCHANGED <<booking, calls, faults, refusals>>
      /\ call' = [call EXCEPT ![h] = d]
  BY <1>1 DEF BeginWebhook
<1>3. Verified(a) \in Completed /\ order[a] # "none"
  BY DEF BeginWebhook, ParsedWebhook
<1>4. order[a] \in Final[Verified(a)]
  BY <1>3, RestTypes, Shapes
     DEF Verified, classifyProviderVerificationStatus, Final, Completed, OrderStatus
<1>5. a \in MadeAttempts /\ attempt[a].txn \in MadeTxns /\ attempt[a] \in AttemptRow
  BY <1>3, RestTypes, Shapes DEF Inv, AttemptInv
<1>6. Mine(attempt[a].txn, a) /\ a # 0
  BY <1>5, RowNumbers DEF Mine, MadeAttempts
<1>7. /\ d \in CallState /\ d.t = attempt[a].txn /\ d.a = a /\ d.outcome = Verified(a)
      /\ d.pc = "settling" /\ d.op = "Webhook"
  BY <1>1, <1>3, <1>5, IdleState DEF CallState, Places, AttemptRow
<1>8. /\ call' \in [Handlers -> CallState] /\ call'[h] = d
      /\ \A g \in Handlers \ {h} : call'[g] = call[g]
  BY <1>2, <1>7, RestTypes, Shapes
<1>9. CallOK(h)'
  <2>1. Grows
    BY <1>2, Quiet
  <2>2. Mine(d.t, d.a)
    BY <1>6, <1>7
  <2>3. Mine(d.t, d.a)' /\ d.t \in MadeTxns' /\ d.a # 0
    BY <1>5, <1>6, <1>7, <2>1, <2>2, MineStays, MadeStays
  <2>4. d.outcome \in Completed /\ order'[d.a] \in Final[d.outcome]
    BY <1>2, <1>3, <1>4, <1>7
  <2> QED BY <1>7, <1>8, <2>3, <2>4 DEF CallOK, Starting
<1> QED BY <1>2, <1>7, <1>8, <1>9, RestTypes, QuietKeeps

LEMMA BeginRepairKeeps ==
    ASSUME Inv, NEW h \in Handlers, NEW t \in Txns, BeginRepair(h, t)
    PROVE  Inv'
<1>1. PICK row : row = txn[t]
  OBVIOUS
<1>2. PICK d : d = [Idle EXCEPT !.op = "Repair", !.pc = "staged", !.t = t, !.row = row]
  OBVIOUS
<1>3. /\ UNCHANGED <<txn, attempt, order, Outbox>> /\ UNCHANGED <<booking, calls, faults, refusals>>
      /\ call' = [call EXCEPT ![h] = d]
  BY <1>1, <1>2 DEF BeginRepair
<1>4. row.status \in Completed /\ t \in MadeTxns
  BY <1>1 DEF BeginRepair, requiresPaymentStatusEvent, MadeTxns, Completed
<1>5. Grows
  BY <1>3, Quiet
<1>6. row \in TxnRow /\ Good(t, row)' /\ t \in MadeTxns'
  BY <1>1, <1>4, <1>5, RowRead, MadeStays
<1>7. /\ d \in CallState /\ d.t = t /\ d.row = row /\ d.pc = "staged" /\ d.op = "Repair"
      /\ d.a = 0
  BY <1>2, <1>6, IdleState DEF CallState, Places
<1>8. /\ call' \in [Handlers -> CallState] /\ call'[h] = d
      /\ \A g \in Handlers \ {h} : call'[g] = call[g]
  BY <1>3, <1>7, RestTypes, Shapes
<1>9. CallOK(h)'
  <2>1. Good(d.t, d.row)' /\ d.t \in MadeTxns' /\ d.row.status \in Completed
    BY <1>4, <1>6, <1>7
  <2> QED BY <1>7, <1>8, <2>1 DEF CallOK, Starting, AboutAttempt
<1> QED BY <1>3, <1>7, <1>8, <1>9, RestTypes, QuietKeeps

-----------------------------------------------------------------------------
(***************************************************************************)
(* Steps that change an order.                                             *)
(***************************************************************************)

\* Orders that end, or that open, are none of the ended ones.
LEMMA OrderMoves ==
    ASSUME Inv, NEW h \in Handlers, UNCHANGED <<txn, attempt>>,
           \A a \in Attempts : order'[a] # order[a] =>
              /\ order[a] \notin {"paid", "failed", "cancelled"}
              /\ order[a] = "none" => At(h, "initializing") /\ call[h].a = a
    PROVE  Grows /\ OrdersKept(h) /\ Numbered' /\ RowInv' /\ AttemptInv'
<1>1. \A a \in Attempts, s \in Completed : order[a] \in Final[s] => order'[a] \in Final[s]
  BY DEF Final, Completed
<1>2. Grows /\ MadeTxns' = MadeTxns /\ MadeAttempts' = MadeAttempts
  BY <1>1 DEF Grows, MadeTxns, MadeAttempts
<1>3. OrdersKept(h)
  BY DEF OrdersKept
<1>4. ASSUME NEW a \in Attempts, order'[a] # "none" PROVE a \in MadeAttempts
  <2>1. CASE order[a] # "none"
    BY <2>1 DEF Inv, AttemptInv
  <2>2. CASE order[a] = "none"
    <3>1. At(h, "initializing") /\ call[h].a = a /\ a # 0
      BY <1>4, <2>2, RowNumbers
    <3>2. Mine(call[h].t, a)
      BY <3>1 DEF Inv, CallInv, CallOK
    <3> QED BY <3>2 DEF Mine, MadeAttempts
  <2> QED BY <2>1, <2>2
<1> QED BY <1>2, <1>3, <1>4, TablesKept

LEMMA CancelKeeps ==
    ASSUME Inv, NEW h \in Handlers, Cancel(h)
    PROVE  Inv'
<1>1. PICK c : c = call[h]
  OBVIOUS
<1>2. /\ UNCHANGED <<txn, attempt, recorded, sent, announced>>
      /\ UNCHANGED <<booking, calls, faults>>
      /\ refusals' \in Nat /\ c.pc = "cancelling"
  BY <1>1, RestTypes DEF Cancel, At, Refusal, Outbox
<1>3. order' = order \/ order' = OrderCancelled(c.a)
  BY <1>1 DEF Cancel
<1>4. /\ order' \in [Attempts -> OrderStatus]
      /\ \A a \in Attempts : order'[a] # order[a] => order[a] \in {"created", "open"}
  BY <1>3, RestTypes, Shapes DEF OrderCancelled, OrderStatus
<1>5. Grows /\ OrdersKept(h) /\ Numbered' /\ RowInv' /\ AttemptInv'
  BY <1>2, <1>4, OrderMoves
<1>6. /\ CallOK(h)' /\ call' \in [Handlers -> CallState]
      /\ call'[h].pc \in {"saving", "verifying"}
      /\ \A g \in Handlers \ {h} : call'[g] = call[g]
  <2>1. CASE call' = [call EXCEPT ![h].mine = "cancelled", ![h].pc = "saving"]
    BY <1>1, <1>2, <1>5, <2>1, Replacing
  <2>2. CASE Goto(h, "verifying")
    <3>1. c.a # 0
      BY <1>1, <1>2, <1>5, Carried DEF AboutAttempt
    <3>2. CallOK(h)' /\ call'[h].pc = "verifying"
      BY <1>1, <1>2, <1>5, <2>2, <3>1, GoneOn DEF AboutAttempt, Places, Starting
    <3> QED BY <2>2, <3>2, RestTypes, Moves DEF Places
  <2> QED BY <2>1, <2>2 DEF Cancel
<1>7. TypeOK'
  BY <1>2, <1>4, <1>6, RestTypes DEF TypeOK, CallState, Places
<1>8. NoticeInv'
  BY <1>2, <1>6, NoticesKept
<1> QED BY <1>2, <1>5, <1>6, <1>7, <1>8, StepKeeps

LEMMA InitializeOrderKeeps ==
    ASSUME Inv, NEW h \in Handlers, InitializeOrder(h)
    PROVE  Inv'
<1>1. PICK c : c = call[h]
  OBVIOUS
<1>2. /\ UNCHANGED <<txn, attempt, recorded, sent, announced>>
      /\ UNCHANGED <<booking, calls, faults>>
      /\ refusals' \in Nat /\ c.pc = "initializing" /\ At(h, "initializing")
  BY <1>1, RestTypes DEF InitializeOrder, At, Refusal, Outbox
<1>3. order' = order \/ order' = OrderCreated(c.a)
  BY <1>1 DEF InitializeOrder
<1>4. order[c.a] = "none"
  BY <1>1, <1>2 DEF Inv, CallInv, CallOK
<1>5. /\ order' \in [Attempts -> OrderStatus]
      /\ \A a \in Attempts : order'[a] # order[a] => a = c.a
  BY <1>3, RestTypes, Shapes DEF OrderCreated, OrderStatus
<1>6. Grows /\ OrdersKept(h) /\ Numbered' /\ RowInv' /\ AttemptInv'
  BY <1>1, <1>2, <1>4, <1>5, OrderMoves
<1>7. PICK pc \in {"activating", "initFailed"} : Goto(h, pc)
  BY DEF InitializeOrder
<1>8. c.a # 0
  BY <1>1, <1>2, <1>6, Carried DEF AboutAttempt
<1>9. CallOK(h)' /\ call'[h].pc = pc
  BY <1>1, <1>2, <1>6, <1>7, <1>8, GoneOn DEF AboutAttempt, Places, Starting
<1>10. /\ call' \in [Handlers -> CallState]
       /\ \A g \in Handlers \ {h} : call'[g] = call[g]
  BY <1>7, RestTypes, Moves DEF Places
<1>11. TypeOK'
  BY <1>2, <1>5, <1>10, RestTypes DEF TypeOK, CallState, Places
<1>12. NoticeInv'
  BY <1>2, <1>9, <1>10, NoticesKept
<1> QED BY <1>2, <1>6, <1>9, <1>10, <1>11, <1>12, StepKeeps

-----------------------------------------------------------------------------
(***************************************************************************)
(* Steps that save a row or an attempt.                                    *)
(***************************************************************************)

LEMMA RowSaved ==
    ASSUME Inv, NEW h \in Handlers, NEW t \in MadeTxns, NEW row, Good(t, row),
           txn' = Saved(t, row), attempt' = attempt,
           \A a \in Attempts : order'[a] # order[a] => order[a] = "created"
    PROVE  /\ Grows /\ OrdersKept(h) /\ Numbered' /\ RowInv' /\ AttemptInv'
           /\ txn' \in [Txns -> TxnRow] /\ Good(t, row)'
<1>1. txn \in [Txns -> TxnRow] /\ t \in Txns /\ row \in TxnRow /\ row.status # "none"
  BY RestTypes, Shapes DEF MadeTxns, Good
<1>2. txn' \in [Txns -> TxnRow] /\ \A u \in Txns : txn'[u] = txn[u] \/ (u = t /\ txn'[u] = row)
  BY <1>1 DEF Saved
<1>3. MadeTxns' = MadeTxns /\ MadeAttempts' = MadeAttempts
  BY <1>1, <1>2 DEF MadeTxns, MadeAttempts
<1>4. Grows /\ OrdersKept(h)
  BY <1>1, <1>2 DEF Grows, OrdersKept, MadeTxns, MadeAttempts, Final, Completed
<1>5. Good(t, row)'
  BY <1>4, GoodStays
<1>6. \A u \in MadeTxns : txn'[u] = txn[u] \/ Good(u, txn[u])'
  <2>1. ASSUME NEW u \in MadeTxns, txn'[u] # txn[u] PROVE Good(u, txn[u])'
    <3>1. u = t /\ txn'[u] = row
      BY <1>2, <2>1 DEF MadeTxns
    <3> QED BY <1>5, <3>1
  <2> QED BY <2>1
<1>7. \A a \in Attempts : order'[a] # "none" => a \in MadeAttempts
  BY DEF Inv, AttemptInv
<1> QED BY <1>2, <1>3, <1>4, <1>5, <1>6, <1>7, TablesKept

\* Copies that differ in nothing but the marks.
LEMMA Marked ==
    ASSUME Inv, NEW t, NEW row, Good(t, row)
    PROVE  /\ \A b \in BOOLEAN : Good(t, [row EXCEPT !.repair = b])
           /\ row.status \in Completed => Good(t, [row EXCEPT !.marked = row.status])
BY DEF Good, TxnRow

\* The saves with which a call ends.
LEMMA SavedAndFinished ==
    ASSUME Inv, NEW h \in Handlers, NEW t \in MadeTxns, NEW row, Good(t, row),
           txn' = Saved(t, row), UNCHANGED <<attempt, Outbox, booking>>, Finish(h),
           order' \in [Attempts -> OrderStatus],
           \A a \in Attempts : order'[a] # order[a] => order[a] = "created",
           calls' = calls, faults' = faults, refusals' = refusals
    PROVE  Inv'
<1>1. /\ Grows /\ OrdersKept(h) /\ Numbered' /\ RowInv' /\ AttemptInv'
      /\ txn' \in [Txns -> TxnRow]
  BY RowSaved
<1>2. /\ call' \in [Handlers -> CallState] /\ call'[h] = Idle
      /\ \A g \in Handlers \ {h} : call'[g] = call[g]
  BY RestTypes, Moves
<1>3. CallOK(h)' /\ call'[h].pc = "idle"
  BY <1>2, Finished, IdleState
<1>4. TypeOK'
  BY <1>1, <1>2, RestTypes DEF TypeOK, CallState, Places, Outbox
<1>5. NoticeInv'
  BY <1>2, <1>3, NoticesKept DEF Outbox
<1> QED BY <1>1, <1>2, <1>3, <1>4, <1>5, StepKeeps DEF Outbox

LEMMA FlagKeeps ==
    ASSUME Inv, NEW h \in Handlers, Flag(h)
    PROVE  Inv'
<1>1. PICK c : c = call[h]
  OBVIOUS
<1>2. /\ UNCHANGED <<attempt, Outbox, order, booking>> /\ UNCHANGED <<calls, faults, refusals>>
      /\ c.pc = "flagging" /\ Finish(h) /\ txn' = Saved(c.t, [c.row EXCEPT !.repair = TRUE])
  BY <1>1 DEF Flag, At, Bounds
<1>3. c.t \in MadeTxns /\ Good(c.t, c.row)
  BY <1>1, <1>2 DEF Inv, CallInv, CallOK, Starting
<1>4. Good(c.t, [c.row EXCEPT !.repair = TRUE])
  BY <1>3, Marked
<1>5. order' \in [Attempts -> OrderStatus]
  BY <1>2, RestTypes, Shapes
<1> QED BY <1>2, <1>3, <1>4, <1>5, SavedAndFinished

LEMMA MarkKeeps ==
    ASSUME Inv, NEW h \in Handlers, Mark(h)
    PROVE  Inv'
<1>1. PICK c : c = call[h]
  OBVIOUS
<1>2. /\ UNCHANGED <<attempt, Outbox, order, booking>> /\ UNCHANGED <<calls, faults, refusals>>
      /\ c.pc = "marking" /\ Finish(h)
      /\ txn' = Saved(c.t, [c.row EXCEPT !.marked = c.row.status])
  BY <1>1 DEF Mark, At, Bounds
<1>3. c.t \in MadeTxns /\ Good(c.t, c.row) /\ c.row.status \in Completed
  BY <1>1, <1>2 DEF Inv, CallInv, CallOK, Starting
<1>4. Good(c.t, [c.row EXCEPT !.marked = c.row.status])
  BY <1>3, Marked
<1>5. order' \in [Attempts -> OrderStatus]
  BY <1>2, RestTypes, Shapes
<1> QED BY <1>2, <1>3, <1>4, <1>5, SavedAndFinished

LEMMA ReturnLinkKeeps ==
    ASSUME Inv, NEW h \in Handlers, ReturnLink(h)
    PROVE  Inv'
<1>1. PICK c : c = call[h]
  OBVIOUS
<1>2. /\ UNCHANGED <<attempt, Outbox, booking>> /\ UNCHANGED <<calls, faults, refusals>>
      /\ c.pc = "activated" /\ Finish(h) /\ txn' = Saved(c.t, c.row)
  BY <1>1 DEF ReturnLink, At, Bounds
<1>3. c.t \in MadeTxns /\ Good(c.t, c.row)
  BY <1>1, <1>2 DEF Inv, CallInv, CallOK, Starting
<1>4. order' = order
      \/ order' = [order EXCEPT ![c.a] = IF order[c.a] = "created" THEN "open" ELSE order[c.a]]
  BY <1>1 DEF ReturnLink
<1>5. /\ order' \in [Attempts -> OrderStatus]
      /\ \A a \in Attempts : order'[a] # order[a] => order[a] = "created"
  BY <1>4, RestTypes, Shapes DEF OrderStatus
<1> QED BY <1>2, <1>3, <1>5, SavedAndFinished

LEMMA NoteInitFailedKeeps ==
    ASSUME Inv, NEW h \in Handlers, NoteInitFailed(h)
    PROVE  Inv'
<1>1. PICK c : c = call[h]
  OBVIOUS
<1>2. /\ UNCHANGED <<attempt, Outbox, order, booking>> /\ UNCHANGED <<calls, faults, refusals>>
      /\ c.pc = "noting" /\ Goto(h, "releasing") /\ txn' = Saved(c.t, c.row)
  BY <1>1 DEF NoteInitFailed, At, Bounds
<1>3. c.t \in MadeTxns /\ Good(c.t, c.row)
  BY <1>1, <1>2 DEF Inv, CallInv, CallOK, Starting
<1>4. /\ Grows /\ OrdersKept(h) /\ Numbered' /\ RowInv' /\ AttemptInv'
      /\ txn' \in [Txns -> TxnRow]
  BY <1>2, <1>3, RowSaved
<1>5. CallOK(h)' /\ call'[h].pc = "releasing"
  BY <1>1, <1>2, <1>4, GoneOn DEF Free, Places, Starting
<1>6. /\ call' \in [Handlers -> CallState]
      /\ \A g \in Handlers \ {h} : call'[g] = call[g]
  BY <1>2, RestTypes, Moves DEF Places
<1>7. TypeOK'
  BY <1>2, <1>4, <1>6, RestTypes DEF TypeOK, CallState, Places, Outbox
<1>8. NoticeInv'
  BY <1>2, <1>5, <1>6, NoticesKept DEF Outbox
<1> QED BY <1>2, <1>4, <1>5, <1>6, <1>7, <1>8, StepKeeps DEF Outbox

LEMMA ClearFlagKeeps ==
    ASSUME Inv, NEW h \in Handlers, ClearFlag(h)
    PROVE  Inv'
<1>1. PICK c, row : c = call[h] /\ row = [c.row EXCEPT !.repair = FALSE]
  OBVIOUS
<1>2. PICK d : d = [c EXCEPT !.row = row, !.pc = "attempting"]
  OBVIOUS
<1>3. /\ UNCHANGED <<attempt, Outbox, order, booking>> /\ UNCHANGED <<calls, faults, refusals>>
      /\ c.pc = "clearing" /\ txn' = Saved(c.t, row) /\ call' = [call EXCEPT ![h] = d]
  BY <1>1, <1>2 DEF ClearFlag, At, Bounds
<1>4. c.t \in MadeTxns /\ Good(c.t, c.row)
  BY <1>1, <1>3 DEF Inv, CallInv, CallOK, Starting
<1>5. Good(c.t, row)
  BY <1>1, <1>4, Marked
<1>6. /\ Grows /\ OrdersKept(h) /\ Numbered' /\ RowInv' /\ AttemptInv'
      /\ txn' \in [Txns -> TxnRow] /\ Good(c.t, row)'
  BY <1>3, <1>4, <1>5, RowSaved
<1>7. c \in CallState /\ (c.a # 0 => Mine(c.t, c.a)') /\ c.t \in MadeTxns'
  BY <1>1, <1>3, <1>6, Carried DEF Starting
<1>8. /\ d \in CallState /\ d.t = c.t /\ d.row = row /\ d.a = c.a /\ d.pc = "attempting"
  BY <1>2, <1>5, <1>7 DEF CallState, Places, Good
<1>9. /\ call' \in [Handlers -> CallState] /\ call'[h] = d
      /\ \A g \in Handlers \ {h} : call'[g] = call[g]
  BY <1>3, <1>8, RestTypes, Shapes
<1>10. CallOK(h)'
  <2>1. Good(d.t, d.row)' /\ (d.a # 0 => Mine(d.t, d.a)') /\ d.t \in MadeTxns'
    BY <1>6, <1>7, <1>8
  <2> QED BY <1>8, <1>9, <2>1, WentOn DEF Starting, AboutAttempt
<1>11. TypeOK'
  BY <1>3, <1>6, <1>9, RestTypes DEF TypeOK, CallState, Places, Outbox
<1>12. NoticeInv'
  BY <1>3, <1>8, <1>9, NoticesKept DEF Outbox
<1> QED BY <1>3, <1>6, <1>8, <1>9, <1>10, <1>11, <1>12, StepKeeps DEF Outbox

\* An attempt of the handler's transaction is saved, and the handler goes on or ends.
LEMMA AttemptSaved ==
    ASSUME Inv, NEW h \in Handlers, NEW a, NEW s \in AttemptStatus \ {"none"},
           a = call[h].a, call[h].pc \in AboutAttempt \ {"settling"},
           attempt' = SavedAttempt(a, s),
           UNCHANGED <<txn, order, Outbox, booking>>, UNCHANGED <<calls, faults, refusals>>,
           Finish(h) \/ \E pc \in {"reserving", "noting", "activated"} : Goto(h, pc)
    PROVE  Inv'
<1>1. Mine(call[h].t, a) /\ a \in Attempts
  BY DEF Inv, CallInv, CallOK, Mine
<1>2. /\ attempt' \in [Attempts -> AttemptRow]
      /\ \A b \in Attempts : /\ attempt'[b].txn = attempt[b].txn
                             /\ attempt'[b].status = attempt[b].status \/ (b = a /\ attempt'[b].status = s)
  <2>1. attempt \in [Attempts -> AttemptRow]
    BY RestTypes, Shapes
  <2>2. attempt' = attempt \/ attempt' = [attempt EXCEPT ![a].status = s]
    BY DEF SavedAttempt
  <2>3. CASE attempt' = [attempt EXCEPT ![a].status = s]
    <3>1. attempt' = [attempt EXCEPT ![a] = [attempt[a] EXCEPT !.status = s]]
      BY <1>1, <2>1, <2>3
    <3>2. PICK r : r = [attempt[a] EXCEPT !.status = s]
      OBVIOUS
    <3>3. r \in AttemptRow /\ r.txn = attempt[a].txn /\ r.status = s
      BY <1>1, <2>1, <3>2 DEF AttemptRow
    <3> QED BY <1>1, <2>1, <3>1, <3>2, <3>3
  <2> QED BY <2>1, <2>2, <2>3
<1>3. MadeTxns' = MadeTxns /\ MadeAttempts' = MadeAttempts
  BY <1>1, <1>2 DEF MadeTxns, MadeAttempts, Mine
<1>4. Grows /\ OrdersKept(h)
  BY <1>1, <1>2 DEF Grows, OrdersKept, MadeTxns, MadeAttempts, Mine
<1>5. \A b \in Attempts : order'[b] # "none" => b \in MadeAttempts
  BY DEF Inv, AttemptInv
<1>6. Numbered' /\ RowInv' /\ AttemptInv'
  BY <1>3, <1>4, <1>5, TablesKept
<1>7. /\ CallOK(h)' /\ call'[h].pc \in {"idle", "reserving", "noting", "activated"}
      /\ call' \in [Handlers -> CallState]
      /\ \A g \in Handlers \ {h} : call'[g] = call[g]
  <2>1. CASE Finish(h)
    BY <2>1, RestTypes, Moves, IdleState, Finished
  <2>2. CASE \E pc \in {"reserving", "noting", "activated"} : Goto(h, pc)
    <3>1. PICK pc \in {"reserving", "noting", "activated"} : Goto(h, pc)
      BY <2>2
    <3>2. call[h].a # 0 /\ call[h].pc \notin Starting
      BY <1>1, RowNumbers DEF AboutAttempt, Starting
    <3>3. CallOK(h)' /\ call'[h].pc = pc
      BY <1>4, <3>1, <3>2, GoneOn DEF Free, AboutAttempt, Places
    <3> QED BY <3>1, <3>3, RestTypes, Moves DEF Places
  <2> QED BY <2>1, <2>2
<1>8. TypeOK'
  BY <1>2, <1>7, RestTypes DEF TypeOK, CallState, Places, Outbox, AttemptRow
<1>9. NoticeInv'
  BY <1>7, NoticesKept DEF Outbox
<1> QED BY <1>4, <1>6, <1>7, <1>8, <1>9, StepKeeps DEF Outbox

LEMMA AttemptSavesKeep ==
    ASSUME Inv, NEW h \in Handlers, SaveReplaced(h) \/ MarkInitFailed(h) \/ Activate(h)
    PROVE  Inv'
<1>1. PICK a, m : a = call[h].a /\ m = call[h].mine
  OBVIOUS
<1>2. CASE SaveReplaced(h)
  <2>1. m \in {"cancelled", "superseded", "failed"} /\ call[h].pc = "saving"
    BY <1>1, <1>2 DEF SaveReplaced, At, Inv, CallInv, CallOK
  <2> QED BY <1>1, <1>2, <2>1, AttemptSaved
      DEF SaveReplaced, At, Bounds, AttemptStatus, AboutAttempt
<1>3. CASE MarkInitFailed(h)
  BY <1>1, <1>3, AttemptSaved DEF MarkInitFailed, At, Bounds, AttemptStatus, AboutAttempt
<1>4. CASE Activate(h)
  BY <1>1, <1>4, AttemptSaved DEF Activate, At, Bounds, AttemptStatus, AboutAttempt
<1> QED BY <1>2, <1>3, <1>4

-----------------------------------------------------------------------------
(***************************************************************************)
(* New rows.                                                               *)
(***************************************************************************)

\* The number after those in use is new, and in use they are again without a gap.
LEMMA NextNumber ==
    ASSUME NEW S, \E n \in Nat : S = 1..n, NEW m, m = 1 + Cardinality(S)
    PROVE  m \notin S /\ m # 0 /\ \E n \in Nat : S \cup {m} = 1..n
<1>1. PICK n \in Nat : S = 1..n
  OBVIOUS
<1>2. m = n + 1
  <2>1. Cardinality(1..n) = n
    <3>1. n \in Int /\ 1 \in Int
      BY <1>1
    <3>2. Cardinality(1..n) = IF 1 > n THEN 0 ELSE n - 1 + 1
      BY <3>1, FS_Interval
    <3> QED BY <1>1, <3>2
  <2> QED BY <1>1, <2>1
<1>3. (1..n) \cup {n + 1} = 1..(n + 1) /\ n + 1 \notin 1..n
  OBVIOUS
<1> QED BY <1>1, <1>2, <1>3

LEMMA CreateKeeps ==
    ASSUME Inv, NEW h \in Handlers, Create(h)
    PROVE  Inv'
<1>1. PICK c, t, row : /\ c = call[h] /\ t = 1 + Cardinality(MadeTxns)
                       /\ row = [NoTxn EXCEPT !.status = "pending"]
  OBVIOUS
<1>2. /\ UNCHANGED <<attempt, order, Outbox>> /\ UNCHANGED <<booking, calls, faults, refusals>>
      /\ c.pc = "creating"
  BY <1>1 DEF Create, Bounds, At
<1>3. CASE UNCHANGED txn /\ Finish(h)
  BY <1>2, <1>3, RestTypes, QuietFinish
<1>4. CASE /\ t \in Txns /\ txn' = [txn EXCEPT ![t] = row]
           /\ call' = [call EXCEPT ![h].t = t, ![h].row = row, ![h].pc = "reserving"]
  <2>1. /\ row \in TxnRow /\ row.status = "pending" /\ row.current = 0
    BY <1>1, IdleState DEF NoTxn, TxnRow, TransactionStatus
  <2>2. t \notin MadeTxns /\ \E n \in Nat : MadeTxns \cup {t} = 1..n
    BY <1>1, NextNumber DEF Inv, Numbered
  <2>3. /\ txn' \in [Txns -> TxnRow] /\ txn'[t] = row
        /\ \A u \in Txns \ {t} : txn'[u] = txn[u]
    BY <1>4, <2>1, RestTypes, Shapes
  <2>4. MadeTxns' = MadeTxns \cup {t} /\ MadeAttempts' = MadeAttempts
    BY <1>2, <1>4, <2>1, <2>3 DEF MadeTxns, MadeAttempts
  <2>5. Grows /\ OrdersKept(h)
    BY <1>2, <2>2, <2>3 DEF Grows, OrdersKept, MadeTxns, MadeAttempts
  <2>6. Good(t, row)'
    BY <2>1 DEF Good, Completed
  <2>7. RowInv'
    <3>1. ASSUME NEW u \in MadeTxns' PROVE Good(u, txn[u])'
      <4>1. CASE u = t
        BY <2>3, <2>6, <4>1
      <4>2. CASE u # t
        <5>1. PICK r : r = txn[u]
          OBVIOUS
        <5>2. u \in MadeTxns /\ txn'[u] = r /\ Good(u, r)
          BY <2>3, <2>4, <4>2, <5>1 DEF Inv, RowInv, MadeTxns
        <5>3. Good(u, r)'
          BY <2>5, <5>2, GoodStays
        <5> QED BY <5>2, <5>3
      <4> QED BY <4>1, <4>2
    <3> QED BY <3>1 DEF RowInv
  <2>8. Numbered' /\ AttemptInv'
    BY <1>2, <2>2, <2>4 DEF Inv, Numbered, AttemptInv
  <2>9. PICK d : d = [c EXCEPT !.t = t, !.row = row, !.pc = "reserving"]
    OBVIOUS
  <2>10. c \in CallState /\ c.a = 0
    BY <1>1, <1>2, <2>5, Carried DEF Starting
  <2>11. d \in CallState /\ d.t = t /\ d.row = row /\ d.pc = "reserving" /\ d.a = 0
    BY <1>4, <2>1, <2>9, <2>10 DEF CallState, Places
  <2>12. call' = [call EXCEPT ![h] = d]
    BY <1>1, <1>4, <2>9
  <2>13. /\ call' \in [Handlers -> CallState] /\ call'[h] = d
         /\ \A g \in Handlers \ {h} : call'[g] = call[g]
    BY <2>11, <2>12, RestTypes, Shapes
  <2>14. CallOK(h)'
    <3>1. Good(d.t, d.row)' /\ d.t \in MadeTxns'
      BY <2>4, <2>6, <2>11
    <3> QED BY <2>11, <2>13, <3>1, WentOn DEF Starting, AboutAttempt
  <2>15. TypeOK'
    BY <1>2, <2>3, <2>13, RestTypes DEF TypeOK, CallState, Places, Outbox
  <2>16. NoticeInv'
    BY <1>2, <2>11, <2>13, NoticesKept DEF Outbox
  <2> QED BY <1>2, <2>5, <2>7, <2>8, <2>11, <2>13, <2>14, <2>15, <2>16, StepKeeps DEF Outbox
<1> QED BY <1>1, <1>3, <1>4 DEF Create, MadeTxns

LEMMA CreateAttemptKeeps ==
    ASSUME Inv, NEW h \in Handlers, CreateAttempt(h)
    PROVE  Inv'
<1>1. PICK c, t, new, row, resaved :
         /\ c = call[h] /\ t = c.t /\ new = 1 + Cardinality(MadeAttempts)
         /\ row = [c.row EXCEPT !.current = new]
         /\ resaved = IF c.mine \in {"cancelled", "superseded"} THEN {c.a} ELSE {}
  OBVIOUS
<1>2. /\ UNCHANGED <<order, Outbox>> /\ UNCHANGED <<booking, calls, refusals>>
      /\ c.pc = "attempting" /\ new \in Attempts /\ faults' \in Nat
  BY <1>1, RestTypes DEF CreateAttempt, Bounds, At, MadeAttempts, Fault
<1>3. CASE UNCHANGED <<txn, attempt, faults>> /\ Goto(h, "releasing")
  BY <1>1, <1>2, <1>3, RestTypes, QuietGoto DEF Free, Places, Starting
<1>4. CASE /\ attempt' = [a \in Attempts |->
                 IF a = new THEN [txn |-> t, status |-> "initializing"]
                 ELSE IF a \in resaved THEN [txn |-> t, status |-> c.mine]
                 ELSE attempt[a]]
           /\ txn' = [txn EXCEPT ![t] = row]
           /\ \/ call' = [call EXCEPT ![h].row = row, ![h].a = new,
                              ![h].mine = "initializing", ![h].pc = "initializing"]
              \/ call' = [call EXCEPT ![h].row = row, ![h].pc = "releasing"]
  <2>1. new \notin MadeAttempts /\ \E n \in Nat : MadeAttempts \cup {new} = 1..n
    BY <1>1, NextNumber DEF Inv, Numbered
  <2>2. /\ c \in CallState /\ t \in MadeTxns /\ Good(t, c.row)
        /\ c.a # 0 => Mine(t, c.a)
    BY <1>1, <1>2, Shapes, RestTypes DEF Inv, CallInv, CallOK, Starting
  <2>3. \A a \in resaved \cap Attempts :
           Mine(t, a) /\ a \in MadeAttempts /\ c.mine \in AttemptStatus \ {"none"}
    BY <1>1, <2>2, RowNumbers DEF Mine, MadeAttempts, AttemptStatus
  <2>4. /\ attempt' \in [Attempts -> AttemptRow]
        /\ attempt'[new] = [txn |-> t, status |-> "initializing"]
        /\ \A a \in MadeAttempts : attempt'[a].txn = attempt[a].txn /\ attempt'[a].status # "none"
        /\ \A a \in Attempts \ (MadeAttempts \cup {new}) : attempt'[a] = attempt[a]
    <3>1. attempt \in [Attempts -> AttemptRow] /\ t \in Txns
      BY <2>2, RestTypes, Shapes DEF MadeTxns
    <3>2. [txn |-> t, status |-> "initializing"] \in AttemptRow
      BY <3>1 DEF AttemptRow, AttemptStatus
    <3>3. \A a \in resaved \cap Attempts : [txn |-> t, status |-> c.mine] \in AttemptRow
      BY <2>3, <3>1 DEF AttemptRow
    <3>4. attempt' \in [Attempts -> AttemptRow]
      BY <1>4, <3>1, <3>2, <3>3
    <3>5. attempt'[new] = [txn |-> t, status |-> "initializing"]
      BY <1>2, <1>4
    <3>6. ASSUME NEW a \in MadeAttempts
          PROVE  attempt'[a].txn = attempt[a].txn /\ attempt'[a].status # "none"
      <4>1. a # new /\ a \in Attempts /\ attempt[a].status # "none"
        BY <2>1 DEF MadeAttempts
      <4>2. CASE a \in resaved
        <5>1. attempt'[a] = [txn |-> t, status |-> c.mine]
          BY <1>4, <4>1, <4>2
        <5>2. attempt[a].txn = t /\ c.mine # "none"
          BY <2>3, <4>1, <4>2 DEF Mine
        <5> QED BY <5>1, <5>2
      <4>3. CASE a \notin resaved
        BY <1>4, <4>1, <4>3
      <4> QED BY <4>2, <4>3
    <3>7. \A a \in Attempts \ (MadeAttempts \cup {new}) : attempt'[a] = attempt[a]
      BY <1>4, <2>3
    <3> QED BY <3>4, <3>5, <3>6, <3>7
  <2>5. row \in TxnRow /\ row.status = c.row.status /\ row.current = new
    BY <1>1, <1>2, <2>2 DEF Good, TxnRow
  <2>6. /\ txn' \in [Txns -> TxnRow] /\ txn'[t] = row
        /\ \A u \in Txns \ {t} : txn'[u] = txn[u]
    BY <1>4, <2>2, <2>5, RestTypes, Shapes DEF MadeTxns
  <2>7. MadeTxns' = MadeTxns /\ MadeAttempts' = MadeAttempts \cup {new}
    <3>1. row.status # "none"
      BY <2>2, <2>5 DEF Good
    <3>2. MadeTxns' = MadeTxns
      BY <2>2, <2>6, <3>1 DEF MadeTxns
    <3>3. \A a \in Attempts : attempt'[a].status # "none" <=> a \in MadeAttempts \cup {new}
      BY <2>4 DEF MadeAttempts
    <3> QED BY <1>2, <3>2, <3>3 DEF MadeAttempts
  <2>8. Grows /\ OrdersKept(h)
    BY <1>2, <2>4, <2>7 DEF Grows, OrdersKept, MadeTxns
  <2>9. Mine(t, new)' /\ Good(t, row)'
    <3>1. Mine(t, new)'
      BY <1>2, <2>4 DEF Mine
    <3>2. row.status \in Completed => Backed(t, row.status)'
      BY <2>2, <2>5, <2>8, BackedStays DEF Good
    <3>3. row.status # "none"
      BY <2>2, <2>5 DEF Good
    <3> QED BY <2>5, <3>1, <3>2, <3>3 DEF Good
  <2>10. RowInv'
    <3>1. ASSUME NEW u \in MadeTxns' PROVE Good(u, txn[u])'
      <4>1. CASE u = t
        BY <2>6, <2>9, <4>1
      <4>2. CASE u # t
        <5>1. PICK r : r = txn[u]
          OBVIOUS
        <5>2. txn'[u] = r /\ Good(u, r)
          BY <2>6, <2>7, <3>1, <4>2, <5>1 DEF Inv, RowInv, MadeTxns
        <5>3. Good(u, r)'
          BY <2>8, <5>2, GoodStays
        <5> QED BY <5>2, <5>3
      <4> QED BY <4>1, <4>2
    <3> QED BY <3>1 DEF RowInv
  <2>11. Numbered'
    BY <2>1, <2>7 DEF Inv, Numbered
  <2>12. AttemptInv'
    <3>1. \A a \in MadeAttempts : attempt'[a].txn \in MadeTxns
      BY <2>4 DEF Inv, AttemptInv
    <3>2. attempt'[new].txn \in MadeTxns
      BY <2>2, <2>4
    <3> QED BY <1>2, <2>7, <3>1, <3>2 DEF Inv, AttemptInv
  <2>13. order[new] = "none"
    BY <1>2, <2>1 DEF Inv, AttemptInv
  <2>14. \A g \in Handlers \ {h} : At(g, "initializing") => call[g].a # new
    <3>1. ASSUME NEW g \in Handlers, At(g, "initializing") PROVE call[g].a \in MadeAttempts
      BY <3>1 DEF At, Inv, CallInv, CallOK, Mine, MadeAttempts, AboutAttempt
    <3> QED BY <2>1, <3>1
  <2>15. /\ CallOK(h)' /\ call' \in [Handlers -> CallState]
         /\ call'[h].pc \in {"initializing", "releasing"}
         /\ call'[h].pc = "initializing" => call'[h].a = new
         /\ \A g \in Handlers \ {h} : call'[g] = call[g]
    <3>1. CASE call' = [call EXCEPT ![h].row = row, ![h].a = new,
                            ![h].mine = "initializing", ![h].pc = "initializing"]
      <4>1. PICK d : d = [c EXCEPT !.row = row, !.a = new, !.mine = "initializing",
                                   !.pc = "initializing"]
        OBVIOUS
      <4>2. /\ d \in CallState /\ d.t = t /\ d.row = row /\ d.a = new /\ d.pc = "initializing"
        <5>1. c \in CallState /\ c.t = t /\ row \in TxnRow /\ new \in Attempts
          BY <1>1, <1>2, <2>2, <2>5
        <5> QED BY <4>1, <5>1 DEF CallState, Places, AttemptStatus
      <4>3. call' = [call EXCEPT ![h] = d]
        BY <1>1, <3>1, <4>1
      <4>4. /\ call' \in [Handlers -> CallState] /\ call'[h] = d
            /\ \A g \in Handlers \ {h} : call'[g] = call[g]
        BY <4>2, <4>3, RestTypes, Shapes
      <4>5. /\ Good(d.t, d.row)' /\ Mine(d.t, d.a)' /\ d.t \in MadeTxns' /\ d.a # 0
            /\ order'[d.a] = "none"
        BY <1>2, <2>2, <2>7, <2>9, <2>13, <4>2, RowNumbers
      <4>6. CallOK(h)'
        BY <4>2, <4>4, <4>5 DEF CallOK, Starting
      <4> QED BY <4>2, <4>4, <4>6
    <3>2. CASE call' = [call EXCEPT ![h].row = row, ![h].pc = "releasing"]
      <4>1. PICK d : d = [c EXCEPT !.row = row, !.pc = "releasing"]
        OBVIOUS
      <4>2. d \in CallState /\ d.t = t /\ d.row = row /\ d.a = c.a /\ d.pc = "releasing"
        <5>1. c \in CallState /\ c.t = t /\ row \in TxnRow
          BY <1>1, <2>2, <2>5
        <5> QED BY <4>1, <5>1 DEF CallState, Places
      <4>3. call' = [call EXCEPT ![h] = d]
        BY <1>1, <3>2, <4>1
      <4>4. /\ call' \in [Handlers -> CallState] /\ call'[h] = d
            /\ \A g \in Handlers \ {h} : call'[g] = call[g]
        BY <4>2, <4>3, RestTypes, Shapes
      <4>5. c.a # 0 => Mine(t, c.a)'
        BY <2>2, <2>4, <1>1, RowNumbers DEF Mine, MadeAttempts
      <4>6. CallOK(h)'
        BY <2>2, <2>7, <2>9, <4>2, <4>4, <4>5, WentOn DEF Starting, AboutAttempt
      <4> QED BY <4>2, <4>4, <4>6
    <3> QED BY <1>4, <3>1, <3>2
  <2>16. TypeOK'
    BY <1>2, <2>4, <2>6, <2>15, RestTypes DEF TypeOK, CallState, Places, Outbox, AttemptRow
  <2>17. NoticeInv'
    BY <1>2, <2>15, NoticesKept DEF Outbox
  <2> QED BY <1>2, <2>8, <2>10, <2>11, <2>12, <2>14, <2>15, <2>16, <2>17, StepKeeps DEF Outbox
<1> QED BY <1>1, <1>3, <1>4 DEF CreateAttempt, MadeAttempts

-----------------------------------------------------------------------------
(***************************************************************************)
(* Settling and announcing.                                                *)
(***************************************************************************)

LEMMA SettleKeeps ==
    ASSUME Inv, NEW h \in Handlers, Settle(h)
    PROVE  Inv'
<1>1. PICK c, row : c = call[h] /\ row = Settled(c)
  OBVIOUS
<1>2. /\ UNCHANGED <<order, sent, announced>> /\ UNCHANGED <<booking, calls, faults, refusals>>
      /\ c.pc = "deciding"
      /\ recorded' = IF c.op = "Webhook" THEN recorded \cup {c.a} ELSE recorded
      /\ attempt' = IF c.mine = c.outcome THEN attempt
                    ELSE [attempt EXCEPT ![c.a].status = c.outcome]
  BY <1>1 DEF Settle, Bounds, At
<1>3. /\ c \in CallState /\ c.t \in MadeTxns /\ c.t \in Txns /\ Good(c.t, c.row)
      /\ Mine(c.t, c.a) /\ c.a \in MadeAttempts
      /\ c.outcome \in Completed /\ order[c.a] \in Final[c.outcome]
  <2>1. CallOK(h) /\ call[h] \in CallState
    BY Shapes DEF Inv, CallInv
  <2> QED BY <1>1, <1>2, <2>1 DEF CallOK, Starting, AboutAttempt, MadeTxns, MadeAttempts, Mine
<1>4. /\ attempt' \in [Attempts -> AttemptRow]
      /\ \A a \in Attempts : /\ attempt'[a].txn = attempt[a].txn
                             /\ attempt'[a].status # "none" <=> a \in MadeAttempts
  <2>1. attempt \in [Attempts -> AttemptRow] /\ c.a \in Attempts
    BY <1>3, RestTypes, Shapes DEF MadeAttempts
  <2>2. PICK new : new = [attempt[c.a] EXCEPT !.status = c.outcome]
    OBVIOUS
  <2>3. new \in AttemptRow /\ new.txn = attempt[c.a].txn /\ new.status = c.outcome
    BY <1>3, <2>1, <2>2 DEF AttemptRow, AttemptStatus, Completed
  <2>4. attempt' = attempt \/ attempt' = [attempt EXCEPT ![c.a] = new]
    BY <1>2, <2>1, <2>2
  <2> QED BY <1>3, <2>1, <2>3, <2>4 DEF MadeAttempts, Completed
<1>5. MadeAttempts' = MadeAttempts
  BY <1>4 DEF MadeAttempts
<1>6. recorded' \subseteq Attempts
  BY <1>2, <1>3, RestTypes, Shapes DEF MadeAttempts
<1>7. \A a \in Attempts : order'[a] # "none" => a \in MadeAttempts
  BY <1>2 DEF Inv, AttemptInv
<1>8. \A g \in Handlers \ {h} : call[g].op = "Webhook" /\ At(g, "deciding") /\ c.op = "Webhook"
                                  => call[g].a # c.a
  BY <1>1, <1>2, <1>3 DEF Inv, NoticeInv, Holds, At, MadeAttempts
<1>9. ASSUME \A g \in Handlers \ {h} : call'[g] = call[g],
             call'[h].op = "Webhook" => call'[h].pc = "staged" /\ c.op = "Webhook"
                                        /\ call'[h].a = c.a
      PROVE  NoticeInv'
  <2>1. \A a \in Attempts : Holds(h, a)' => c.op = "Webhook" /\ a = c.a /\ At(h, "staged")'
    BY <1>9 DEF Holds, At
  <2>2. \A g \in Handlers \ {h}, a \in Attempts : Holds(g, a)' <=> Holds(g, a)
    BY <1>9 DEF Holds
  <2>3. c.op = "Webhook" => Holds(h, c.a) /\ At(h, "deciding")
    BY <1>1, <1>2 DEF Holds, At
  <2>4. ASSUME NEW a \in Attempts
        PROVE  /\ announced'[a] <= 1
               /\ a \notin recorded' => announced'[a] = 0
    BY <1>2 DEF Inv, NoticeInv
  <2>5. ASSUME NEW a \in Attempts, NEW g \in Handlers, NEW f \in Handlers,
               Holds(g, a)', Holds(f, a)'
        PROVE  g = f
    <3>1. Holds(g, a) /\ Holds(f, a)
      BY <2>1, <2>2, <2>3, <2>5
    <3> QED BY <3>1 DEF Inv, NoticeInv
  <2>6. ASSUME NEW a \in Attempts, NEW g \in Handlers, Holds(g, a)'
        PROVE  IF At(g, "deciding")' THEN a \notin recorded'
               ELSE a \in recorded' /\ announced'[a] = 0
    <3>1. Holds(g, a)
      BY <2>1, <2>2, <2>3, <2>6
    <3>2. CASE g = h
      <4>1. c.op = "Webhook" /\ a = c.a /\ At(h, "staged")' /\ a \notin recorded
        BY <2>1, <2>3, <2>6, <3>2 DEF Inv, NoticeInv
      <4>2. a \in recorded' /\ announced[a] = 0
        BY <1>2, <4>1 DEF Inv, NoticeInv
      <4> QED BY <1>2, <3>2, <4>1, <4>2 DEF At
    <3>3. CASE g # h
      <4>1. call'[g] = call[g] /\ (c.op = "Webhook" => a # c.a)
        BY <1>9, <2>3, <3>1, <3>3 DEF Inv, NoticeInv
      <4>2. a \in recorded' <=> a \in recorded
        BY <1>2, <4>1
      <4> QED BY <1>2, <3>1, <4>1, <4>2 DEF Inv, NoticeInv, At
    <3> QED BY <3>2, <3>3
  <2> QED BY <2>4, <2>5, <2>6 DEF NoticeInv
<1>10. CASE UNCHANGED txn /\ Finish(h)
  <2>1. Grows /\ OrdersKept(h) /\ MadeTxns' = MadeTxns
    <3>1. MadeTxns' = MadeTxns /\ \A t \in MadeTxns : txn'[t].status # "none"
      BY <1>10 DEF MadeTxns
    <3>2. \A a \in MadeAttempts : a \in Attempts
      BY DEF MadeAttempts
    <3> QED BY <1>2, <1>4, <3>1, <3>2 DEF Grows, OrdersKept
  <2>2. Numbered' /\ RowInv' /\ AttemptInv'
    BY <1>5, <1>7, <1>10, <2>1, TablesKept
  <2>3. /\ call' \in [Handlers -> CallState] /\ call'[h] = Idle /\ CallOK(h)'
        /\ \A g \in Handlers \ {h} : call'[g] = call[g]
    BY <1>10, RestTypes, Moves, Finished
  <2>4. TypeOK'
    BY <1>2, <1>4, <1>6, <1>10, <2>3, RestTypes DEF TypeOK, CallState, Places, AttemptRow
  <2>5. NoticeInv'
    BY <1>9, <2>3, IdleState
  <2> QED BY <1>2, <2>1, <2>2, <2>3, <2>4, <2>5, IdleState, StepKeeps
<1>11. CASE /\ txn' = [txn EXCEPT ![c.t] = row]
            /\ call' = [call EXCEPT ![h].row = row, ![h].pc = "staged"]
  <2>1. /\ row \in TxnRow /\ row.status = c.outcome
        /\ row.current = IF c.outcome = "successful" THEN c.a ELSE c.row.current
    BY <1>1, <1>3 DEF Settled, Good, TxnRow, TransactionStatus, Completed, MadeAttempts
  <2>2. /\ txn' \in [Txns -> TxnRow] /\ txn'[c.t] = row
        /\ \A u \in Txns \ {c.t} : txn'[u] = txn[u]
    BY <1>3, <1>11, <2>1, RestTypes, Shapes
  <2>3. MadeTxns' = MadeTxns
    BY <1>3, <2>1, <2>2 DEF MadeTxns, Completed
  <2>4. Grows /\ OrdersKept(h)
    <3>1. \A t \in MadeTxns : txn'[t].status # "none"
      BY <2>3 DEF MadeTxns
    <3>2. \A a \in MadeAttempts : a \in Attempts
      BY DEF MadeAttempts
    <3> QED BY <1>2, <1>4, <3>1, <3>2 DEF Grows, OrdersKept
  <2>5. Mine(c.t, c.a)' /\ Good(c.t, c.row)'
    BY <1>3, <2>4, MineStays, GoodStays
  <2>6. Good(c.t, row)'
    <3>1. Backed(c.t, c.outcome)'
      BY <1>2, <1>3, <2>5 DEF Backed, Mine
    <3>2. row.current # 0 => Mine(c.t, row.current)'
      BY <2>1, <2>5 DEF Good
    <3> QED BY <1>3, <2>1, <3>1, <3>2 DEF Good, Completed
  <2>7. \A u \in MadeTxns : txn'[u] = txn[u] \/ Good(u, txn[u])'
    <3>1. ASSUME NEW u \in MadeTxns, u = c.t PROVE Good(u, txn[u])'
      BY <2>2, <2>6, <3>1
    <3> QED BY <2>2, <3>1 DEF MadeTxns
  <2>8. Numbered' /\ RowInv' /\ AttemptInv'
    BY <1>5, <1>7, <2>3, <2>4, <2>7, TablesKept
  <2>9. PICK d : d = [c EXCEPT !.row = row, !.pc = "staged"]
    OBVIOUS
  <2>10. /\ d \in CallState /\ d.t = c.t /\ d.a = c.a /\ d.row = row /\ d.op = c.op
         /\ d.pc = "staged"
    BY <1>3, <2>1, <2>9 DEF CallState, Places
  <2>11. call' = [call EXCEPT ![h] = d]
    BY <1>1, <1>11, <2>9
  <2>12. /\ call' \in [Handlers -> CallState] /\ call'[h] = d
         /\ \A g \in Handlers \ {h} : call'[g] = call[g]
    BY <2>10, <2>11, RestTypes, Shapes
  <2>13. CallOK(h)'
    <3>1. /\ Good(d.t, d.row)' /\ Mine(d.t, d.a)' /\ d.t \in MadeTxns'
          /\ d.row.status \in Completed
      BY <1>3, <2>1, <2>3, <2>5, <2>6, <2>10
    <3> QED BY <2>10, <2>12, <3>1 DEF CallOK, Starting, AboutAttempt
  <2>14. TypeOK'
    BY <1>2, <1>4, <1>6, <2>2, <2>12, RestTypes DEF TypeOK, CallState, Places, AttemptRow
  <2>15. NoticeInv'
    BY <1>9, <2>10, <2>12
  <2> QED BY <1>2, <2>4, <2>8, <2>10, <2>12, <2>13, <2>14, <2>15, StepKeeps
<1> QED BY <1>1, <1>10, <1>11 DEF Settle

LEMMA CommitOutboxKeeps ==
    ASSUME Inv, NEW h \in Handlers, CommitOutbox(h)
    PROVE  Inv'
<1>1. PICK c, s : c = call[h] /\ s = c.row.status
  OBVIOUS
<1>2. /\ UNCHANGED <<txn, attempt, order, recorded>>
      /\ UNCHANGED <<booking, calls, faults, refusals>>
      /\ c.pc = "staged" /\ Goto(h, "marking")
      /\ sent' = [sent EXCEPT ![c.t][s] = @ + 1]
      /\ announced' = IF c.op = "Webhook" THEN [announced EXCEPT ![c.a] = @ + 1] ELSE announced
  BY <1>1 DEF CommitOutbox, Bounds, At
<1>3. Grows /\ OrdersKept(h) /\ Numbered' /\ RowInv' /\ AttemptInv'
  BY <1>2, Quiet
<1>4. /\ c \in CallState /\ c.t \in MadeTxns' /\ Good(c.t, c.row)'
      /\ (c.a # 0 => Mine(c.t, c.a)') /\ s \in Completed
  BY <1>1, <1>2, <1>3, Carried DEF Starting
<1>5. c.t \in Txns /\ c.a \in Attempts \cup {0}
  BY <1>4 DEF MadeTxns, CallState
<1>6. PICK d : d = [c EXCEPT !.pc = "marking"]
  OBVIOUS
<1>7. /\ d.t = c.t /\ d.row = c.row /\ d.a = c.a /\ d.op = c.op /\ d.pc = "marking"
  BY <1>4, <1>6 DEF CallState
<1>8. /\ call' \in [Handlers -> CallState] /\ call'[h] = d
      /\ \A g \in Handlers \ {h} : call'[g] = call[g]
  BY <1>1, <1>2, <1>6, RestTypes, Moves DEF Places
<1>9. CallOK(h)'
  <2>1. /\ Good(d.t, d.row)' /\ d.t \in MadeTxns' /\ d.row.status \in Completed
        /\ (d.a # 0 => Mine(d.t, d.a)')
    BY <1>1, <1>4, <1>7
  <2> QED BY <1>7, <1>8, <2>1 DEF CallOK, Starting, AboutAttempt
<1>10. /\ sent' \in [Txns -> [Completed -> Nat]]
       /\ \A t \in Txns, r \in Completed :
             sent'[t][r] > 0 => sent[t][r] > 0 \/ (t = c.t /\ r = s)
  <2>1. PICK m : m = [sent[c.t] EXCEPT ![s] = @ + 1]
    OBVIOUS
  <2>2. sent \in [Txns -> [Completed -> Nat]] /\ sent[c.t] \in [Completed -> Nat]
    BY <1>5, RestTypes, Shapes
  <2>3. m \in [Completed -> Nat] /\ \A r \in Completed \ {s} : m[r] = sent[c.t][r]
    BY <1>4, <2>1, <2>2
  <2>4. sent' = [sent EXCEPT ![c.t] = m]
    BY <1>2, <2>1
  <2>5. sent' \in [Txns -> [Completed -> Nat]] /\ sent'[c.t] = m
        /\ \A t \in Txns \ {c.t} : sent'[t] = sent[t]
    BY <1>5, <2>2, <2>3, <2>4
  <2>6. ASSUME NEW t \in Txns, NEW r \in Completed, sent'[t][r] > 0, t # c.t \/ r # s
        PROVE  sent[t][r] > 0
    <3>1. CASE t = c.t
      BY <2>3, <2>5, <2>6, <3>1
    <3>2. CASE t # c.t
      BY <2>5, <2>6, <3>2
    <3> QED BY <3>1, <3>2
  <2> QED BY <2>5, <2>6
<1>11. Backed(c.t, s)'
  BY <1>1, <1>4 DEF Good
<1>12. /\ announced' \in [Attempts -> Nat]
       /\ \A a \in Attempts : announced'[a] = IF c.op = "Webhook" /\ a = c.a THEN announced[a] + 1
                                              ELSE announced[a]
  <2>1. announced \in [Attempts -> Nat]
    BY RestTypes, Shapes
  <2>2. CASE c.op = "Webhook"
    <3>1. announced' = [announced EXCEPT ![c.a] = @ + 1]
      BY <1>2, <2>2
    <3>2. \A a \in Attempts : announced[a] + 1 \in Nat
      BY <2>1
    <3>3. announced' \in [Attempts -> Nat]
      BY <2>1, <3>1, <3>2
    <3>4. \A a \in Attempts : announced'[a] = IF a = c.a THEN announced[a] + 1 ELSE announced[a]
      BY <2>1, <3>1
    <3> QED BY <2>2, <3>3, <3>4
  <2>3. CASE c.op # "Webhook"
    BY <1>2, <2>1, <2>3
  <2> QED BY <2>2, <2>3
<1>13. \A a \in Attempts : /\ Holds(h, a) <=> c.op = "Webhook" /\ a = c.a
                           /\ ~Holds(h, a)'
                           /\ \A g \in Handlers \ {h} : Holds(g, a)' <=> Holds(g, a)
  BY <1>1, <1>2, <1>7, <1>8 DEF Holds
<1>14. NoticeInv'
  <2>1. ASSUME NEW a \in Attempts
        PROVE  /\ announced'[a] <= 1
               /\ a \notin recorded' => announced'[a] = 0
    <3>1. CASE Holds(h, a)
      <4>1. a \in recorded /\ announced[a] = 0
        BY <1>1, <1>2, <3>1 DEF Inv, NoticeInv, At
      <4> QED BY <1>2, <1>12, <4>1
    <3>2. CASE ~Holds(h, a)
      <4>1. announced'[a] = announced[a]
        BY <1>12, <1>13, <3>2
      <4> QED BY <1>2, <4>1 DEF Inv, NoticeInv
    <3> QED BY <3>1, <3>2
  <2>2. ASSUME NEW a \in Attempts, NEW g \in Handlers, NEW f \in Handlers,
               Holds(g, a)', Holds(f, a)'
        PROVE  g = f
    BY <1>13, <2>2 DEF Inv, NoticeInv
  <2>3. ASSUME NEW a \in Attempts, NEW g \in Handlers, Holds(g, a)'
        PROVE  IF At(g, "deciding")' THEN a \notin recorded'
               ELSE a \in recorded' /\ announced'[a] = 0
    <3>1. g # h /\ Holds(g, a) /\ call'[g] = call[g]
      BY <1>8, <1>13, <2>3
    <3>2. ~Holds(h, a)
      BY <3>1 DEF Inv, NoticeInv
    <3>3. announced'[a] = announced[a]
      BY <1>12, <1>13, <3>2
    <3> QED BY <1>2, <3>1, <3>3 DEF Inv, NoticeInv, At
  <2> QED BY <2>1, <2>2, <2>3 DEF NoticeInv
<1>15. TypeOK'
  BY <1>2, <1>8, <1>10, <1>12, RestTypes DEF TypeOK, CallState, Places
<1>16. \A t \in Txns, r \in Completed : sent'[t][r] > 0 => sent[t][r] > 0 \/ Backed(t, r)'
  <2>1. ASSUME NEW t \in Txns, NEW r \in Completed, sent'[t][r] > 0, t = c.t /\ r = s
        PROVE  Backed(t, r)'
    BY <1>11, <2>1
  <2> QED BY <1>10, <2>1
<1> QED BY <1>3, <1>7, <1>8, <1>9, <1>14, <1>15, <1>16, StepKeeps

-----------------------------------------------------------------------------
(***************************************************************************)
(* The provider, the reservation and the subscription.                     *)
(***************************************************************************)

LEMMA OrderSettlesKeeps ==
    ASSUME Inv, NEW a \in Attempts, OrderSettles(a)
    PROVE  Inv'
<1>1. /\ UNCHANGED <<txn, attempt, recorded, sent, announced>>
      /\ UNCHANGED <<booking, call, calls, faults, refusals>>
      /\ order[a] \in {"created", "open"}
      /\ \E s \in {"paid", "failed"} : order' = [order EXCEPT ![a] = s]
  BY DEF OrderSettles, Outbox, Bounds
<1>2. /\ order' \in [Attempts -> OrderStatus] /\ order'[a] # "none"
      /\ \A b \in Attempts \ {a} : order'[b] = order[b]
  BY <1>1, RestTypes, Shapes DEF OrderStatus
<1>3. Grows /\ MadeTxns' = MadeTxns /\ MadeAttempts' = MadeAttempts
  BY <1>1, <1>2 DEF Grows, MadeTxns, MadeAttempts, Final, Completed
<1>4. Numbered' /\ RowInv' /\ AttemptInv'
  <2>1. \A b \in Attempts : order'[b] # "none" => b \in MadeAttempts
    BY <1>1, <1>2 DEF Inv, AttemptInv
  <2>2. \A t \in MadeTxns : txn'[t] = txn[t]
    BY <1>1
  <2> QED BY <1>3, <2>1, <2>2, TablesKept
<1>5. CallInv'
  <2>1. ASSUME NEW g \in Handlers PROVE CallOK(g)'
    <3>1. At(g, "initializing") => order[call[g].a] = "none" /\ call[g].a \in Attempts
      BY RestTypes, Shapes DEF Inv, CallInv, CallOK, At, AboutAttempt, CallState
    <3>2. At(g, "initializing") => order'[call[g].a] = "none"
      BY <1>1, <1>2, <3>1
    <3> QED BY <1>1, <1>3, <3>2, OthersOK
  <2>2. \A f, g \in Handlers : At(f, "initializing")' /\ At(g, "initializing")'
                               /\ call'[f].a = call'[g].a => f = g
    BY <1>1 DEF Inv, CallInv, At
  <2> QED BY <2>1, <2>2 DEF CallInv
<1>6. NoticeInv'
  BY <1>1 DEF Inv, NoticeInv, Holds, At
<1>7. EventsAreBacked'
  <2>1. ASSUME NEW t \in Txns, NEW s \in Completed, sent'[t][s] > 0
        PROVE  Backed(t, s)'
    <3>1. Backed(t, s)
      BY <1>1, <2>1 DEF Inv, EventsAreBacked, Backed, Final, Completed
    <3> QED BY <1>3, <3>1, BackedStays
  <2>2. \A t \in Txns : /\ sent'[t]["successful"] > 0 => Backed(t, "successful")'
                        /\ sent'[t]["failed"] > 0 => Backed(t, "failed")'
    BY <2>1 DEF Completed
  <2> QED BY <2>2 DEF EventsAreBacked, Backed, Final, Completed
<1>8. TypeOK'
  BY <1>1, <1>2, RestTypes DEF TypeOK
<1> QED BY <1>4, <1>5, <1>6, <1>7, <1>8 DEF Inv

\* What the invariant says does not depend on the booking.
LEMMA BookingMoves ==
    ASSUME Inv, UNCHANGED <<txn, attempt, recorded, sent, announced, order, call>>,
           UNCHANGED <<calls, faults, refusals>>, booking' \in BookingState
    PROVE  Inv'
<1>1. /\ MadeTxns' = MadeTxns /\ MadeAttempts' = MadeAttempts
      /\ \A t, row : Good(t, row)' <=> Good(t, row)
      /\ \A t, a : Mine(t, a)' <=> Mine(t, a)
  BY DEF MadeTxns, MadeAttempts, Good, Mine, Backed
<1>2. Numbered' /\ RowInv' /\ AttemptInv'
  BY <1>1 DEF Inv, Numbered, RowInv, AttemptInv
<1>3. CallInv'
  BY <1>1 DEF Inv, CallInv, CallOK, At
<1>4. NoticeInv'
  BY DEF Inv, NoticeInv, Holds, At
<1>5. TypeOK' /\ EventsAreBacked'
  BY DEF Inv, TypeOK, EventsAreBacked, BookingState
<1> QED BY <1>2, <1>3, <1>4, <1>5 DEF Inv

LEMMA ReservationLapsesKeeps ==
    ASSUME Inv, ReservationLapses
    PROVE  Inv'
<1>1. booking' \in BookingState
  BY RestTypes DEF ReservationLapses, BookingState
<1> QED BY <1>1, BookingMoves DEF ReservationLapses, Outbox, Bounds

LEMMA EventArrivesKeeps ==
    ASSUME Inv, NEW t \in Txns, EventArrives(t)
    PROVE  Inv'
<1>1. booking' \in BookingState
  <2>1. Freed \in BookingState /\ [Freed EXCEPT !.status = "confirmed"] \in BookingState
    BY DEF Freed, BookingState
  <2> QED BY <2>1 DEF EventArrives
<1> QED BY <1>1, BookingMoves DEF EventArrives, Outbox, Bounds

-----------------------------------------------------------------------------
(***************************************************************************)
(* The invariant and what follows from it.                                 *)
(***************************************************************************)

LEMMA InitInv == ASSUME Init PROVE Inv
<1>1. TypeOK
  <2>1. call \in [Handlers -> CallState]
    BY IdleState DEF Init
  <2>2. txn \in [Txns -> TxnRow]
    BY IdleState DEF Init
  <2> QED BY <2>1, <2>2 DEF Init, TypeOK, CallState, Places, AttemptStatus, OrderStatus, Completed
<1>2. MadeTxns = {} /\ MadeAttempts = {}
  BY DEF Init, MadeTxns, MadeAttempts, NoTxn
<1>3. Numbered
  <2>1. {} = 1..0 /\ 0 \in Nat
    OBVIOUS
  <2> QED BY <1>2, <2>1 DEF Numbered
<1>4. RowInv /\ AttemptInv
  BY <1>2 DEF RowInv, AttemptInv, Init
<1>5. CallInv
  <2>1. \A h \in Handlers : call[h] = Idle
    BY DEF Init
  <2>2. ASSUME NEW h \in Handlers PROVE CallOK(h)
    BY <2>1, IdleState DEF CallOK, Starting, AboutAttempt
  <2> QED BY <2>1, <2>2, IdleState DEF CallInv, At
<1>6. NoticeInv
  BY IdleState DEF Init, NoticeInv, Holds
<1>7. EventsAreBacked
  BY DEF Init, EventsAreBacked, Completed
<1> QED BY <1>1, <1>3, <1>4, <1>5, <1>6, <1>7 DEF Inv

LEMMA InvStep == ASSUME Inv, [Next]_vars PROVE Inv'
<1>1. CASE UNCHANGED vars
  <2>1. booking' \in BookingState
    BY <1>1, RestTypes DEF vars
  <2> QED BY <1>1, <2>1, BookingMoves DEF vars
<1>2. ASSUME NEW h \in Handlers, Initialize(h) PROVE Inv'
  BY <1>2, LookupKeeps, CreateKeeps, ResolveKeeps, CancelKeeps, VerifyKeeps, ReserveKeeps,
     FlagKeeps, ClearFlagKeeps, CreateAttemptKeeps, InitializeOrderKeeps, AttemptSavesKeep,
     NoteInitFailedKeeps, ReleaseKeeps, ReturnLinkKeeps
     DEF Initialize
<1>3. ASSUME NEW h \in Handlers, Progress(h) PROVE Inv'
  BY <1>2, <1>3, ReadTxnKeeps, SettleKeeps, CommitOutboxKeeps, MarkKeeps DEF Progress
<1>4. ASSUME NEW h \in Handlers, BeginInitialize(h) \/ Crash(h) \/ StatementFails(h) PROVE Inv'
  BY <1>4, BeginInitializeKeeps, CrashKeeps, StatementFailsKeeps
<1>5. ASSUME NEW h \in Handlers, NEW a \in Attempts, BeginWebhook(h, a) PROVE Inv'
  BY <1>5, BeginWebhookKeeps
<1>6. ASSUME NEW h \in Handlers, NEW t \in Txns, BeginRepair(h, t) PROVE Inv'
  BY <1>6, BeginRepairKeeps
<1>7. ASSUME NEW a \in Attempts, OrderSettles(a) PROVE Inv'
  BY <1>7, OrderSettlesKeeps
<1>8. ASSUME NEW t \in Txns, EventArrives(t) PROVE Inv'
  BY <1>8, EventArrivesKeeps
<1>9. CASE ReservationLapses
  BY <1>9, ReservationLapsesKeeps
<1> QED BY <1>1, <1>3, <1>4, <1>5, <1>6, <1>7, <1>8, <1>9 DEF Next

LEMMA InvAlways == Spec => []Inv
<1>1. Init => Inv
  BY InitInv
<1>2. Inv /\ [Next]_vars => Inv'
  BY InvStep
<1> QED BY <1>1, <1>2, PTL DEF Spec

\* Every table, copy and counter keeps its type: the numbers given to new
\* transactions and attempts stay within those that calls can use up.
THEOREM TypeCorrect == Spec => []TypeOK
<1>1. Inv => TypeOK
  BY DEF Inv
<1> QED BY <1>1, InvAlways, PTL

\* A payment is announced as confirmed or failed only if the provider has settled
\* an order of that transaction so: saves of rows read long before, lost answers,
\* crashes between the two commits and repairs notwithstanding.
THEOREM AnnouncedIsBacked == Spec => []EventsAreBacked
<1>1. Inv => EventsAreBacked
  BY DEF Inv
<1> QED BY <1>1, InvAlways, PTL

\* The webhook of an attempt is turned into an event once, whatever deliveries of it
\* overlap (RecordWebhookEvent's unique key, and the transaction that holds it).
THEOREM OneEventPerWebhook == Spec => []OneEventPerNotice
<1>1. Inv => OneEventPerNotice
  BY DEF Inv, NoticeInv, OneEventPerNotice
<1> QED BY <1>1, InvAlways, PTL
-----------------------------------------------------------------------------
(***************************************************************************)
(* Calls that run one at a time.  The copy a call carries then agrees with *)
(* the table about the transaction's status, and what was announced is     *)
(* that status (InTurn).                                                   *)
(***************************************************************************)

Busy(h) == ~At(h, "idle")
Alone == \A g, h \in Handlers : Busy(g) /\ Busy(h) => g = h

\* The handler has a copy of a row.
Carries(h) == call[h].pc \notin Starting \cup {"settling"}

StatusMatches == \A h \in Handlers : Carries(h) => call[h].row.status = txn[call[h].t].status
SentMatches == \A t \in Txns, s \in Completed : sent[t][s] > 0 => txn[t].status = s

InTurn == Alone /\ StatusMatches /\ SentMatches
SerialInv == ~overlapped => InTurn

\* A step of h, while no other handler executes anything.
StepAlone(h) == \A g \in Handlers \ {h} : ~Busy(g) /\ call'[g] = call[g]

KeepsStatus == \A t \in Txns : txn'[t].status = txn[t].status

LEMMA SteppedAlone ==
    ASSUME Inv, SerialInv, NEW h \in Handlers,
           \A g \in Handlers \ {h} : call'[g] = call[g],
           (overlapped' = overlapped /\ Busy(h)) \/ Begun(h) \/ overlapped' = TRUE,
           ~overlapped'
    PROVE  ~overlapped /\ InTurn /\ StepAlone(h)
<1>1. CASE overlapped' = overlapped /\ Busy(h)
  BY <1>1 DEF SerialInv, InTurn, Alone, StepAlone
<1>2. CASE Begun(h)
  BY <1>2 DEF SerialInv, Begun, StepAlone, Busy
<1> QED BY <1>1, <1>2

\* What a step that h takes alone has to show.
LEMMA TurnKept ==
    ASSUME InTurn, NEW h \in Handlers, StepAlone(h),
           Carries(h)' => call'[h].row.status = txn'[call'[h].t].status, SentMatches'
    PROVE  InTurn'
<1>1. \A g \in Handlers \ {h} : ~Busy(g)' /\ ~Carries(g)'
  BY DEF StepAlone, Busy, Carries, At, Starting
<1>2. Alone' /\ StatusMatches'
  BY <1>1 DEF Alone, StatusMatches
<1> QED BY <1>2 DEF InTurn

LEMMA SentKept ==
    ASSUME InTurn, KeepsStatus, sent' = sent
    PROVE  SentMatches'
BY DEF InTurn, SentMatches, KeepsStatus

\* Most steps change no status, and the call goes on with the same row or ends.
LEMMA TurnGoesOn ==
    ASSUME Inv, InTurn, NEW h \in Handlers, StepAlone(h), KeepsStatus, sent' = sent,
           \/ call'[h].pc = "idle" \/ call'[h].pc = "settling"
           \/ /\ call'[h].t = call[h].t /\ call'[h].row.status = call[h].row.status
              /\ Carries(h)
    PROVE  InTurn'
<1>1. CallOK(h) /\ call[h] \in CallState
  BY RestTypes, Shapes DEF Inv, CallInv
<1>2. Carries(h) => call[h].t \in Txns
  BY <1>1 DEF CallOK, MadeTxns, Carries
<1>3. Carries(h)' => call'[h].row.status = txn'[call'[h].t].status
  BY <1>2 DEF InTurn, StatusMatches, KeepsStatus, Carries, Starting
<1> QED BY <1>3, SentKept, TurnKept

\* A save of a copy that agrees with the table.
LEMMA SaveKeepsStatus ==
    ASSUME Inv, NEW t \in Txns, NEW row, row.status = txn[t].status, txn' = Saved(t, row)
    PROVE  KeepsStatus
BY RestTypes, Shapes DEF KeepsStatus, Saved

\* A call that goes on with the row it has, or ends.
LEMMA GotoInTurn ==
    ASSUME Inv, InTurn, NEW h \in Handlers, StepAlone(h), KeepsStatus, sent' = sent,
           Finish(h) \/ \E pc \in Places : Goto(h, pc) /\ (Carries(h) \/ pc \in {"idle", "settling"})
    PROVE  InTurn'
<1>1. CASE Finish(h)
  <2>1. call'[h] = Idle
    BY <1>1, RestTypes, Moves
  <2> QED BY <2>1, IdleState, TurnGoesOn
<1>2. ASSUME NEW pc \in Places, Goto(h, pc), Carries(h) \/ pc \in {"idle", "settling"}
      PROVE  InTurn'
  <2>1. call'[h] = [call[h] EXCEPT !.pc = pc] /\ call[h] \in CallState
    BY <1>2, RestTypes, Shapes, Moves
  <2>2. call'[h].pc = pc /\ call'[h].t = call[h].t /\ call'[h].row = call[h].row
    BY <2>1 DEF CallState
  <2> QED BY <1>2, <2>2, TurnGoesOn
<1> QED BY <1>1, <1>2

LEMMA BeginsInTurn ==
    ASSUME Inv, InTurn, NEW h \in Handlers, StepAlone(h),
           \/ BeginInitialize(h) \/ (\E a \in Attempts : BeginWebhook(h, a))
           \/ \E t \in Txns : BeginRepair(h, t)
    PROVE  InTurn'
<1>0. call \in [Handlers -> CallState]
  BY RestTypes, Shapes
<1>1. CASE BeginInitialize(h)
  <2>1. txn' = txn /\ sent' = sent /\ call'[h].pc = "looking"
    BY <1>0, <1>1, IdleState DEF BeginInitialize, Outbox, CallState
  <2> QED BY <2>1, SentKept, TurnKept DEF KeepsStatus, Carries, Starting, At
<1>2. ASSUME NEW a \in Attempts, BeginWebhook(h, a) PROVE InTurn'
  <2>1. txn' = txn /\ sent' = sent /\ call'[h].pc = "settling"
    BY <1>0, <1>2, IdleState DEF BeginWebhook, Outbox, CallState
  <2> QED BY <2>1, TurnGoesOn DEF KeepsStatus
<1>3. ASSUME NEW t \in Txns, BeginRepair(h, t) PROVE InTurn'
  <2>1. txn' = txn /\ sent' = sent /\ call'[h].t = t /\ call'[h].row = txn[t]
    BY <1>0, <1>3, IdleState DEF BeginRepair, Outbox, CallState
  <2> QED BY <2>1, SentKept, TurnKept DEF KeepsStatus
<1> QED BY <1>1, <1>2, <1>3

LEMMA LookupInTurn ==
    ASSUME Inv, InTurn, NEW h \in Handlers, StepAlone(h), Lookup(h)
    PROVE  InTurn'
<1>0. call \in [Handlers -> CallState] /\ txn' = txn /\ sent' = sent
  BY RestTypes, Shapes DEF Lookup, Outbox
<1>1. ASSUME NEW t \in Pending,
             call' = [call EXCEPT ![h].t = t, ![h].row = txn[t], ![h].pc = "resolving"]
      PROVE  InTurn'
  <2>1. call'[h].t = t /\ call'[h].row = txn[t]
    BY <1>0, <1>1 DEF CallState
  <2> QED BY <1>0, <2>1, SentKept, TurnKept DEF KeepsStatus
<1>2. CASE Goto(h, "creating")
  <2>1. call'[h].pc = "creating"
    BY <1>0, <1>2 DEF Goto, CallState
  <2> QED BY <1>0, <2>1, SentKept, TurnKept DEF KeepsStatus, Carries, Starting, At
<1>3. CASE Finish(h)
  BY <1>0, <1>3, GotoInTurn DEF KeepsStatus
<1> QED BY <1>1, <1>2, <1>3 DEF Lookup

LEMMA CreateInTurn ==
    ASSUME Inv, Inv', InTurn, NEW h \in Handlers, StepAlone(h), Create(h)
    PROVE  InTurn'
<1>0. /\ call \in [Handlers -> CallState] /\ txn \in [Txns -> TxnRow] /\ sent' = sent
      /\ sent \in [Txns -> [Completed -> Nat]]
  BY RestTypes, Shapes DEF Create, Outbox
<1>1. PICK t, row : /\ t = 1 + Cardinality({u \in Txns : txn[u].status # "none"})
                    /\ row = [NoTxn EXCEPT !.status = "pending"]
  OBVIOUS
<1>2. CASE /\ Pending = {} /\ t \in Txns
           /\ txn' = [txn EXCEPT ![t] = row]
           /\ call' = [call EXCEPT ![h].t = t, ![h].row = row, ![h].pc = "reserving"]
  <2>1. row \in TxnRow /\ row.status = "pending"
    BY <1>1, IdleState DEF TxnRow, NoTxn, TransactionStatus
  <2>2. call'[h].t = t /\ call'[h].row = row /\ txn'[t] = row
    BY <1>0, <1>2 DEF CallState
  <2>3. txn[t].status = "none"
    <3>1. t \notin MadeTxns
      BY <1>1, NextNumber DEF Inv, Numbered, MadeTxns
    <3> QED BY <1>2, <3>1 DEF MadeTxns
  <2>4. SentMatches'
    BY <1>0, <1>2, <2>3 DEF InTurn, SentMatches, Completed
  <2> QED BY <2>2, <2>4, TurnKept
<1>3. CASE Finish(h) /\ txn' = txn
  BY <1>0, <1>3, GotoInTurn DEF KeepsStatus
<1> QED BY <1>1, <1>2, <1>3 DEF Create

LEMMA ResolveInTurn ==
    ASSUME Inv, InTurn, NEW h \in Handlers, StepAlone(h), Resolve(h)
    PROVE  InTurn'
<1>0. call \in [Handlers -> CallState] /\ txn' = txn /\ sent' = sent /\ call[h].pc = "resolving"
  BY RestTypes, Shapes DEF Resolve, Outbox, At
<1>1. call'[h].t = call[h].t /\ call'[h].row = call[h].row
  BY <1>0 DEF Resolve, CallState
<1> QED BY <1>0, <1>1, TurnGoesOn DEF KeepsStatus, Carries, Starting, At

LEMMA VerifyInTurn ==
    ASSUME Inv, InTurn, NEW h \in Handlers, StepAlone(h), Verify(h)
    PROVE  InTurn'
<1>0. call \in [Handlers -> CallState] /\ txn' = txn /\ sent' = sent /\ call[h].pc = "verifying"
  BY RestTypes, Shapes DEF Verify, Outbox, At
<1>1. call'[h].t = call[h].t /\ call'[h].row = call[h].row
  BY <1>0 DEF Verify, CallState
<1> QED BY <1>0, <1>1, TurnGoesOn DEF KeepsStatus, Carries, Starting, At

LEMMA CancelInTurn ==
    ASSUME Inv, InTurn, NEW h \in Handlers, StepAlone(h), Cancel(h)
    PROVE  InTurn'
<1>0. call \in [Handlers -> CallState] /\ txn' = txn /\ sent' = sent /\ call[h].pc = "cancelling"
  BY RestTypes, Shapes DEF Cancel, Outbox, At
<1>1. call'[h].t = call[h].t /\ call'[h].row = call[h].row
  BY <1>0 DEF Cancel, CallState, Goto
<1> QED BY <1>0, <1>1, TurnGoesOn DEF KeepsStatus, Carries, Starting, At

\* Steps that touch no transaction and only move the call.
LEMMA MovesInTurn ==
    ASSUME Inv, InTurn, NEW h \in Handlers, StepAlone(h),
           \/ SaveReplaced(h) \/ Reserve(h) \/ InitializeOrder(h) \/ MarkInitFailed(h)
           \/ Release(h) \/ Activate(h) \/ Crash(h) \/ StatementFails(h)
    PROVE  InTurn'
<1>1. txn' = txn /\ sent' = sent
  BY DEF SaveReplaced, Reserve, InitializeOrder, MarkInitFailed, Release, Activate, Crash,
         StatementFails, Outbox
<1>2. \/ Finish(h)
      \/ \E pc \in {"reserving", "clearing", "attempting", "flagging", "activating", "initFailed",
                    "noting", "activated"} : Goto(h, pc)
      \/ \E pc \in {"reserving", "flagging", "attempting", "releasing", "noting"} : Goto(h, pc)
  BY DEF SaveReplaced, Reserve, InitializeOrder, MarkInitFailed, Release, Activate, Crash,
         StatementFails, After
<1>3. Crash(h) => Finish(h)
  BY DEF Crash
<1>4. ~Crash(h) => Carries(h)
  BY DEF SaveReplaced, Reserve, InitializeOrder, MarkInitFailed, Release, Activate,
         StatementFails, After, Carries, Starting, At
<1> QED BY <1>1, <1>2, <1>3, <1>4, GotoInTurn DEF KeepsStatus, Places

\* The saves of a transaction.
LEMMA SavesInTurn ==
    ASSUME Inv, InTurn, NEW h \in Handlers, StepAlone(h),
           Flag(h) \/ ClearFlag(h) \/ NoteInitFailed(h) \/ ReturnLink(h) \/ Mark(h)
    PROVE  InTurn'
<1>1. PICK c : c = call[h]
  OBVIOUS
<1>2. /\ c.pc \in {"flagging", "clearing", "noting", "activated", "marking"} /\ c \in CallState
      /\ call \in [Handlers -> CallState] /\ sent' = sent
  BY <1>1, RestTypes, Shapes DEF Flag, ClearFlag, NoteInitFailed, ReturnLink, Mark, At, Outbox
<1>3. Carries(h) /\ c.t \in Txns /\ c.row \in TxnRow /\ c.row.status = txn[c.t].status
  <2>1. Carries(h)
    BY <1>1, <1>2 DEF Carries, Starting
  <2>2. c.t \in MadeTxns
    BY <1>1, <1>2 DEF Inv, CallInv, CallOK, Starting
  <2> QED BY <1>1, <1>2, <2>1, <2>2 DEF InTurn, StatusMatches, MadeTxns, CallState
<1>4. KeepsStatus
  <2>1. \E row : row.status = c.row.status /\ txn' = Saved(c.t, row)
    BY <1>1, <1>3 DEF Flag, ClearFlag, NoteInitFailed, ReturnLink, Mark, TxnRow
  <2> QED BY <1>3, <2>1, SaveKeepsStatus
<1>5. CASE ClearFlag(h)
  <2>1. PICK row : row = [c.row EXCEPT !.repair = FALSE]
    OBVIOUS
  <2>2. call' = [call EXCEPT ![h].row = row, ![h].pc = "attempting"]
    BY <1>1, <1>5, <2>1 DEF ClearFlag
  <2>3. call'[h].t = c.t /\ call'[h].row = row /\ row.status = c.row.status
    BY <1>1, <1>2, <1>3, <2>1, <2>2 DEF CallState, TxnRow
  <2> QED BY <1>1, <1>2, <1>3, <1>4, <2>3, TurnGoesOn
<1>6. CASE ~ClearFlag(h)
  <2>1. Finish(h) \/ Goto(h, "releasing")
    BY <1>6 DEF Flag, NoteInitFailed, ReturnLink, Mark
  <2> QED BY <1>2, <1>3, <1>4, <2>1, GotoInTurn DEF Places
<1> QED BY <1>5, <1>6

LEMMA CreateAttemptInTurn ==
    ASSUME Inv, InTurn, NEW h \in Handlers, StepAlone(h), CreateAttempt(h)
    PROVE  InTurn'
<1>1. PICK c, row, new : /\ c = call[h] /\ row = [c.row EXCEPT !.current = new]
                         /\ new = 1 + Cardinality({a \in Attempts : attempt[a].status # "none"})
  OBVIOUS
<1>2. /\ c.pc = "attempting" /\ sent' = sent /\ call \in [Handlers -> CallState]
      /\ c \in CallState /\ c.t \in Txns /\ Carries(h) /\ c.row.status = txn[c.t].status
      /\ txn \in [Txns -> TxnRow]
  BY <1>1, RestTypes, Shapes
     DEF CreateAttempt, At, Outbox, Inv, CallInv, CallOK, Starting, InTurn, StatusMatches,
         Carries, MadeTxns
<1>3. row.status = c.row.status
  BY <1>1, <1>2 DEF CallState, TxnRow
<1>4. txn' = txn \/ txn' = [txn EXCEPT ![c.t] = row]
  BY <1>1 DEF CreateAttempt
<1>5. KeepsStatus
  BY <1>2, <1>3, <1>4 DEF KeepsStatus
<1>6. CASE call' = [call EXCEPT ![h].row = row, ![h].a = new,
                      ![h].mine = "initializing", ![h].pc = "initializing"]
  <2>1. call'[h].t = c.t /\ call'[h].row = row
    BY <1>1, <1>2, <1>6 DEF CallState
  <2> QED BY <1>1, <1>2, <1>3, <1>5, <2>1, TurnGoesOn
<1>7. CASE call' = [call EXCEPT ![h].row = row, ![h].pc = "releasing"]
  <2>1. call'[h].t = c.t /\ call'[h].row = row
    BY <1>1, <1>2, <1>7 DEF CallState
  <2> QED BY <1>1, <1>2, <1>3, <1>5, <2>1, TurnGoesOn
<1>8. CASE Goto(h, "releasing")
  BY <1>2, <1>5, <1>8, GotoInTurn DEF Places
<1> QED BY <1>1, <1>6, <1>7, <1>8 DEF CreateAttempt

LEMMA ReadTxnInTurn ==
    ASSUME Inv, InTurn, NEW h \in Handlers, StepAlone(h), ReadTxn(h)
    PROVE  InTurn'
<1>1. txn' = txn /\ sent' = sent /\ call \in [Handlers -> CallState]
  BY RestTypes, Shapes DEF ReadTxn, Outbox
<1>2. CASE call' = [call EXCEPT ![h].row = txn[call[h].t], ![h].pc = "deciding"]
  <2>1. call'[h].t = call[h].t /\ call'[h].row = txn[call[h].t]
    BY <1>1, <1>2 DEF CallState
  <2> QED BY <1>1, <2>1, SentKept, TurnKept DEF KeepsStatus
<1>3. CASE Finish(h)
  BY <1>1, <1>3, GotoInTurn DEF KeepsStatus
<1> QED BY <1>2, <1>3 DEF ReadTxn

\* A pending transaction has not been announced.
LEMMA SettleInTurn ==
    ASSUME Inv, InTurn, NEW h \in Handlers, StepAlone(h), Settle(h)
    PROVE  InTurn'
<1>1. PICK c, row : c = call[h] /\ row = Settled(c)
  OBVIOUS
<1>2. /\ c.pc = "deciding" /\ sent' = sent /\ call \in [Handlers -> CallState]
      /\ c \in CallState /\ c.t \in Txns /\ Carries(h) /\ c.row.status = txn[c.t].status
      /\ txn \in [Txns -> TxnRow]
  BY <1>1, RestTypes, Shapes
     DEF Settle, At, Inv, CallInv, CallOK, Starting, InTurn, StatusMatches, Carries, MadeTxns
<1>3. CASE Finish(h) /\ txn' = txn
  BY <1>2, <1>3, GotoInTurn DEF KeepsStatus
<1>4. CASE /\ Finalizes(c) /\ txn' = [txn EXCEPT ![c.t] = row]
           /\ call' = [call EXCEPT ![h].row = row, ![h].pc = "staged"]
  <2>1. call'[h].t = c.t /\ call'[h].row = row /\ txn'[c.t] = row
    BY <1>1, <1>2, <1>4 DEF CallState
  <2>2. txn[c.t].status = "pending"
    BY <1>2, <1>4 DEF Finalizes
  <2>3. SentMatches'
    BY <1>2, <1>4, <2>2 DEF InTurn, SentMatches, Completed
  <2> QED BY <2>1, <2>3, TurnKept
<1> QED BY <1>1, <1>3, <1>4 DEF Settle

\* What is announced is what the table says.
LEMMA CommitOutboxInTurn ==
    ASSUME Inv, InTurn, NEW h \in Handlers, StepAlone(h), CommitOutbox(h)
    PROVE  InTurn'
<1>1. PICK c : c = call[h]
  OBVIOUS
<1>2. /\ c.pc = "staged" /\ txn' = txn /\ call \in [Handlers -> CallState]
      /\ c \in CallState /\ c.t \in Txns /\ Carries(h) /\ c.row.status = txn[c.t].status
      /\ sent \in [Txns -> [Completed -> Nat]] /\ Goto(h, "marking")
      /\ sent' = [sent EXCEPT ![c.t][c.row.status] = @ + 1]
  BY <1>1, RestTypes, Shapes
     DEF CommitOutbox, At, Inv, CallInv, CallOK, Starting, InTurn, StatusMatches, Carries, MadeTxns
<1>3. call'[h].t = c.t /\ call'[h].row = c.row
  BY <1>1, <1>2 DEF Goto, CallState
<1>4. SentMatches'
  <2>1. \A t \in Txns, s \in Completed : sent'[t][s] = sent[t][s] \/ (t = c.t /\ s = c.row.status)
    BY <1>2
  <2> QED BY <1>2, <2>1 DEF InTurn, SentMatches
<1> QED BY <1>1, <1>2, <1>3, <1>4, TurnKept

\* Steps of no handler.
LEMMA OutsideInTurn ==
    ASSUME InTurn, call' = call, txn' = txn, sent' = sent
    PROVE  InTurn'
BY DEF InTurn, Alone, StatusMatches, SentMatches, Busy, Carries, At

\* A step of a handler, and whose it is.
StepOf(h) == \/ BeginInitialize(h) \/ Progress(h) \/ Crash(h) \/ StatementFails(h)
             \/ \E a \in Attempts : BeginWebhook(h, a)
             \/ \E t \in Txns : BeginRepair(h, t)

LEMMA StepsLeaveOthers ==
    ASSUME Inv, NEW h \in Handlers, StepOf(h)
    PROVE  /\ \A g \in Handlers \ {h} : call'[g] = call[g]
           /\ (overlapped' = overlapped /\ Busy(h)) \/ Begun(h) \/ overlapped' = TRUE
<1>0. call \in [Handlers -> CallState]
  BY RestTypes, Shapes
<1>1. ASSUME NEW g \in Handlers, g # h PROVE call'[g] = call[g]
  <2>1. CASE Initialize(h)
    BY <1>0, <1>1, <2>1
       DEF Initialize, Lookup, Create, Resolve, Cancel, Verify, SaveReplaced, Reserve, Flag,
           ClearFlag, CreateAttempt, InitializeOrder, MarkInitFailed, NoteInitFailed, Release,
           Activate, ReturnLink, Goto, Finish
  <2>2. CASE StepOf(h) /\ ~Initialize(h)
    BY <1>0, <1>1, <2>2
       DEF StepOf, Progress, BeginInitialize, ReadTxn, Settle, CommitOutbox, Mark, Crash,
           StatementFails, BeginWebhook, BeginRepair, Goto, Finish
  <2> QED BY <2>1, <2>2
<1>2. (overlapped' = overlapped /\ Busy(h)) \/ Begun(h) \/ overlapped' = TRUE
  <2>1. CASE Initialize(h)
    BY <2>1
       DEF Initialize, Lookup, Create, Resolve, Cancel, Verify, SaveReplaced, Reserve, Flag,
           ClearFlag, CreateAttempt, InitializeOrder, MarkInitFailed, NoteInitFailed, Release,
           Activate, ReturnLink, Busy, At, Bounds
  <2>2. CASE StepOf(h) /\ ~Initialize(h)
    BY <2>2
       DEF StepOf, Progress, BeginInitialize, ReadTxn, Settle, CommitOutbox, Mark, Crash,
           StatementFails, BeginWebhook, BeginRepair, Busy, At, Bounds, After
  <2> QED BY <2>1, <2>2
<1> QED BY <1>1, <1>2

LEMMA SerialStep == ASSUME Inv, Inv', SerialInv, [Next]_vars PROVE SerialInv'
<1>1. ASSUME NEW h \in Handlers, StepOf(h), ~overlapped' PROVE InTurn'
  <2>1. InTurn /\ StepAlone(h)
    BY <1>1, StepsLeaveOthers, SteppedAlone
  <2> QED BY <1>1, <2>1, BeginsInTurn, LookupInTurn, CreateInTurn, ResolveInTurn, CancelInTurn,
             VerifyInTurn, MovesInTurn, SavesInTurn, CreateAttemptInTurn, ReadTxnInTurn,
             SettleInTurn, CommitOutboxInTurn
          DEF StepOf, Progress, Initialize
<1>2. ASSUME UNCHANGED <<call, txn, sent, overlapped>> PROVE SerialInv'
  BY <1>2, OutsideInTurn DEF SerialInv
<1>3. \/ \E h \in Handlers : StepOf(h)
      \/ UNCHANGED <<call, txn, sent, overlapped>>
  BY DEF Next, StepOf, OrderSettles, EventArrives, ReservationLapses, vars, Outbox, Bounds
<1> QED BY <1>1, <1>2, <1>3 DEF SerialInv

LEMMA SerialAlways == Spec => []SerialInv
<1>1. Init => SerialInv
  BY IdleState DEF Init, SerialInv, InTurn, Alone, StatusMatches, SentMatches, Busy, Carries, At,
                   Starting, NoTxn
<1>2. Inv /\ Inv' /\ SerialInv /\ [Next]_vars => SerialInv'
  BY SerialStep
<1> QED BY <1>1, <1>2, InvAlways, PTL DEF Spec

\* While calls run one at a time no transaction is announced with both outcomes,
\* whatever crashed, was retried or was repaired in between: a completed transaction
\* is not decided again, and every save writes back the status the table has.
THEOREM OneVerdictInTurn == Spec => []OneVerdict
<1>1. Inv /\ SerialInv => OneVerdict
  <2> SUFFICES ASSUME Inv, InTurn, NEW t \in Txns
               PROVE  sent[t]["successful"] = 0 \/ sent[t]["failed"] = 0
    BY DEF SerialInv, OneVerdict
  <2>1. sent[t] \in [Completed -> Nat]
    BY RestTypes, Shapes
  <2> QED BY <2>1 DEF InTurn, SentMatches, Completed
<1> QED BY <1>1, InvAlways, SerialAlways, PTL

-----------------------------------------------------------------------------
(***************************************************************************)
(* Orders that can be paid, while calls run one at a time and the provider *)
(* refuses nothing.  A transaction that is pending knows the one order of  *)
(* its own that is alive (OnlyCurrent), in the table and in the copies; a  *)
(* completed one has none left that could be paid (NoneLeft); and there is *)
(* one pending transaction.                                                *)
(***************************************************************************)

OnePending == \A t, u \in Pending : t = u

Alive == {"created", "open", "paid"}
Payable == {"created", "open"}

OnlyCurrent(t, row) ==
    row.status = "pending" =>
       \A a \in Attempts : attempt[a].txn = t /\ order[a] \in Alive => row.current = a

\* An attempt is not written off while its order can still be, or has been, paid.
NotReplaced ==
    \A a \in Attempts :
        order[a] \in Alive /\ txn[attempt[a].txn].status = "pending" => attempt[a].status \in Live

NoneLeft == \A a \in Attempts : order[a] \in Payable => txn[attempt[a].txn].status = "pending"

\* InitializePayment, from the transaction found to the link.
Opening == {"resolving", "cancelling", "verifying", "saving", "reserving", "flagging", "clearing",
            "attempting", "initializing", "releasing", "activating", "activated"}

OrderCallOK(h) ==
    LET c == call[h]
    IN  /\ Carries(h) => OnlyCurrent(c.t, c.row)
        /\ c.pc \notin {"initFailed", "noting"}
        /\ c.pc \in Opening => c.row.status = "pending"
        /\ c.pc = "verifying" => order[c.a] \notin Payable
        /\ c.pc = "saving" => order[c.a] \notin Alive
        /\ c.pc = "initializing" => /\ c.row.current = c.a /\ txn[c.t].current = c.a
                                    /\ attempt[c.a].status \in Live

OrderRows == (\A t \in Txns : OnlyCurrent(t, txn[t])) /\ NotReplaced /\ NoneLeft
OrdersInTurn == OrderRows /\ \A h \in Handlers : OrderCallOK(h)

OrderInv == ~overlapped /\ refusals = 0 => OrdersInTurn

\* The orders that are alive belong to transactions that were made.
LEMMA AliveIsMade ==
    ASSUME Inv, NEW a \in Attempts, order[a] \in Alive
    PROVE  a \in MadeAttempts /\ attempt[a].txn \in MadeTxns /\ attempt[a].txn \in Txns
BY DEF Inv, AttemptInv, Alive, MadeTxns

LEMMA IdleOrderCall ==
    ASSUME NEW h \in Handlers, call[h].pc \in {"idle", "looking", "creating", "settling"}
    PROVE  OrderCallOK(h)
BY DEF OrderCallOK, Carries, Opening, Starting

\* What a step that h takes alone has to show.
LEMMA OrdersKeptInTurn ==
    ASSUME NEW h \in Handlers, StepAlone(h), OrderRows', OrderCallOK(h)'
    PROVE  OrdersInTurn'
<1>1. ASSUME NEW g \in Handlers \ {h} PROVE OrderCallOK(g)'
  <2>1. call'[g].pc = "idle"
    BY DEF StepAlone, Busy, At
  <2> QED BY <2>1 DEF OrderCallOK, Carries, Opening, Starting
<1> QED BY <1>1 DEF OrdersInTurn

\* Nothing changes but that orders end.
OrdersOnlyEnd ==
    \A a \in Attempts : /\ order'[a] \in Alive => order[a] \in Alive
                        /\ order'[a] \in Payable => order[a] \in Payable

LEMMA RowsStay ==
    ASSUME OrderRows, txn' = txn, attempt' = attempt, OrdersOnlyEnd
    PROVE  OrderRows' /\ \A t, row : OnlyCurrent(t, row) => OnlyCurrent(t, row)'
BY DEF OrderRows, OnlyCurrent, NotReplaced, NoneLeft, OrdersOnlyEnd

\* A call that goes on, in a step that changes no row.
LEMMA OrderGoto ==
    ASSUME Inv, OrdersInTurn, NEW h \in Handlers, StepAlone(h),
           txn' = txn, attempt' = attempt, OrdersOnlyEnd,
           call'[h].t = call[h].t, call'[h].row = call[h].row, Carries(h),
           call[h].row.status = "pending" \/ call'[h].pc \notin Opening,
           call'[h].pc \notin {"initFailed", "noting", "initializing"},
           call'[h].pc = "verifying" => order'[call'[h].a] \notin Payable,
           call'[h].pc = "saving" => order'[call'[h].a] \notin Alive
    PROVE  OrdersInTurn'
<1>1. OrderRows' /\ OnlyCurrent(call[h].t, call[h].row)'
  <2>1. OrderRows /\ OnlyCurrent(call[h].t, call[h].row)
    BY DEF OrdersInTurn, OrderCallOK
  <2>2. PICK t, row : t = call[h].t /\ row = call[h].row
    OBVIOUS
  <2>3. OnlyCurrent(t, row)'
    BY <2>1, <2>2, RowsStay
  <2>4. OrderRows'
    BY <2>1, RowsStay
  <2> QED BY <2>2, <2>3, <2>4
<1>2. OrderCallOK(h)'
  BY <1>1 DEF OrderCallOK
<1> QED BY <1>1, <1>2, OrdersKeptInTurn

LEMMA OrderEnds ==
    ASSUME NEW h \in Handlers, StepAlone(h), OrderRows',
           call'[h].pc \in {"idle", "looking", "creating", "settling"}
    PROVE  OrdersInTurn'
<1>1. OrderCallOK(h)'
  BY IdleOrderCall DEF OrderCallOK, Carries, Opening, Starting
<1> QED BY <1>1, OrdersKeptInTurn

\* Handlers that begin, end, or have read no row yet.
LEMMA BeginsInOrder ==
    ASSUME Inv, OrdersInTurn, NEW h \in Handlers, StepAlone(h),
           \/ BeginInitialize(h) \/ (\E a \in Attempts : BeginWebhook(h, a))
           \/ \E t \in Txns : BeginRepair(h, t)
    PROVE  OrdersInTurn'
<1>0. call \in [Handlers -> CallState]
  BY RestTypes, Shapes
<1>1. OrderRows'
  BY RowsStay DEF OrdersInTurn, OrdersOnlyEnd, BeginInitialize, BeginWebhook, BeginRepair
<1>2. CASE BeginInitialize(h)
  <2>1. call'[h].pc = "looking"
    BY <1>0, <1>2, IdleState DEF BeginInitialize, CallState
  <2> QED BY <1>1, <2>1, OrderEnds
<1>3. ASSUME NEW a \in Attempts, BeginWebhook(h, a) PROVE OrdersInTurn'
  <2>1. call'[h].pc = "settling"
    BY <1>0, <1>3, IdleState DEF BeginWebhook, CallState
  <2> QED BY <1>1, <2>1, OrderEnds
<1>4. ASSUME NEW t \in Txns, BeginRepair(h, t) PROVE OrdersInTurn'
  <2>1. call'[h].t = t /\ call'[h].row = txn[t] /\ call'[h].pc = "staged"
    BY <1>0, <1>4, IdleState DEF BeginRepair, CallState
  <2>2. txn[t].status # "pending" /\ txn' = txn
    BY <1>4 DEF BeginRepair, requiresPaymentStatusEvent, Completed
  <2>3. OrderCallOK(h)'
    BY <2>1, <2>2 DEF OrderCallOK, OnlyCurrent, Opening
  <2> QED BY <1>1, <2>3, OrdersKeptInTurn
<1> QED BY <1>2, <1>3, <1>4

LEMMA LookupInOrder ==
    ASSUME Inv, OrdersInTurn, NEW h \in Handlers, StepAlone(h), Lookup(h)
    PROVE  OrdersInTurn'
<1>0. /\ call \in [Handlers -> CallState] /\ txn' = txn /\ attempt' = attempt /\ order' = order
  BY RestTypes, Shapes DEF Lookup
<1>1. OrderRows'
  BY <1>0, RowsStay DEF OrdersInTurn, OrdersOnlyEnd
<1>2. ASSUME NEW t \in Pending,
             call' = [call EXCEPT ![h].t = t, ![h].row = txn[t], ![h].pc = "resolving"]
      PROVE  OrdersInTurn'
  <2>1. /\ call'[h].t = t /\ call'[h].row = txn[t] /\ call'[h].pc = "resolving"
        /\ t \in Txns /\ txn[t].status = "pending"
    BY <1>0, <1>2 DEF CallState, Pending
  <2>2. OnlyCurrent(t, txn[t])'
    BY <1>1, <2>1 DEF OrderRows
  <2>3. OrderCallOK(h)'
    BY <1>0, <2>1, <2>2 DEF OrderCallOK
  <2> QED BY <1>1, <2>3, OrdersKeptInTurn
<1>3. CASE Finish(h) \/ Goto(h, "creating")
  <2>1. call'[h].pc \in {"idle", "creating"}
    BY <1>0, <1>3, IdleState DEF Finish, Goto, CallState
  <2> QED BY <1>1, <2>1, OrderEnds
<1> QED BY <1>2, <1>3 DEF Lookup

\* A new transaction has no attempts.
LEMMA CreateInOrder ==
    ASSUME Inv, OrdersInTurn, NEW h \in Handlers, StepAlone(h), Create(h)
    PROVE  OrdersInTurn'
<1>0. /\ call \in [Handlers -> CallState] /\ attempt' = attempt /\ order' = order
      /\ txn \in [Txns -> TxnRow]
  BY RestTypes, Shapes DEF Create
<1>1. PICK t, row : /\ t = 1 + Cardinality({u \in Txns : txn[u].status # "none"})
                    /\ row = [NoTxn EXCEPT !.status = "pending"]
  OBVIOUS
<1>2. CASE /\ t \in Txns /\ txn' = [txn EXCEPT ![t] = row]
           /\ call' = [call EXCEPT ![h].t = t, ![h].row = row, ![h].pc = "reserving"]
  <2>1. row \in TxnRow /\ row.status = "pending"
    BY <1>1, IdleState DEF TxnRow, NoTxn, TransactionStatus
  <2>2. call'[h].t = t /\ call'[h].row = row /\ txn'[t] = row /\ call'[h].pc = "reserving"
    BY <1>0, <1>2 DEF CallState
  <2>3. t \notin MadeTxns
    BY <1>1, NextNumber DEF Inv, Numbered, MadeTxns
  <2>4. \A a \in Attempts : order[a] \in Alive => attempt[a].txn # t /\ attempt[a].txn \in Txns
    BY <2>3, AliveIsMade
  <2>5. \A a \in Attempts : order[a] \in Alive => txn'[attempt[a].txn] = txn[attempt[a].txn]
    BY <1>0, <1>2, <2>4
  <2>6. NotReplaced' /\ NoneLeft'
    BY <1>0, <2>5 DEF OrdersInTurn, OrderRows, NotReplaced, NoneLeft, Alive, Payable
  <2>7. \A u \in Txns : OnlyCurrent(u, txn[u])'
    <3>1. ASSUME NEW u \in Txns, u # t PROVE OnlyCurrent(u, txn[u])'
      BY <1>0, <1>2, <3>1 DEF OrdersInTurn, OrderRows, OnlyCurrent
    <3>2. OnlyCurrent(t, txn[t])'
      BY <1>0, <2>4 DEF OnlyCurrent
    <3> QED BY <3>1, <3>2
  <2>8. OrderCallOK(h)'
    BY <1>0, <2>1, <2>2, <2>4 DEF OrderCallOK, OnlyCurrent
  <2> QED BY <2>6, <2>7, <2>8, OrdersKeptInTurn DEF OrderRows
<1>3. CASE Finish(h) /\ txn' = txn
  <2>1. OrderRows'
    BY <1>0, <1>3, RowsStay DEF OrdersInTurn, OrdersOnlyEnd
  <2>2. call'[h].pc = "idle"
    BY <1>0, <1>3, IdleState DEF Finish
  <2> QED BY <2>1, <2>2, OrderEnds
<1> QED BY <1>1, <1>2, <1>3 DEF Create

LEMMA ResolveInOrder ==
    ASSUME Inv, OrdersInTurn, NEW h \in Handlers, StepAlone(h), Resolve(h)
    PROVE  OrdersInTurn'
<1>0. /\ call \in [Handlers -> CallState] /\ txn' = txn /\ attempt' = attempt /\ order' = order
      /\ call[h].pc = "resolving"
  BY RestTypes, Shapes DEF Resolve, At
<1>1. /\ call'[h].t = call[h].t /\ call'[h].row = call[h].row
      /\ call'[h].pc \in {"cancelling", "reserving"}
  BY <1>0 DEF Resolve, CallState
<1>2. Carries(h) /\ call[h].row.status = "pending"
  BY <1>0 DEF Carries, Starting, OrdersInTurn, OrderCallOK, Opening
<1> QED BY <1>0, <1>1, <1>2, OrderGoto DEF OrdersOnlyEnd

\* An order that the provider cancels, or has seen end, is not alive.
LEMMA CancelInOrder ==
    ASSUME Inv, OrdersInTurn, NEW h \in Handlers, StepAlone(h), Cancel(h), refusals' = 0
    PROVE  OrdersInTurn'
<1>0. /\ call \in [Handlers -> CallState] /\ txn' = txn /\ attempt' = attempt
      /\ call[h].pc = "cancelling" /\ order \in [Attempts -> OrderStatus] /\ refusals \in Nat
  BY RestTypes, Shapes DEF Cancel, At
<1>1. PICK a : a = call[h].a
  OBVIOUS
<1>2. a \in Attempts
  BY <1>0, <1>1 DEF Inv, CallInv, CallOK, AboutAttempt, Mine
<1>3. ~Refusal
  BY <1>0 DEF Refusal
<1>4. Carries(h) /\ call[h].row.status = "pending"
  BY <1>0 DEF Carries, Starting, OrdersInTurn, OrderCallOK, Opening
<1>5. CASE /\ order[a] # "paid" /\ order' = OrderCancelled(a)
           /\ call' = [call EXCEPT ![h].mine = "cancelled", ![h].pc = "saving"]
  <2>1. /\ call'[h].t = call[h].t /\ call'[h].row = call[h].row /\ call'[h].a = a
        /\ call'[h].pc = "saving"
    BY <1>0, <1>1, <1>5 DEF CallState
  <2>2. order'[a] \notin Alive /\ \A b \in Attempts \ {a} : order'[b] = order[b]
    BY <1>0, <1>2, <1>5 DEF OrderCancelled, Alive
  <2>3. OrdersOnlyEnd
    BY <2>2 DEF OrdersOnlyEnd, Alive, Payable
  <2> QED BY <1>0, <1>4, <2>1, <2>2, <2>3, OrderGoto
<1>6. CASE order[a] \notin {"created", "open"} /\ Goto(h, "verifying") /\ order' = order
  <2>1. /\ call'[h].t = call[h].t /\ call'[h].row = call[h].row /\ call'[h].a = a
        /\ call'[h].pc = "verifying"
    BY <1>0, <1>1, <1>6 DEF Goto, CallState
  <2> QED BY <1>0, <1>4, <1>6, <2>1, OrderGoto DEF OrdersOnlyEnd, Payable
<1> QED BY <1>1, <1>3, <1>5, <1>6 DEF Cancel

LEMMA VerifyInOrder ==
    ASSUME Inv, OrdersInTurn, NEW h \in Handlers, StepAlone(h), Verify(h), refusals' = 0
    PROVE  OrdersInTurn'
<1>0. /\ call \in [Handlers -> CallState] /\ txn' = txn /\ attempt' = attempt /\ order' = order
      /\ call[h].pc = "verifying" /\ order \in [Attempts -> OrderStatus] /\ refusals \in Nat
  BY RestTypes, Shapes DEF Verify, At
<1>1. PICK a : a = call[h].a
  OBVIOUS
<1>2. a \in Attempts /\ order[a] \notin Payable
  BY <1>0, <1>1 DEF Inv, CallInv, CallOK, AboutAttempt, Mine, OrdersInTurn, OrderCallOK
<1>3. ~Refusal
  BY <1>0 DEF Refusal
<1>4. Carries(h) /\ call[h].row.status = "pending"
  BY <1>0 DEF Carries, Starting, OrdersInTurn, OrderCallOK, Opening
<1>5. CASE call' = [call EXCEPT ![h].outcome = Verified(a), ![h].pc = "settling"]
  <2>1. call'[h].pc = "settling"
    BY <1>0, <1>5 DEF CallState
  <2>2. OrderRows'
    BY <1>0, RowsStay DEF OrdersInTurn, OrdersOnlyEnd
  <2> QED BY <2>1, <2>2, OrderEnds
<1>6. ASSUME NEW s, Verified(a) # "successful",
             call' = [call EXCEPT ![h].mine = s, ![h].pc = "saving"]
      PROVE  OrdersInTurn'
  <2>1. order'[a] \notin Alive
    BY <1>0, <1>2, <1>6 DEF Verified, classifyProviderVerificationStatus, Alive, Payable
  <2>2. /\ call'[h].t = call[h].t /\ call'[h].row = call[h].row /\ call'[h].a = a
        /\ call'[h].pc = "saving"
    BY <1>0, <1>1, <1>6 DEF CallState
  <2> QED BY <1>0, <1>4, <2>1, <2>2, OrderGoto DEF OrdersOnlyEnd
<1> QED BY <1>1, <1>3, <1>5, <1>6 DEF Verify

\* A call that goes on without touching anything but the booking.
LEMMA MovesInOrder ==
    ASSUME Inv, OrdersInTurn, NEW h \in Handlers, StepAlone(h),
           Reserve(h) \/ Release(h) \/ CommitOutbox(h) \/ Crash(h) \/ StatementFails(h)
    PROVE  OrdersInTurn'
<1>0. call \in [Handlers -> CallState] /\ txn' = txn /\ attempt' = attempt /\ order' = order
  BY RestTypes, Shapes DEF Reserve, Release, CommitOutbox, Crash, StatementFails
<1>1. CASE Finish(h)
  <2>1. OrderRows' /\ call'[h].pc = "idle"
    BY <1>0, <1>1, RowsStay, IdleState DEF Finish, OrdersInTurn, OrdersOnlyEnd
  <2> QED BY <2>1, OrderEnds
<1>2. ASSUME NEW pc \in {"reserving", "clearing", "attempting", "flagging", "releasing"},
             Goto(h, pc), call[h].pc \in Opening
      PROVE  OrdersInTurn'
  <2>1. call'[h].t = call[h].t /\ call'[h].row = call[h].row /\ call'[h].pc = pc
    BY <1>0, <1>2 DEF Goto, CallState
  <2>2. Carries(h) /\ call[h].row.status = "pending"
    BY <1>2 DEF Carries, Starting, OrdersInTurn, OrderCallOK, Opening
  <2> QED BY <1>0, <2>1, <2>2, OrderGoto DEF OrdersOnlyEnd
<1>3. CASE CommitOutbox(h)
  <2>1. call'[h].t = call[h].t /\ call'[h].row = call[h].row /\ call'[h].pc = "marking"
    BY <1>0, <1>3 DEF CommitOutbox, Goto, CallState
  <2>2. Carries(h)
    BY <1>3 DEF CommitOutbox, At, Carries, Starting
  <2> QED BY <1>0, <2>1, <2>2, OrderGoto DEF OrdersOnlyEnd, Opening
<1>4. call[h].pc \notin {"initFailed", "noting"}
  BY DEF OrdersInTurn, OrderCallOK
<1> QED BY <1>1, <1>2, <1>3, <1>4
        DEF Reserve, Release, Crash, StatementFails, After, At, Opening

LEMMA SaveReplacedInOrder ==
    ASSUME Inv, OrdersInTurn, NEW h \in Handlers, StepAlone(h), SaveReplaced(h)
    PROVE  OrdersInTurn'
<1>1. PICK c : c = call[h]
  OBVIOUS
<1>2. /\ call \in [Handlers -> CallState] /\ txn' = txn /\ order' = order /\ c.pc = "saving"
      /\ attempt \in [Attempts -> AttemptRow] /\ c \in CallState
      /\ c.a \in Attempts /\ c.row.status = "pending" /\ order[c.a] \notin Alive
  BY <1>1, RestTypes, Shapes
     DEF SaveReplaced, At, Inv, CallInv, CallOK, AboutAttempt, Mine, OrdersInTurn, OrderCallOK,
         Opening
<1>3. \A a \in Attempts : /\ attempt'[a].txn = attempt[a].txn
                          /\ a # c.a => attempt'[a] = attempt[a]
  BY <1>1, <1>2 DEF SaveReplaced, SavedAttempt, AttemptRow
<1>4. OrderRows'
  BY <1>2, <1>3 DEF OrdersInTurn, OrderRows, OnlyCurrent, NotReplaced, NoneLeft, Alive, Payable
<1>5. /\ call'[h].t = c.t /\ call'[h].row = c.row /\ call'[h].pc = "reserving"
  BY <1>1, <1>2 DEF SaveReplaced, Goto, CallState
<1>6. OnlyCurrent(c.t, c.row)
  BY <1>1, <1>2 DEF OrdersInTurn, OrderCallOK, Carries, Starting
<1>7. OrderCallOK(h)'
  BY <1>2, <1>3, <1>5, <1>6 DEF OrderCallOK, OnlyCurrent
<1> QED BY <1>4, <1>7, OrdersKeptInTurn

\* The order is opened for the attempt that the transaction, and the copy, have as
\* the current one.
LEMMA InitializeOrderInOrder ==
    ASSUME Inv, InTurn, OrdersInTurn, NEW h \in Handlers, StepAlone(h),
           InitializeOrder(h), refusals' = 0
    PROVE  OrdersInTurn'
<1>1. PICK c : c = call[h]
  OBVIOUS
<1>2. /\ call \in [Handlers -> CallState] /\ txn' = txn /\ attempt' = attempt
      /\ order \in [Attempts -> OrderStatus] /\ refusals \in Nat
      /\ c.pc = "initializing" /\ c \in CallState /\ c.t \in Txns /\ Mine(c.t, c.a)
      /\ c.row.current = c.a /\ txn[c.t].current = c.a /\ attempt[c.a].status \in Live
      /\ c.row.status = "pending" /\ txn[c.t].status = "pending"
      /\ OnlyCurrent(c.t, c.row)
  BY <1>1, RestTypes, Shapes
     DEF InitializeOrder, At, Inv, CallInv, CallOK, Starting, AboutAttempt, OrdersInTurn,
         OrderCallOK, Opening, InTurn, StatusMatches, Carries, MadeTxns
<1>3. ~Refusal
  BY <1>2 DEF Refusal
<1>4. order' = [order EXCEPT ![c.a] = "created"] /\ Goto(h, "activating")
  BY <1>1, <1>3 DEF InitializeOrder, OrderCreated
<1>5. c.a \in Attempts /\ attempt[c.a].txn = c.t
  BY <1>2 DEF Mine
<1>6. \A a \in Attempts : a # c.a => order'[a] = order[a]
  BY <1>2, <1>4
<1>7. \A t \in Txns : \A row :
         OnlyCurrent(t, row) /\ (t = c.t => row.current = c.a) => OnlyCurrent(t, row)'
  BY <1>2, <1>5, <1>6 DEF OnlyCurrent
<1>8. \A t \in Txns : OnlyCurrent(t, txn[t])'
  BY <1>2, <1>7 DEF OrdersInTurn, OrderRows, OnlyCurrent
<1>9. NotReplaced' /\ NoneLeft'
  BY <1>2, <1>5, <1>6 DEF OrdersInTurn, OrderRows, NotReplaced, NoneLeft
<1>10. call'[h].t = c.t /\ call'[h].row = c.row /\ call'[h].pc = "activating"
  BY <1>1, <1>2, <1>4 DEF Goto, CallState
<1>11. OrderCallOK(h)'
  BY <1>2, <1>7, <1>10 DEF OrderCallOK, OnlyCurrent
<1> QED BY <1>8, <1>9, <1>11, OrdersKeptInTurn DEF OrderRows

LEMMA ActivateInOrder ==
    ASSUME Inv, OrdersInTurn, NEW h \in Handlers, StepAlone(h), Activate(h)
    PROVE  OrdersInTurn'
<1>1. PICK c : c = call[h]
  OBVIOUS
<1>2. /\ call \in [Handlers -> CallState] /\ txn' = txn /\ order' = order /\ c.pc = "activating"
      /\ attempt \in [Attempts -> AttemptRow] /\ c \in CallState
      /\ c.row.status = "pending" /\ OnlyCurrent(c.t, c.row)
  BY <1>1, RestTypes, Shapes
     DEF Activate, At, OrdersInTurn, OrderCallOK, Opening, Carries, Starting
<1>3. \A a \in Attempts : /\ attempt'[a].txn = attempt[a].txn
                          /\ attempt[a].status \in Live => attempt'[a].status \in Live
  BY <1>1, <1>2 DEF Activate, SavedAttempt, AttemptRow, Live
<1>4. OrderRows'
  BY <1>2, <1>3 DEF OrdersInTurn, OrderRows, OnlyCurrent, NotReplaced, NoneLeft, Alive, Payable
<1>5. CASE Finish(h)
  <2>1. call'[h].pc = "idle"
    BY <1>2, <1>5, IdleState DEF Finish
  <2> QED BY <1>4, <2>1, OrderEnds
<1>6. CASE Goto(h, "activated")
  <2>1. call'[h].t = c.t /\ call'[h].row = c.row /\ call'[h].pc = "activated"
    BY <1>1, <1>2, <1>6 DEF Goto, CallState
  <2>2. OrderCallOK(h)'
    BY <1>2, <1>3, <2>1 DEF OrderCallOK, OnlyCurrent
  <2> QED BY <1>4, <2>2, OrdersKeptInTurn
<1> QED BY <1>5, <1>6 DEF Activate

\* The saves of a transaction: what the handler carries may stand in the row.
LEMMA SavesInOrder ==
    ASSUME Inv, InTurn, OrdersInTurn, NEW h \in Handlers, StepAlone(h),
           Flag(h) \/ ClearFlag(h) \/ ReturnLink(h) \/ Mark(h)
    PROVE  OrdersInTurn'
<1>1. PICK c : c = call[h]
  OBVIOUS
<1>2. /\ c.pc \in {"flagging", "clearing", "activated", "marking"} /\ c \in CallState
      /\ call \in [Handlers -> CallState] /\ attempt' = attempt
      /\ order \in [Attempts -> OrderStatus] /\ txn \in [Txns -> TxnRow]
  BY <1>1, RestTypes, Shapes DEF Flag, ClearFlag, ReturnLink, Mark, At
<1>3. /\ c.t \in MadeTxns /\ c.t \in Txns /\ c.row \in TxnRow /\ c.row.status = txn[c.t].status
      /\ OnlyCurrent(c.t, c.row)
  BY <1>1, <1>2
     DEF Inv, CallInv, CallOK, Starting, InTurn, StatusMatches, Carries, MadeTxns, CallState,
         OrdersInTurn, OrderCallOK
<1>4. PICK row : row.status = c.row.status /\ row.current = c.row.current /\ txn' = Saved(c.t, row)
  BY <1>1, <1>3 DEF Flag, ClearFlag, ReturnLink, Mark, TxnRow
<1>5. \A t \in Txns : txn'[t] = txn[t] \/ (t = c.t /\ txn'[t] = row)
  BY <1>2, <1>3, <1>4 DEF Saved
<1>6. \A t \in Txns : txn'[t].status = txn[t].status
  BY <1>3, <1>4, <1>5
<1>7. \A a \in Attempts : /\ order'[a] \in Alive <=> order[a] \in Alive
                          /\ order'[a] \in Payable <=> order[a] \in Payable
  <2>1. order' = order
        \/ order' = [order EXCEPT ![c.a] = IF order[c.a] = "created" THEN "open" ELSE order[c.a]]
    BY <1>1 DEF Flag, ClearFlag, ReturnLink, Mark
  <2> QED BY <1>2, <2>1 DEF Alive, Payable
<1>8. \A t, r : OnlyCurrent(t, r) => OnlyCurrent(t, r)'
  BY <1>2, <1>7 DEF OnlyCurrent
<1>9. \A t \in Txns : OnlyCurrent(t, txn[t])'
  <2>1. ASSUME NEW t \in Txns, txn'[t] = txn[t] PROVE OnlyCurrent(t, txn[t])'
    <3>1. PICK r : r = txn[t]
      OBVIOUS
    <3>2. OnlyCurrent(t, r)'
      BY <1>8, <3>1 DEF OrdersInTurn, OrderRows
    <3> QED BY <2>1, <3>1, <3>2
  <2>2. OnlyCurrent(c.t, c.row)'
    BY <1>3, <1>8
  <2>3. ASSUME txn'[c.t] = row PROVE OnlyCurrent(c.t, txn[c.t])'
    BY <1>4, <2>2, <2>3 DEF OnlyCurrent
  <2> QED BY <1>5, <2>1, <2>3
<1>10. NotReplaced' /\ NoneLeft'
  <2>1. \A a \in Attempts : order[a] \in Alive =>
           txn'[attempt[a].txn].status = txn[attempt[a].txn].status
    BY <1>6, AliveIsMade
  <2> QED BY <1>2, <1>7, <2>1 DEF OrdersInTurn, OrderRows, NotReplaced, NoneLeft, Alive, Payable
<1>11. CASE Finish(h)
  <2>1. call'[h].pc = "idle"
    BY <1>2, <1>11, IdleState DEF Finish
  <2> QED BY <1>9, <1>10, <2>1, OrderEnds DEF OrderRows
<1>12. CASE ClearFlag(h)
  <2>1. PICK r : r = [c.row EXCEPT !.repair = FALSE]
    OBVIOUS
  <2>2. call' = [call EXCEPT ![h].row = r, ![h].pc = "attempting"]
    BY <1>1, <1>12, <2>1 DEF ClearFlag
  <2>3. /\ call'[h].t = c.t /\ call'[h].row = r /\ call'[h].pc = "attempting"
        /\ r.status = c.row.status /\ r.current = c.row.current
    BY <1>1, <1>2, <1>3, <2>1, <2>2 DEF CallState, TxnRow
  <2>4. c.row.status = "pending"
    BY <1>1, <1>12 DEF ClearFlag, At, OrdersInTurn, OrderCallOK, Opening
  <2>5. OnlyCurrent(c.t, c.row)'
    BY <1>3, <1>8
  <2>6. OrderCallOK(h)'
    BY <2>3, <2>4, <2>5 DEF OrderCallOK, OnlyCurrent
  <2> QED BY <1>9, <1>10, <2>6, OrdersKeptInTurn DEF OrderRows
<1> QED BY <1>11, <1>12 DEF Flag, ReturnLink, Mark

\* While no attempt of a pending transaction is live none of its orders is alive, so
\* that the new attempt may become the current one.
LEMMA CreateAttemptInOrder ==
    ASSUME Inv, InTurn, OrdersInTurn, NEW h \in Handlers, StepAlone(h), CreateAttempt(h)
    PROVE  OrdersInTurn'
<1>1. PICK c, row, new, resaved :
         /\ c = call[h] /\ row = [c.row EXCEPT !.current = new]
         /\ new = 1 + Cardinality({a \in Attempts : attempt[a].status # "none"})
         /\ resaved = IF c.mine \in {"cancelled", "superseded"} THEN {c.a} ELSE {}
  OBVIOUS
<1>2. /\ c.pc = "attempting" /\ order' = order /\ call \in [Handlers -> CallState]
      /\ c \in CallState /\ c.t \in MadeTxns /\ c.t \in Txns /\ c.row.status = txn[c.t].status
      /\ txn \in [Txns -> TxnRow] /\ c.row.status = "pending" /\ OnlyCurrent(c.t, c.row)
      /\ c.a # 0 => Mine(c.t, c.a)
      /\ new \in Attempts
  BY <1>1, RestTypes, Shapes
     DEF CreateAttempt, At, Inv, CallInv, CallOK, Starting, InTurn, StatusMatches,
         Carries, MadeTxns, OrdersInTurn, OrderCallOK, Opening
<1>3. CASE Goto(h, "releasing") /\ UNCHANGED <<txn, attempt>>
  <2>1. call'[h].t = c.t /\ call'[h].row = c.row /\ call'[h].pc = "releasing"
    BY <1>1, <1>2, <1>3 DEF Goto, CallState
  <2>2. Carries(h)
    BY <1>1, <1>2 DEF Carries, Starting
  <2> QED BY <1>1, <1>2, <1>3, <2>1, <2>2, OrderGoto DEF OrdersOnlyEnd
<1>4. CASE /\ LiveAttempts(c.t) = {}
           /\ attempt' = [a \in Attempts |->
                 IF a = new THEN [txn |-> c.t, status |-> "initializing"]
                 ELSE IF a \in resaved THEN [txn |-> c.t, status |-> c.mine]
                 ELSE attempt[a]]
           /\ txn' = [txn EXCEPT ![c.t] = row]
           /\ \/ call' = [call EXCEPT ![h].row = row, ![h].a = new,
                              ![h].mine = "initializing", ![h].pc = "initializing"]
              \/ call' = [call EXCEPT ![h].row = row, ![h].pc = "releasing"]
  <2>1. row.status = c.row.status /\ row.current = new
    BY <1>1, <1>2 DEF CallState, TxnRow
  <2>2. /\ txn'[c.t] = row /\ \A u \in Txns \ {c.t} : txn'[u] = txn[u]
    BY <1>2, <1>4
  <2>3. new \notin MadeAttempts
    BY <1>1, NextNumber DEF Inv, Numbered, MadeAttempts
  <2>4. order[new] = "none"
    BY <1>2, <2>3 DEF Inv, AttemptInv
  <2>5. /\ attempt'[new] = [txn |-> c.t, status |-> "initializing"]
        /\ \A a \in Attempts \ {new} :
              /\ attempt'[a].txn = attempt[a].txn
              /\ attempt[a].txn # c.t => attempt'[a] = attempt[a]
    <3>1. \A a \in Attempts \ {new} :
             attempt'[a] = IF a \in resaved THEN [txn |-> c.t, status |-> c.mine] ELSE attempt[a]
      BY <1>4
    <3>2. \A a \in Attempts : a \in resaved => attempt[a].txn = c.t
      BY <1>1, <1>2, RowNumbers DEF Mine
    <3>3. attempt'[new] = [txn |-> c.t, status |-> "initializing"]
      BY <1>2, <1>4
    <3> QED BY <3>1, <3>2, <3>3
  <2>6. \A a \in Attempts : attempt[a].txn = c.t => order[a] \notin Alive
    BY <1>2, <1>4 DEF OrdersInTurn, OrderRows, NotReplaced, LiveAttempts
  <2>7. \A a \in Attempts : order[a] \in Alive =>
           /\ a # new /\ attempt'[a] = attempt[a] /\ attempt[a].txn \in Txns \ {c.t}
           /\ txn'[attempt[a].txn] = txn[attempt[a].txn]
    <3>1. \A a \in Attempts : order[a] \in Alive => attempt[a].txn \in Txns \ {c.t} /\ a # new
      BY <2>4, <2>6, AliveIsMade DEF Alive
    <3> QED BY <2>2, <2>5, <3>1
  <2>8. OrderRows'
    <3>1. ASSUME NEW t \in Txns PROVE OnlyCurrent(t, txn[t])'
      <4>1. CASE t = c.t
        BY <1>2, <2>7, <4>1 DEF OnlyCurrent
      <4>2. CASE t # c.t
        <5>1. OnlyCurrent(t, txn[t])
          BY DEF OrdersInTurn, OrderRows
        <5> QED BY <1>2, <2>2, <2>7, <4>2, <5>1 DEF OnlyCurrent
      <4> QED BY <4>1, <4>2
    <3>2. NotReplaced' /\ NoneLeft'
      BY <1>2, <2>7 DEF OrdersInTurn, OrderRows, NotReplaced, NoneLeft, Alive, Payable
    <3> QED BY <3>1, <3>2 DEF OrderRows
  <2>9. \A r : OnlyCurrent(c.t, r)'
    BY <1>2, <2>7 DEF OnlyCurrent
  <2>10. CASE call' = [call EXCEPT ![h].row = row, ![h].a = new,
                           ![h].mine = "initializing", ![h].pc = "initializing"]
    <3>1. call'[h].t = c.t /\ call'[h].row = row /\ call'[h].pc = "initializing" /\ call'[h].a = new
      BY <1>1, <1>2, <2>10 DEF CallState
    <3>2. OrderCallOK(h)'
      BY <1>2, <2>1, <2>2, <2>5, <2>9, <3>1 DEF OrderCallOK, Live
    <3> QED BY <2>8, <3>2, OrdersKeptInTurn
  <2>11. CASE call' = [call EXCEPT ![h].row = row, ![h].pc = "releasing"]
    <3>1. call'[h].t = c.t /\ call'[h].row = row /\ call'[h].pc = "releasing"
      BY <1>1, <1>2, <2>11 DEF CallState
    <3>2. OrderCallOK(h)'
      BY <1>2, <2>1, <2>9, <3>1 DEF OrderCallOK
    <3> QED BY <2>8, <3>2, OrdersKeptInTurn
  <2> QED BY <1>4, <2>10, <2>11
<1> QED BY <1>1, <1>3, <1>4 DEF CreateAttempt

LEMMA ReadTxnInOrder ==
    ASSUME Inv, OrdersInTurn, NEW h \in Handlers, StepAlone(h), ReadTxn(h)
    PROVE  OrdersInTurn'
<1>1. PICK c : c = call[h]
  OBVIOUS
<1>2. /\ txn' = txn /\ attempt' = attempt /\ order' = order /\ call \in [Handlers -> CallState]
      /\ c.t \in Txns
  BY <1>1, RestTypes, Shapes DEF ReadTxn, At, Inv, CallInv, CallOK, Starting, MadeTxns
<1>3. OrderRows'
  BY <1>2, RowsStay DEF OrdersInTurn, OrdersOnlyEnd
<1>4. CASE call' = [call EXCEPT ![h].row = txn[c.t], ![h].pc = "deciding"]
  <2>1. call'[h].t = c.t /\ call'[h].row = txn[c.t] /\ call'[h].pc = "deciding"
    BY <1>1, <1>2, <1>4 DEF CallState
  <2>2. OnlyCurrent(c.t, txn[c.t])'
    BY <1>2, <1>3 DEF OrderRows
  <2>3. OrderCallOK(h)'
    BY <1>2, <2>1, <2>2 DEF OrderCallOK, Opening
  <2> QED BY <1>3, <2>3, OrdersKeptInTurn
<1>5. CASE Finish(h)
  <2>1. call'[h].pc = "idle"
    BY <1>2, <1>5, IdleState DEF Finish
  <2> QED BY <1>3, <2>1, OrderEnds
<1> QED BY <1>1, <1>4, <1>5 DEF ReadTxn

\* A transaction is completed only when the one order of its own that was alive has
\* ended, as the handler has it from the provider.
LEMMA SettleInOrder ==
    ASSUME Inv, InTurn, OrdersInTurn, NEW h \in Handlers, StepAlone(h), Settle(h)
    PROVE  OrdersInTurn'
<1>1. PICK c, row : c = call[h] /\ row = Settled(c)
  OBVIOUS
<1>2. /\ c.pc = "deciding" /\ order' = order /\ call \in [Handlers -> CallState]
      /\ attempt \in [Attempts -> AttemptRow] /\ txn \in [Txns -> TxnRow]
      /\ c \in CallState /\ c.t \in Txns /\ c.row.status = txn[c.t].status
      /\ Mine(c.t, c.a) /\ c.outcome \in Completed /\ order[c.a] \in Final[c.outcome]
      /\ OnlyCurrent(c.t, c.row)
  BY <1>1, RestTypes, Shapes
     DEF Settle, At, Inv, CallInv, CallOK, Starting, AboutAttempt, InTurn, StatusMatches, Carries,
         MadeTxns, OrdersInTurn, OrderCallOK
<1>3. c.a \in Attempts /\ attempt[c.a].txn = c.t /\ order[c.a] \notin Payable
  BY <1>2 DEF Mine, Final, Completed, Payable
<1>4. /\ \A a \in Attempts : attempt'[a].txn = attempt[a].txn
      /\ \A a \in Attempts \ {c.a} : attempt'[a] = attempt[a]
  BY <1>1, <1>2, <1>3 DEF Settle, AttemptRow
<1>5. CASE ~Finalizes(c) /\ txn' = txn /\ Finish(h)
  <2>1. order[c.a] \in Alive => txn[c.t].status # "pending"
    BY <1>2, <1>3, <1>5 DEF Finalizes, Final, Completed, Alive
  <2>2. OrderRows'
    BY <1>2, <1>3, <1>4, <1>5, <2>1
       DEF OrdersInTurn, OrderRows, OnlyCurrent, NotReplaced, NoneLeft
  <2>3. call'[h].pc = "idle"
    BY <1>2, <1>5, IdleState DEF Finish
  <2> QED BY <2>2, <2>3, OrderEnds
<1>6. CASE /\ Finalizes(c) /\ txn' = [txn EXCEPT ![c.t] = row]
           /\ call' = [call EXCEPT ![h].row = row, ![h].pc = "staged"]
  <2>1. row.status = c.outcome /\ c.outcome # "pending"
    BY <1>1, <1>2 DEF Settled, CallState, TxnRow, Completed
  <2>2. txn'[c.t] = row /\ \A u \in Txns \ {c.t} : txn'[u] = txn[u]
    BY <1>2, <1>6
  <2>3. c.row.status = "pending" /\ (c.outcome = "successful" \/ c.row.current = c.a)
    BY <1>6 DEF Finalizes
  <2>4. \A a \in Attempts : attempt[a].txn = c.t => order[a] \notin Payable
    <3>1. ASSUME NEW a \in Attempts, attempt[a].txn = c.t, order[a] \in Payable PROVE FALSE
      <4>1. c.row.current = a
        BY <1>2, <2>3, <3>1 DEF OnlyCurrent, Alive, Payable
      <4>2. c.outcome = "successful" => order[c.a] \in Alive
        BY <1>2 DEF Final, Alive, Completed
      <4>3. c.row.current = c.a
        BY <1>2, <1>3, <2>3, <4>2 DEF OnlyCurrent
      <4> QED BY <1>3, <3>1, <4>1, <4>3
    <3> QED BY <3>1
  <2>5. \A a \in Attempts : order[a] \in Alive => attempt[a].txn \in Txns
    BY AliveIsMade
  <2>6. NotReplaced' /\ NoneLeft'
    BY <1>2, <1>3, <1>4, <2>1, <2>2, <2>4, <2>5
       DEF OrdersInTurn, OrderRows, NotReplaced, NoneLeft, Alive, Payable
  <2>7. \A t \in Txns : OnlyCurrent(t, txn[t])'
    BY <1>2, <1>4, <2>1, <2>2 DEF OrdersInTurn, OrderRows, OnlyCurrent
  <2>8. call'[h].t = c.t /\ call'[h].row = row /\ call'[h].pc = "staged"
    BY <1>1, <1>2, <1>6 DEF CallState
  <2>9. OrderCallOK(h)'
    BY <2>1, <2>8 DEF OrderCallOK, OnlyCurrent, Opening
  <2> QED BY <2>6, <2>7, <2>9, OrdersKeptInTurn DEF OrderRows
<1> QED BY <1>1, <1>5, <1>6 DEF Settle

\* Steps of no handler: orders end, or are paid.
LEMMA OutsideInOrder ==
    ASSUME Inv, OrdersInTurn, call' = call, txn' = txn, attempt' = attempt,
           order' = order \/ \E a \in Attempts : OrderSettles(a)
    PROVE  OrdersInTurn'
<1>1. order \in [Attempts -> OrderStatus]
  BY RestTypes, Shapes
<1>2. OrdersOnlyEnd
  BY <1>1 DEF OrderSettles, OrdersOnlyEnd, Alive, Payable
<1>3. OrderRows' /\ \A t, row : OnlyCurrent(t, row) => OnlyCurrent(t, row)'
  BY <1>2, RowsStay DEF OrdersInTurn
<1>4. ASSUME NEW h \in Handlers PROVE OrderCallOK(h)'
  <2>1. PICK c : c = call[h]
    OBVIOUS
  <2>2. OrderCallOK(h)
    BY DEF OrdersInTurn
  <2>3. Carries(h) => OnlyCurrent(c.t, c.row)'
    BY <1>3, <2>1, <2>2 DEF OrderCallOK
  <2>4. c.pc \in {"verifying", "saving"} => c.a \in Attempts
    BY <2>1 DEF Inv, CallInv, CallOK, AboutAttempt, Mine
  <2>5. call' = call /\ txn' = txn /\ attempt' = attempt
    OBVIOUS
  <2>6. /\ c.pc = "verifying" => order'[c.a] \notin Payable
        /\ c.pc = "saving" => order'[c.a] \notin Alive
    BY <1>2, <2>1, <2>2, <2>4 DEF OrderCallOK, OrdersOnlyEnd
  <2> QED BY <2>1, <2>2, <2>3, <2>5, <2>6 DEF OrderCallOK, Carries
<1> QED BY <1>3, <1>4 DEF OrdersInTurn

LEMMA OrderStep == ASSUME Inv, SerialInv, OrderInv, [Next]_vars PROVE OrderInv'
<1>0. refusals' = 0 => refusals = 0
  <2>1. refusals \in Nat
    BY RestTypes
  <2>2. ASSUME NEW h \in Handlers, Initialize(h) PROVE refusals' = refusals \/ Refusal
    BY <2>2
       DEF Initialize, Lookup, Create, Resolve, Cancel, Verify, SaveReplaced, Reserve, Flag,
           ClearFlag, CreateAttempt, InitializeOrder, MarkInitFailed, NoteInitFailed, Release,
           Activate, ReturnLink, Bounds
  <2>3. ASSUME ~\E h \in Handlers : Initialize(h) PROVE refusals' = refusals
    BY <2>3
       DEF Next, Progress, BeginInitialize, ReadTxn, Settle, CommitOutbox, Mark, Crash,
           StatementFails, BeginWebhook, BeginRepair, OrderSettles, EventArrives,
           ReservationLapses, Bounds, vars
  <2> QED BY <2>1, <2>2, <2>3 DEF Refusal
<1>1. ASSUME NEW h \in Handlers, StepOf(h), ~overlapped', refusals' = 0 PROVE OrdersInTurn'
  <2>1. InTurn /\ StepAlone(h) /\ OrdersInTurn
    BY <1>0, <1>1, StepsLeaveOthers, SteppedAlone DEF OrderInv
  <2>2. call[h].pc \notin {"initFailed", "noting"}
    BY <2>1 DEF OrdersInTurn, OrderCallOK
  <2>3. ~MarkInitFailed(h) /\ ~NoteInitFailed(h)
    BY <2>2 DEF MarkInitFailed, NoteInitFailed, At
  <2> QED BY <1>1, <2>1, <2>3, BeginsInOrder, LookupInOrder, CreateInOrder, ResolveInOrder,
             CancelInOrder, VerifyInOrder, SaveReplacedInOrder, MovesInOrder, SavesInOrder,
             CreateAttemptInOrder, InitializeOrderInOrder, ActivateInOrder, ReadTxnInOrder,
             SettleInOrder
          DEF StepOf, Progress, Initialize
<1>2. ASSUME UNCHANGED <<call, txn, attempt, overlapped>>,
             order' = order \/ \E a \in Attempts : OrderSettles(a)
      PROVE  OrderInv'
  BY <1>0, <1>2, OutsideInOrder DEF OrderInv
<1>3. \/ \E h \in Handlers : StepOf(h)
      \/ /\ UNCHANGED <<call, txn, attempt, overlapped>>
         /\ order' = order \/ \E a \in Attempts : OrderSettles(a)
  BY DEF Next, StepOf, OrderSettles, EventArrives, ReservationLapses, vars, Outbox, Bounds
<1> QED BY <1>1, <1>2, <1>3 DEF OrderInv

LEMMA OrderAlways == Spec => []OrderInv
<1>1. Init => OrderInv
  <2> SUFFICES ASSUME Init PROVE OrdersInTurn
    BY DEF OrderInv
  <2>1. OrderRows
    BY DEF Init, OrderRows, OnlyCurrent, NotReplaced, NoneLeft, Alive, Payable
  <2>2. \A h \in Handlers : OrderCallOK(h)
    BY IdleState, IdleOrderCall DEF Init
  <2> QED BY <2>1, <2>2 DEF OrdersInTurn
<1>2. Inv /\ SerialInv /\ OrderInv /\ [Next]_vars => OrderInv'
  BY OrderStep
<1> QED BY <1>1, <1>2, InvAlways, SerialAlways, PTL DEF Spec

LEMMA OnePendingStep == ASSUME Inv, OnePending, [Next]_vars PROVE OnePending'
<1>1. txn \in [Txns -> TxnRow]
  BY RestTypes, Shapes
<1>2. ASSUME NEW t \in Txns, NEW row, MaySave(t, row), txn' = [txn EXCEPT ![t] = row]
      PROVE  OnePending'
  BY <1>1, <1>2 DEF OnePending, Pending, MaySave
<1>3. ASSUME NEW t \in Txns, NEW row, txn' = Saved(t, row) PROVE OnePending'
  BY <1>2, <1>3 DEF OnePending, Pending, Saved
<1>4. CASE txn' = txn
  BY <1>4 DEF OnePending, Pending
<1>5. ASSUME NEW h \in Handlers, call[h].pc \notin Starting PROVE call[h].t \in Txns
  BY <1>5 DEF Inv, CallInv, CallOK, MadeTxns
<1>6. ASSUME NEW h \in Handlers, Flag(h) \/ ClearFlag(h) \/ NoteInitFailed(h) \/ ReturnLink(h)
                                 \/ Mark(h)
      PROVE  OnePending'
  <2>1. call[h].t \in Txns
    BY <1>5, <1>6 DEF Flag, ClearFlag, NoteInitFailed, ReturnLink, Mark, At, Starting
  <2> QED BY <1>3, <1>6, <2>1 DEF Flag, ClearFlag, NoteInitFailed, ReturnLink, Mark
<1>7. ASSUME NEW h \in Handlers, Create(h) PROVE OnePending'
  <2>1. ASSUME NEW t \in Txns, NEW row, Pending = {}, txn' = [txn EXCEPT ![t] = row]
        PROVE  OnePending'
    BY <1>2, <2>1 DEF MaySave
  <2> QED BY <1>4, <1>7, <2>1 DEF Create
<1>8. ASSUME NEW h \in Handlers, CreateAttempt(h) PROVE OnePending'
  <2>1. call[h].t \in Txns
    BY <1>5, <1>8 DEF CreateAttempt, At, Starting
  <2> QED BY <1>2, <1>4, <1>8, <2>1 DEF CreateAttempt
<1>9. ASSUME NEW h \in Handlers, Settle(h) PROVE OnePending'
  <2>1. PICK c : c = call[h]
    OBVIOUS
  <2>2. c.t \in Txns /\ c.outcome \in Completed /\ c \in CallState
    BY <1>5, <1>9, <2>1, RestTypes, Shapes
       DEF Settle, At, Starting, Inv, CallInv, CallOK
  <2>3. Settled(c).status = c.outcome
    BY <2>2 DEF Settled, CallState, TxnRow
  <2>4. MaySave(c.t, Settled(c))
    BY <2>2, <2>3 DEF MaySave, Completed
  <2> QED BY <1>2, <1>4, <1>9, <2>1, <2>2, <2>4 DEF Settle
<1>10. ASSUME NEW h \in Handlers,
              \/ BeginInitialize(h) \/ Crash(h) \/ StatementFails(h) \/ Lookup(h) \/ Resolve(h)
              \/ Cancel(h) \/ Verify(h) \/ SaveReplaced(h) \/ Reserve(h) \/ InitializeOrder(h)
              \/ MarkInitFailed(h) \/ Release(h) \/ Activate(h) \/ ReadTxn(h) \/ CommitOutbox(h)
              \/ (\E a \in Attempts : BeginWebhook(h, a)) \/ \E t \in Txns : BeginRepair(h, t)
       PROVE  txn' = txn
  BY <1>10
     DEF BeginInitialize, Crash, StatementFails, Lookup, Resolve, Cancel, Verify, SaveReplaced,
         Reserve, InitializeOrder, MarkInitFailed, Release, Activate, ReadTxn, CommitOutbox,
         BeginWebhook, BeginRepair
<1>11. (\A h \in Handlers : ~StepOf(h)) => txn' = txn
  BY DEF Next, StepOf, OrderSettles, EventArrives, ReservationLapses, vars
<1> QED BY <1>4, <1>6, <1>7, <1>8, <1>9, <1>10, <1>11 DEF StepOf, Progress, Initialize

\* There is one pending transaction per quote, whatever is saved and whatever
\* overlaps: the partial index on the transactions (MaySave), whose error a save ignores.
THEOREM OnePendingTransaction == Spec => []OnePending
<1>1. Init => OnePending
  BY DEF Init, OnePending, Pending, NoTxn
<1>2. Inv /\ OnePending /\ [Next]_vars => OnePending'
  BY OnePendingStep
<1> QED BY <1>1, <1>2, InvAlways, PTL DEF Spec

\* While calls run one at a time and the provider refuses nothing, the customer never
\* holds two links that can be paid: an attempt is replaced only when its order has
\* ended, and a transaction is completed only when none of its own can be paid.
THEOREM OneLinkInTurn == Spec => []OnePayableOrder
<1>1. ASSUME Inv, OnePending, OrdersInTurn
      PROVE  Cardinality({a \in Attempts : order[a] = "open"}) <= 1
  <2>1. PICK S : S = {a \in Attempts : order[a] = "open"}
    OBVIOUS
  <2>2. ASSUME NEW a \in S PROVE attempt[a].txn \in Pending /\ txn[attempt[a].txn].current = a
    <3>1. a \in Attempts /\ order[a] \in Payable /\ order[a] \in Alive
      BY <2>1 DEF Payable, Alive
    <3>2. attempt[a].txn \in Pending
      BY <1>1, <3>1, AliveIsMade DEF OrdersInTurn, OrderRows, NoneLeft, Pending
    <3> QED BY <1>1, <3>1, <3>2 DEF OrdersInTurn, OrderRows, OnlyCurrent, Pending
  <2>3. \A a, b \in S : a = b
    <3> SUFFICES ASSUME NEW a \in S, NEW b \in S PROVE a = b
      OBVIOUS
    <3>1. attempt[a].txn = attempt[b].txn
      BY <1>1, <2>2 DEF OnePending
    <3> QED BY <2>2, <3>1
  <2>4. S = {} \/ \E a \in S : S = {a}
    BY <2>3
  <2>5. Cardinality(S) = 0 \/ Cardinality(S) = 1
    <3>1. CASE S = {}
      BY <3>1, FS_EmptySet
    <3>2. ASSUME NEW a \in S, S = {a} PROVE Cardinality(S) = 1
      <4>1. Cardinality({a}) = 1
        BY FS_Singleton
      <4> QED BY <3>2, <4>1
    <3> QED BY <2>4, <3>1, <3>2
  <2>6. Cardinality(S) <= 1
    BY <2>5
  <2> QED BY <2>1, <2>6
<1>2. Inv /\ OnePending /\ OrderInv => OnePayableOrder
  BY <1>1 DEF OrderInv, OnePayableOrder
<1> QED BY <1>2, InvAlways, OnePendingTransaction, OrderAlways, PTL
=============================================================================
