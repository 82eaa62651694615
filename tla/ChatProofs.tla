---------------------------- MODULE ChatProofs ----------------------------
(***************************************************************************)
(* Theorems about chat: ChatThreads, for any events, deliveries and        *)
(* senders, and then ChatStream, for any messages, connections and         *)
(* channels.                                                               *)
(*                                                                         *)
(* What the threads rest on is the row that only one statement can have    *)
(* inserted: who is past the insert of the thread, or of a message, is     *)
(* alone there, and has not published what the insert is announced with    *)
(* (ThreadInv, SentInv).                                                   *)
(***************************************************************************)
EXTENDS ChatThreads, ChatStream, SequenceTheorems, TLAPS

Places == {"idle", "create", "welcome", "announce", "say"}
Lines == {"idle", "check", "create", "save", "publish"}

\* A delivery that has created the thread and not announced it yet.
Making(h) == at[h] \in {"welcome", "announce"}

ThreadInv ==
    /\ \A h \in Handlers : Making(h) => thread = "joined" /\ announced = 0
    /\ \A g, h \in Handlers : Making(g) /\ Making(h) => g = h
    /\ \A h \in Handlers : Status(h, "create") => overtaken \/ thread # "none"
    /\ AnnouncedOnce

\* A request that has inserted its message and not published it yet.
Telling(s) == line[s] \in {"save", "publish"}

SentInv ==
    /\ \A s \in Senders : Telling(s) => key[s] \in stored /\ sent[key[s]] = 0
    /\ \A r, s \in Senders : Telling(r) /\ Telling(s) /\ key[r] = key[s] => r = s
    /\ SentOnce

Inv == TypeOK /\ AckedMeansSaid /\ ThreadInv /\ SentInv

-----------------------------------------------------------------------------
(***************************************************************************)
(* Types.                                                                  *)
(***************************************************************************)

\* The two sides of the state, which most steps leave apart.
InboxType ==
    /\ queue \subseteq Events /\ acked \subseteq Events
    /\ at \in [Handlers -> Places] /\ job \in [Handlers -> Events \cup {NoEvent}]
    /\ \A h \in Handlers : at[h] # "idle" => job[h] \in Events
    /\ announced \in Nat /\ overtaken \in BOOLEAN

OutboxType ==
    /\ last \in stored \cup {NoKey}
    /\ line \in [Senders -> Lines] /\ key \in [Senders -> UserKeys \cup {NoKey}]
    /\ \A s \in Senders : line[s] # "idle" => key[s] \in UserKeys
    /\ sent \in [UserKeys -> Nat]

RestType ==
    /\ service \in {"down", "up", "broken"}
    /\ thread \in {"none", "closed", "joined"}
    /\ stored \subseteq Keys
    /\ faults \in Nat

LEMMA Types == /\ TypeOK <=> InboxType /\ OutboxType /\ RestType
               /\ TypeOK' <=> InboxType' /\ OutboxType' /\ RestType'
BY DEF TypeOK, InboxType, OutboxType, RestType, Places, Lines

\* What fails or crashes leaves a natural number of faults.
LEMMA Faults == ASSUME TypeOK, Fault \/ UNCHANGED faults PROVE faults' \in Nat
BY DEF TypeOK, Fault

LEMMA KeyOf == ASSUME NEW e \in Events PROVE AutoKey[e] \in Keys
BY DEF Keys, AutoKeys

LEMMA Apart == AssignedEvents \cap StatusEvents = {} /\ AssignedEvents \subseteq Events
                 /\ StatusEvents \subseteq Events /\ UserKeys \subseteq Keys
BY ChatAssumption DEF Events, Keys

-----------------------------------------------------------------------------
(***************************************************************************)
(* One side at a time.                                                     *)
(***************************************************************************)

\* The senders do not notice what deliveries do, nor that more is stored.
LEMMA SendersKept ==
    ASSUME Inv, UNCHANGED outbox, stored \subseteq stored'
    PROVE  OutboxType' /\ SentInv'
<1>1. OutboxType'
  BY Types DEF Inv, OutboxType, outbox
<1>2. SentInv'
  BY DEF Inv, SentInv, Telling, SentOnce, outbox
<1> QED BY <1>1, <1>2

\* Nor deliveries what senders do.
LEMMA DeliveriesKept ==
    ASSUME Inv, UNCHANGED <<inbox, thread>>, stored \subseteq stored'
    PROVE  InboxType' /\ ThreadInv' /\ AckedMeansSaid'
<1>1. InboxType'
  BY Types DEF Inv, InboxType, inbox
<1>2. ThreadInv'
  BY DEF Inv, ThreadInv, Making, Status, AnnouncedOnce, inbox
<1>3. AckedMeansSaid'
  BY DEF Inv, AckedMeansSaid, inbox
<1> QED BY <1>1, <1>2, <1>3

\* What is acknowledged stays said while nothing more is acknowledged.
LEMMA SaidKept ==
    ASSUME Inv, thread # "none" => thread' # "none", stored \subseteq stored',
           NEW e, acked' \subseteq acked \cup {e},
           e \in AssignedEvents \ UnassignedEvents => thread' # "none",
           e \in StatusEvents \ SilentEvents => AutoKey[e] \in stored'
    PROVE  AckedMeansSaid'
BY DEF Inv, AckedMeansSaid

\* A step in which no delivery gets on, other than by one more acknowledgement.
LEMMA AckOnly ==
    ASSUME Inv, NEW e \in Events, Done(e),
           UNCHANGED <<at, job, announced, overtaken, thread, stored>>,
           e \in AssignedEvents \ UnassignedEvents => thread # "none",
           e \in StatusEvents \ SilentEvents => AutoKey[e] \in stored
    PROVE  InboxType' /\ ThreadInv' /\ AckedMeansSaid'
<1>1. InboxType'
  BY Types DEF Inv, InboxType, Done
<1>2. ThreadInv'
  BY DEF Inv, ThreadInv, Making, Status, AnnouncedOnce
<1>3. AckedMeansSaid'
  BY SaidKept DEF Done
<1> QED BY <1>1, <1>2, <1>3

LEMMA AssignedSkipKeeps ==
    ASSUME Inv, NEW e \in Events, AssignedSkip(e)
    PROVE  Inv'
<1>1. InboxType' /\ ThreadInv' /\ AckedMeansSaid'
  BY AckOnly, Apart DEF AssignedSkip
<1>2. OutboxType' /\ SentInv'
  BY SendersKept DEF AssignedSkip
<1>3. RestType'
  BY Types DEF Inv, RestType, AssignedSkip
<1> QED BY <1>1, <1>2, <1>3, Types DEF Inv

LEMMA StatusSilentKeeps ==
    ASSUME Inv, NEW e \in Events, StatusSilent(e)
    PROVE  Inv'
<1>1. InboxType' /\ ThreadInv' /\ AckedMeansSaid'
  BY AckOnly, Apart, ChatAssumption DEF StatusSilent
<1>2. OutboxType' /\ SentInv'
  BY SendersKept DEF StatusSilent
<1>3. RestType'
  BY Types DEF Inv, RestType, StatusSilent
<1> QED BY <1>1, <1>2, <1>3, Types DEF Inv

LEMMA RedeliverKeeps ==
    ASSUME Inv, NEW e \in Events, Redeliver(e)
    PROVE  Inv'
<1>1. InboxType'
  BY Types DEF Inv, InboxType, Redeliver
<1>2. ThreadInv' /\ AckedMeansSaid'
  BY DEF Inv, ThreadInv, Making, Status, AnnouncedOnce, AckedMeansSaid, Redeliver
<1>3. OutboxType' /\ SentInv'
  BY SendersKept DEF Redeliver
<1>4. RestType'
  BY Types DEF Inv, RestType, Redeliver
<1> QED BY <1>1, <1>2, <1>3, <1>4, Types DEF Inv

\* The service alone comes up, or fails to.
LEMMA InitServiceKeeps ==
    ASSUME Inv, InitService, UNCHANGED <<inbox, thread, stored, outbox>>
    PROVE  Inv'
<1>1. InboxType' /\ ThreadInv' /\ AckedMeansSaid'
  BY DeliveriesKept
<1>2. OutboxType' /\ SentInv'
  BY SendersKept
<1>3. RestType'
  BY Types DEF Inv, RestType, InitService, Fault
<1> QED BY <1>1, <1>2, <1>3, Types DEF Inv

LEMMA CrashKeeps == ASSUME Inv, Crash PROVE Inv'
<1>1. InboxType' /\ OutboxType' /\ RestType'
  BY Types DEF Inv, InboxType, OutboxType, RestType, Crash, Places, Lines, Fault
<1>2. ThreadInv' /\ SentInv' /\ AckedMeansSaid'
  BY DEF Inv, ThreadInv, SentInv, AckedMeansSaid, Making, Telling, Status, AnnouncedOnce,
         SentOnce, Crash
<1> QED BY <1>1, <1>2, Types DEF Inv

-----------------------------------------------------------------------------
(***************************************************************************)
(* Deliveries.                                                             *)
(***************************************************************************)

\* What Begin, Goto, Ack and Nack do to the delivery h and to the inbox.
LEMMA Moves ==
    ASSUME Inv, NEW h \in Handlers,
           NEW e \in Events \cup {NoEvent}, NEW there \in Places,
           at' = [at EXCEPT ![h] = there], job' = [job EXCEPT ![h] = e],
           there # "idle" => e \in Events
    PROVE  /\ at' \in [Handlers -> Places] /\ job' \in [Handlers -> Events \cup {NoEvent}]
           /\ at'[h] = there /\ job'[h] = e
           /\ \A g \in Handlers \ {h} : at'[g] = at[g] /\ job'[g] = job[g]
           /\ \A g \in Handlers : at'[g] # "idle" => job'[g] \in Events
BY Types DEF Inv, InboxType

\* A delivery that is on its way: what it carries, and that it is acknowledged or not.
LEMMA OnItsWay ==
    ASSUME Inv, NEW h \in Handlers, at[h] # "idle"
    PROVE  /\ job[h] \in Events
           /\ Ack(h) => /\ at' = [at EXCEPT ![h] = "idle"]
                        /\ job' = [job EXCEPT ![h] = NoEvent]
                        /\ queue' = queue \ {job[h]} /\ acked' = acked \cup {job[h]}
           /\ Nack(h) => /\ at' = [at EXCEPT ![h] = "idle"]
                         /\ job' = [job EXCEPT ![h] = NoEvent]
                         /\ UNCHANGED <<queue, acked>>
           /\ \A there \in Places : Goto(h, there) =>
                         /\ at' = [at EXCEPT ![h] = there]
                         /\ job' = [job EXCEPT ![h] = job[h]]
                         /\ UNCHANGED <<queue, acked>>
BY Types DEF Inv, InboxType, Ack, Nack, Goto, Idle, Done, Refused

\* A delivery that ends, or gets to a place before the thread or after it.
LEMMA Ends ==
    ASSUME Inv, NEW h \in Handlers, NEW e \in Events \cup {NoEvent},
           NEW there \in {"idle", "create", "say"},
           at' = [at EXCEPT ![h] = there], job' = [job EXCEPT ![h] = e],
           there # "idle" => e \in Events,
           there = "create" /\ e \in StatusEvents => overtaken' \/ thread' # "none",
           overtaken => overtaken',
           thread' = thread \/ (thread = "none" /\ thread' = "closed" /\ overtaken'),
           UNCHANGED announced
    PROVE  ThreadInv'
<1>1. /\ at'[h] = there /\ job'[h] = e
      /\ \A g \in Handlers \ {h} : at'[g] = at[g] /\ job'[g] = job[g]
  BY Moves DEF Places
<1>2. \A g \in Handlers : Making(g)' => g # h /\ Making(g)
  BY <1>1 DEF Making
<1>3. thread = "none" => \A g \in Handlers : ~Making(g)
  BY DEF Inv, ThreadInv
<1>4. \A g \in Handlers : Making(g)' => thread' = "joined" /\ announced' = 0
  BY <1>2, <1>3 DEF Inv, ThreadInv
<1>5. \A f, g \in Handlers : Making(f)' /\ Making(g)' => f = g
  BY <1>2 DEF Inv, ThreadInv
<1>6. ASSUME NEW g \in Handlers, Status(g, "create")' PROVE overtaken' \/ thread' # "none"
  <2>1. CASE g = h
    BY <1>1, <1>6, <2>1 DEF Status
  <2>2. CASE g # h
    BY <1>1, <1>6, <2>2 DEF Status, Inv, ThreadInv
  <2> QED BY <2>1, <2>2
<1>7. AnnouncedOnce'
  BY DEF Inv, ThreadInv, AnnouncedOnce
<1> QED BY <1>4, <1>5, <1>6, <1>7 DEF ThreadInv

LEMMA AssignedLookupKeeps ==
    ASSUME Inv, NEW h \in Handlers, NEW e \in Events, AssignedLookup(h, e)
    PROVE  Inv'
<1>1. /\ at' = [at EXCEPT ![h] = "create"] /\ job' = [job EXCEPT ![h] = e]
      /\ UNCHANGED <<queue, acked>> /\ UNCHANGED <<service, announced, overtaken, thread, stored>>
      /\ UNCHANGED outbox
      /\ e \in AssignedEvents
  BY DEF AssignedLookup, Begin
<1>2. InboxType'
  BY <1>1, Moves, Types DEF Inv, InboxType, Places
<1>3. ThreadInv'
  BY <1>1, Ends, Apart
<1>4. AckedMeansSaid'
  BY <1>1 DEF Inv, AckedMeansSaid
<1>5. OutboxType' /\ SentInv'
  BY <1>1, SendersKept
<1>6. RestType'
  BY <1>1, Types, Faults DEF Inv, RestType, AssignedLookup
<1> QED BY <1>2, <1>3, <1>4, <1>5, <1>6, Types DEF Inv

\* A status event that finds no thread has overtaken the assignment.
LEMMA StatusLookupKeeps ==
    ASSUME Inv, NEW h \in Handlers, NEW e \in Events, StatusLookup(h, e)
    PROVE  Inv'
<1>1. /\ job' = [job EXCEPT ![h] = e]
      /\ \/ at' = [at EXCEPT ![h] = "say"]
         \/ at' = [at EXCEPT ![h] = "create"]
      /\ UNCHANGED <<queue, acked>> /\ UNCHANGED <<service, announced, thread, stored>>
      /\ UNCHANGED outbox
      /\ overtaken' = (overtaken \/ (AssignedEvents \ UnassignedEvents) \cap acked = {})
  BY DEF StatusLookup, Begin
<1>2. thread = "none" => overtaken'
  BY <1>1 DEF Inv, AckedMeansSaid
<1>3. overtaken' \in BOOLEAN
  BY <1>1
<1>4. InboxType'
  BY <1>1, <1>3, Moves, Types DEF Inv, InboxType, Places
<1>5. overtaken => overtaken'
  BY <1>1
<1>6. ThreadInv'
  BY <1>1, <1>2, <1>5, Ends
<1>7. AckedMeansSaid'
  BY <1>1 DEF Inv, AckedMeansSaid
<1>8. OutboxType' /\ SentInv'
  BY <1>1, SendersKept
<1>9. RestType'
  BY <1>1, Types, Faults DEF Inv, RestType, StatusLookup
<1> QED BY <1>4, <1>6, <1>7, <1>8, <1>9, Types DEF Inv

LEMMA AssignedCreateKeeps ==
    ASSUME Inv, NEW h \in Handlers, AssignedCreate(h)
    PROVE  Inv'
<1>1. /\ UNCHANGED <<service, announced, overtaken, stored>> /\ UNCHANGED outbox
      /\ at[h] = "create" /\ job[h] \in AssignedEvents /\ job[h] \in Events
  BY Apart DEF AssignedCreate, Assigned
<1>2. RestType' /\ OutboxType' /\ SentInv'
  <2>1. thread' \in {"none", "closed", "joined"}
    BY Types DEF Inv, RestType, AssignedCreate, InsertThread
  <2> QED BY <1>1, <2>1, SendersKept, Types, Faults DEF Inv, RestType, AssignedCreate
<1>3. CASE InsertThread("joined") /\ Goto(h, "welcome")
  <2>1. /\ at' = [at EXCEPT ![h] = "welcome"] /\ job' = [job EXCEPT ![h] = job[h]]
        /\ UNCHANGED <<queue, acked>> /\ thread = "none" /\ thread' = "joined"
    BY <1>1, <1>3, OnItsWay DEF Places, InsertThread
  <2>2. InboxType'
    BY <1>1, <2>1, Moves, Types DEF Inv, InboxType, Places
  <2>3. /\ \A g \in Handlers : ~Making(g)
        /\ announced = 0
    BY <2>1 DEF Inv, ThreadInv, AnnouncedOnce, TypeOK
  <2>4. /\ at'[h] = "welcome" /\ \A g \in Handlers \ {h} : at'[g] = at[g]
    BY <1>1, <2>1, Moves DEF Places
  <2>5. \A g \in Handlers : Making(g)' => g = h
    BY <2>3, <2>4 DEF Making
  <2>6. ThreadInv'
    BY <1>1, <2>1, <2>3, <2>5 DEF ThreadInv, AnnouncedOnce
  <2>7. AckedMeansSaid'
    BY <1>1, <2>1 DEF Inv, AckedMeansSaid
  <2> QED BY <1>2, <2>2, <2>6, <2>7, Types DEF Inv
<1>4. CASE UNCHANGED thread /\ (Nack(h) \/ (Ack(h) /\ thread # "none"))
  <2>1. /\ at' = [at EXCEPT ![h] = "idle"] /\ job' = [job EXCEPT ![h] = NoEvent]
        /\ queue' \subseteq queue /\ acked' \subseteq acked \cup {job[h]}
        /\ thread = "none" => acked' = acked
    BY <1>1, <1>4, OnItsWay
  <2>2. InboxType'
    BY <1>1, <2>1, Moves, Types DEF Inv, InboxType, Places
  <2>3. ThreadInv'
    BY <1>1, <1>4, <2>1, Ends
  <2>4. AckedMeansSaid'
    <3>1. CASE thread # "none"
      BY <1>1, <1>4, <2>1, <3>1, SaidKept, Apart
    <3>2. CASE thread = "none"
      BY <1>1, <1>4, <2>1, <3>2 DEF Inv, AckedMeansSaid
    <3> QED BY <3>1, <3>2
  <2> QED BY <1>2, <2>2, <2>3, <2>4, Types DEF Inv
<1> QED BY <1>3, <1>4 DEF AssignedCreate

LEMMA AssignedWelcomeKeeps ==
    ASSUME Inv, NEW h \in Handlers, AssignedWelcome(h)
    PROVE  Inv'
<1>1. /\ UNCHANGED <<service, announced, overtaken, thread>> /\ UNCHANGED outbox
      /\ at[h] = "welcome" /\ job[h] \in Events /\ Goto(h, "announce")
  BY Apart DEF AssignedWelcome, Assigned
<1>2. /\ at' = [at EXCEPT ![h] = "announce"] /\ job' = [job EXCEPT ![h] = job[h]]
      /\ UNCHANGED <<queue, acked>>
  BY <1>1, OnItsWay DEF Places
<1>3. stored \subseteq stored' /\ stored' \subseteq Keys
  BY <1>1, KeyOf, Types DEF Inv, RestType, AssignedWelcome, InsertMessage
<1>4. RestType'
  BY <1>1, <1>3, Types, Faults DEF Inv, RestType, AssignedWelcome
<1>5. OutboxType' /\ SentInv'
  BY <1>1, <1>3, SendersKept
<1>6. InboxType'
  BY <1>1, <1>2, Moves, Types DEF Inv, InboxType, Places
<1>7. at'[h] = "announce" /\ \A g \in Handlers \ {h} : at'[g] = at[g] /\ job'[g] = job[g]
  BY <1>1, <1>2, Moves DEF Places
<1>8. \A g \in Handlers : /\ Making(g)' <=> Making(g)
                          /\ Status(g, "create")' => Status(g, "create")
  BY <1>1, <1>7 DEF Making, Status
<1>9. ThreadInv' /\ AckedMeansSaid'
  BY <1>1, <1>2, <1>3, <1>8 DEF Inv, ThreadInv, AnnouncedOnce, AckedMeansSaid
<1> QED BY <1>4, <1>5, <1>6, <1>9, Types DEF Inv

LEMMA AssignedAnnounceKeeps ==
    ASSUME Inv, NEW h \in Handlers, AssignedAnnounce(h)
    PROVE  Inv'
<1>1. /\ UNCHANGED <<service, overtaken, thread, stored>> /\ UNCHANGED outbox
      /\ at[h] = "announce" /\ job[h] \in AssignedEvents /\ job[h] \in Events /\ Ack(h)
      /\ announced' = announced + 1 \/ announced' = announced
  BY Apart DEF AssignedAnnounce, Assigned
<1>2. /\ at' = [at EXCEPT ![h] = "idle"] /\ job' = [job EXCEPT ![h] = NoEvent]
      /\ queue' = queue \ {job[h]} /\ acked' = acked \cup {job[h]}
  BY <1>1, OnItsWay
<1>3. thread = "joined" /\ announced = 0 /\ \A g \in Handlers \ {h} : ~Making(g)
  BY <1>1 DEF Inv, ThreadInv, Making
<1>4. RestType'
  BY <1>1, Types, Faults DEF Inv, RestType, AssignedAnnounce
<1>5. OutboxType' /\ SentInv'
  BY <1>1, SendersKept
<1>6. InboxType'
  BY <1>1, <1>2, <1>3, Moves, Types DEF Inv, InboxType, Places
<1>7. at'[h] = "idle" /\ \A g \in Handlers \ {h} : at'[g] = at[g] /\ job'[g] = job[g]
  BY <1>1, <1>2, Moves DEF Places
<1>8. \A g \in Handlers : ~Making(g)'
  BY <1>3, <1>7 DEF Making
<1>9. ThreadInv'
  BY <1>1, <1>3, <1>8 DEF ThreadInv, AnnouncedOnce
<1>10. AckedMeansSaid'
  BY <1>1, <1>2, <1>3, SaidKept, Apart
<1> QED BY <1>4, <1>5, <1>6, <1>9, <1>10, Types DEF Inv

LEMMA StatusCreateKeeps ==
    ASSUME Inv, NEW h \in Handlers, StatusCreate(h)
    PROVE  Inv'
<1>1. /\ UNCHANGED <<service, announced, overtaken, stored>> /\ UNCHANGED outbox
      /\ at[h] = "create" /\ job[h] \in StatusEvents /\ job[h] \in Events
  BY Apart DEF StatusCreate, Status
<1>2. RestType' /\ OutboxType' /\ SentInv'
  <2>1. thread' \in {"none", "closed", "joined"}
    BY Types DEF Inv, RestType, StatusCreate, InsertThread
  <2> QED BY <1>1, <2>1, SendersKept, Types, Faults DEF Inv, RestType, StatusCreate
<1>3. /\ UNCHANGED <<queue, acked>>
      /\ \/ /\ at' = [at EXCEPT ![h] = "say"] /\ job' = [job EXCEPT ![h] = job[h]]
            /\ thread = "none" /\ thread' = "closed"
         \/ /\ at' = [at EXCEPT ![h] = "idle"] /\ job' = [job EXCEPT ![h] = NoEvent]
            /\ thread' = thread
  BY <1>1, OnItsWay DEF StatusCreate, InsertThread, Places
<1>4. thread = "none" => overtaken'
  BY <1>1 DEF Inv, ThreadInv, Status
<1>5. InboxType'
  BY <1>1, <1>3, Moves, Types DEF Inv, InboxType, Places
<1>6. ThreadInv'
  BY <1>1, <1>3, <1>4, Ends
<1>7. AckedMeansSaid'
  BY <1>1, <1>3 DEF Inv, AckedMeansSaid
<1> QED BY <1>2, <1>5, <1>6, <1>7, Types DEF Inv

LEMMA StatusSayKeeps ==
    ASSUME Inv, NEW h \in Handlers, StatusSay(h)
    PROVE  Inv'
<1>1. /\ UNCHANGED <<service, announced, overtaken, thread>> /\ UNCHANGED outbox
      /\ at[h] = "say" /\ job[h] \in StatusEvents /\ job[h] \in Events
  BY Apart DEF StatusSay, Status
<1>2. stored \subseteq stored' /\ stored' \subseteq Keys
  BY <1>1, KeyOf, Types DEF Inv, RestType, StatusSay, InsertMessage
<1>3. RestType' /\ OutboxType' /\ SentInv'
  BY <1>1, <1>2, SendersKept, Types, Faults DEF Inv, RestType, StatusSay
<1>4. /\ at' = [at EXCEPT ![h] = "idle"] /\ job' = [job EXCEPT ![h] = NoEvent]
      /\ queue' \subseteq queue /\ acked' \subseteq acked \cup {job[h]}
      /\ acked' = acked \/ AutoKey[job[h]] \in stored'
  BY <1>1, OnItsWay DEF StatusSay, InsertMessage
<1>5. InboxType'
  BY <1>1, <1>4, Moves, Types DEF Inv, InboxType, Places
<1>6. ThreadInv'
  BY <1>1, <1>4, Ends
<1>7. AckedMeansSaid'
  <2>1. CASE acked' = acked
    BY <1>1, <1>2, <2>1 DEF Inv, AckedMeansSaid
  <2>2. CASE AutoKey[job[h]] \in stored'
    BY <1>1, <1>2, <1>4, <2>2, SaidKept, Apart
  <2> QED BY <1>4, <2>1, <2>2
<1> QED BY <1>3, <1>5, <1>6, <1>7, Types DEF Inv

-----------------------------------------------------------------------------
(***************************************************************************)
(* Senders.                                                                *)
(***************************************************************************)

\* A request that moves, to a place and with a key, and the others that do not.
LEMMA LineMoves ==
    ASSUME Inv, NEW s \in Senders, NEW there \in Lines, NEW k \in UserKeys \cup {NoKey},
           line' = [line EXCEPT ![s] = there], key' = [key EXCEPT ![s] = k],
           there # "idle" => k \in UserKeys,
           last' \in stored' \cup {NoKey}, sent' \in [UserKeys -> Nat]
    PROVE  /\ OutboxType' /\ line'[s] = there /\ key'[s] = k
           /\ \A r \in Senders \ {s} : line'[r] = line[r] /\ key'[r] = key[r]
BY Types DEF Inv, OutboxType

LEMMA Sending ==
    ASSUME Inv, NEW s \in Senders, line[s] # "idle"
    PROVE  /\ key[s] \in UserKeys /\ key[s] \in Keys
           /\ Reply(s) => /\ line' = [line EXCEPT ![s] = "idle"]
                          /\ key' = [key EXCEPT ![s] = NoKey]
           /\ \A there \in Lines : Step(s, there) =>
                 /\ line' = [line EXCEPT ![s] = there]
                 /\ key' = [key EXCEPT ![s] = key[s]]
BY Apart, Types DEF Inv, OutboxType, Reply, Step

\* A request that is not past its insert, before and after.
LEMMA NotTelling ==
    ASSUME Inv, NEW s \in Senders,
           \A r \in Senders \ {s} : line'[r] = line[r] /\ key'[r] = key[r],
           line'[s] \in {"idle", "check", "create"},
           UNCHANGED sent, stored \subseteq stored'
    PROVE  SentInv'
<1>1. \A r \in Senders : Telling(r)' => r # s /\ Telling(r) /\ key'[r] = key[r]
  BY DEF Telling
<1> QED BY <1>1 DEF Inv, SentInv, SentOnce

LEMMA SendKeeps ==
    ASSUME Inv, NEW s \in Senders, NEW k \in UserKeys, Send(s, k)
    PROVE  Inv'
<1>1. /\ UNCHANGED <<service, inbox, thread, stored, sent, last, faults>>
      /\ line' = [line EXCEPT ![s] = "check"] /\ key' = [key EXCEPT ![s] = k]
  BY DEF Send
<1>2. InboxType' /\ ThreadInv' /\ AckedMeansSaid' /\ RestType'
  BY <1>1, DeliveriesKept, Types DEF Inv, RestType
<1>3. last' \in stored' \cup {NoKey} /\ sent' \in [UserKeys -> Nat]
  BY <1>1, Types DEF Inv, OutboxType
<1>4. /\ OutboxType' /\ line'[s] = "check"
      /\ \A r \in Senders \ {s} : line'[r] = line[r] /\ key'[r] = key[r]
  BY <1>1, <1>3, LineMoves DEF Lines
<1>5. SentInv'
  BY <1>1, <1>4, NotTelling
<1> QED BY <1>2, <1>4, <1>5, Types DEF Inv

LEMMA SendCheckKeeps ==
    ASSUME Inv, NEW s \in Senders, SendCheck(s)
    PROVE  Inv'
<1>1. /\ UNCHANGED <<service, inbox, thread, stored, sent, last>> /\ line[s] = "check"
      /\ Reply(s) \/ Step(s, "create")
  BY DEF SendCheck
<1>2. InboxType' /\ ThreadInv' /\ AckedMeansSaid' /\ RestType'
  BY <1>1, DeliveriesKept, Types, Faults DEF Inv, RestType, SendCheck
<1>3. last' \in stored' \cup {NoKey} /\ sent' \in [UserKeys -> Nat]
  BY <1>1, Types DEF Inv, OutboxType
<1>4. /\ OutboxType' /\ line'[s] \in {"idle", "create"}
      /\ \A r \in Senders \ {s} : line'[r] = line[r] /\ key'[r] = key[r]
  BY <1>1, <1>3, Sending, LineMoves DEF Lines
<1>5. SentInv'
  BY <1>1, <1>4, NotTelling
<1> QED BY <1>2, <1>4, <1>5, Types DEF Inv

\* The insert admits one request under a key, and nothing was published under it.
LEMMA SendCreateKeeps ==
    ASSUME Inv, NEW s \in Senders, SendCreate(s)
    PROVE  Inv'
<1>1. /\ UNCHANGED <<service, inbox, thread, sent, last>> /\ line[s] = "create"
      /\ \/ InsertMessage(key[s]) /\ Step(s, "save")
         \/ Reply(s) /\ UNCHANGED stored
  BY DEF SendCreate
<1>2. stored \subseteq stored' /\ stored' \subseteq Keys
  BY <1>1, Sending, Types DEF Inv, RestType, InsertMessage
<1>3. InboxType' /\ ThreadInv' /\ AckedMeansSaid' /\ RestType'
  BY <1>1, <1>2, DeliveriesKept, Types, Faults DEF Inv, RestType, SendCreate
<1>4. last' \in stored' \cup {NoKey} /\ sent' \in [UserKeys -> Nat]
  BY <1>1, <1>2, Types DEF Inv, OutboxType
<1>5. CASE InsertMessage(key[s]) /\ Step(s, "save")
  <2>1. /\ OutboxType' /\ line'[s] = "save" /\ key'[s] = key[s]
        /\ \A r \in Senders \ {s} : line'[r] = line[r] /\ key'[r] = key[r]
    BY <1>1, <1>4, <1>5, Sending, LineMoves DEF Lines
  <2>2. key[s] \in UserKeys /\ key[s] \notin stored /\ stored' = stored \cup {key[s]}
    BY <1>1, <1>5, Sending DEF InsertMessage
  <2>3. sent[key[s]] = 0
    <3>1. sent[key[s]] \in Nat
      BY <2>2, Types DEF Inv, OutboxType
    <3> QED BY <2>2, <3>1 DEF Inv, SentInv, SentOnce
  <2>4. \A r \in Senders : Telling(r)' <=> Telling(r) \/ r = s
    BY <2>1 DEF Telling
  <2>5. ASSUME NEW r \in Senders, Telling(r)' PROVE key'[r] \in stored' /\ sent'[key'[r]] = 0
    <3>1. CASE r = s
      BY <1>1, <2>1, <2>2, <2>3, <3>1
    <3>2. CASE r # s
      BY <1>1, <2>1, <2>2, <2>4, <2>5, <3>2 DEF Inv, SentInv
    <3> QED BY <3>1, <3>2
  <2>6. ASSUME NEW q \in Senders, NEW r \in Senders, Telling(q)', Telling(r)', key'[q] = key'[r]
        PROVE  q = r
    <3>1. CASE q # s /\ r # s
      BY <2>1, <2>4, <2>6, <3>1 DEF Inv, SentInv
    <3>2. \A p \in Senders \ {s} : Telling(p) => key[p] # key[s]
      BY <2>2 DEF Inv, SentInv
    <3> QED BY <2>1, <2>4, <2>6, <3>1, <3>2
  <2>7. SentOnce'
    BY <1>1, <1>2 DEF Inv, SentInv, SentOnce
  <2>8. SentInv'
    BY <2>5, <2>6, <2>7 DEF SentInv
  <2> QED BY <1>3, <2>1, <2>8, Types DEF Inv
<1>6. CASE Reply(s) /\ UNCHANGED stored
  <2>1. /\ OutboxType' /\ line'[s] = "idle"
        /\ \A r \in Senders \ {s} : line'[r] = line[r] /\ key'[r] = key[r]
    BY <1>1, <1>4, <1>6, Sending, LineMoves DEF Lines
  <2>2. SentInv'
    BY <1>1, <1>2, <2>1, NotTelling
  <2> QED BY <1>3, <2>1, <2>2, Types DEF Inv
<1> QED BY <1>1, <1>5, <1>6

LEMMA SendSaveKeeps ==
    ASSUME Inv, NEW s \in Senders, SendSave(s)
    PROVE  Inv'
<1>1. /\ UNCHANGED <<service, inbox, thread, stored, sent>> /\ line[s] = "save"
      /\ Step(s, "publish") /\ (last' = last \/ last' = key[s])
  BY DEF SendSave, SaveThread
<1>2. InboxType' /\ ThreadInv' /\ AckedMeansSaid' /\ RestType'
  BY <1>1, DeliveriesKept, Types, Faults DEF Inv, RestType, SendSave
<1>3. last' \in stored' \cup {NoKey} /\ sent' \in [UserKeys -> Nat]
  <2>1. key[s] \in stored
    BY <1>1 DEF Inv, SentInv, Telling
  <2> QED BY <1>1, <2>1, Types DEF Inv, OutboxType
<1>4. /\ OutboxType' /\ line'[s] = "publish" /\ key'[s] = key[s]
      /\ \A r \in Senders \ {s} : line'[r] = line[r] /\ key'[r] = key[r]
  BY <1>1, <1>3, Sending, LineMoves DEF Lines
<1>5. \A r \in Senders : (Telling(r)' <=> Telling(r)) /\ key'[r] = key[r]
  BY <1>1, <1>4 DEF Telling
<1>6. SentInv'
  BY <1>1, <1>5 DEF Inv, SentInv, SentOnce
<1> QED BY <1>2, <1>4, <1>6, Types DEF Inv

LEMMA SendPublishKeeps ==
    ASSUME Inv, NEW s \in Senders, SendPublish(s)
    PROVE  Inv'
<1>1. /\ UNCHANGED <<service, inbox, thread, stored, last>> /\ line[s] = "publish" /\ Reply(s)
      /\ sent' = [sent EXCEPT ![key[s]] = @ + 1] \/ sent' = sent
  BY DEF SendPublish
<1>2. InboxType' /\ ThreadInv' /\ AckedMeansSaid' /\ RestType'
  BY <1>1, DeliveriesKept, Types, Faults DEF Inv, RestType, SendPublish
<1>3. /\ key[s] \in UserKeys /\ key[s] \in stored /\ sent[key[s]] = 0
      /\ \A r \in Senders \ {s} : Telling(r) => key[r] # key[s]
  BY <1>1, Sending DEF Inv, SentInv, Telling
<1>4. /\ sent' \in [UserKeys -> Nat] /\ sent'[key[s]] <= 1
      /\ \A k \in UserKeys \ {key[s]} : sent'[k] = sent[k]
  BY <1>1, <1>3, Types DEF Inv, OutboxType
<1>5. last' \in stored' \cup {NoKey}
  BY <1>1, Types DEF Inv, OutboxType
<1>6. /\ OutboxType' /\ line'[s] = "idle"
      /\ \A r \in Senders \ {s} : line'[r] = line[r] /\ key'[r] = key[r]
  BY <1>1, <1>4, <1>5, Sending, LineMoves DEF Lines
<1>7. \A r \in Senders : Telling(r)' => r # s /\ Telling(r) /\ key'[r] = key[r]
  BY <1>6 DEF Telling
<1>8. \A r \in Senders : Telling(r)' => key'[r] \in stored /\ sent'[key'[r]] = 0
  <2>1. ASSUME NEW r \in Senders, Telling(r)' PROVE key'[r] \in stored /\ sent'[key'[r]] = 0
    <3>1. key[r] \in UserKeys /\ key[r] # key[s] /\ key[r] \in stored /\ sent[key[r]] = 0
      BY <1>3, <1>7, <2>1, Sending DEF Inv, SentInv, Telling
    <3> QED BY <1>4, <1>7, <2>1, <3>1
  <2> QED BY <2>1
<1>9. SentOnce'
  BY <1>1, <1>3, <1>4 DEF Inv, SentInv, SentOnce
<1>10. SentInv'
  BY <1>1, <1>7, <1>8, <1>9 DEF Inv, SentInv
<1> QED BY <1>2, <1>6, <1>10, Types DEF Inv

-----------------------------------------------------------------------------
(***************************************************************************)
(* The invariant and what follows from it.                                 *)
(***************************************************************************)

LEMMA InitInv == ASSUME Init PROVE Inv
<1>1. InboxType /\ OutboxType /\ RestType
  BY DEF Init, InboxType, OutboxType, RestType, Places, Lines
<1>2. AckedMeansSaid /\ ThreadInv /\ SentInv
  BY DEF Init, AckedMeansSaid, ThreadInv, SentInv, AnnouncedOnce, SentOnce, Making, Telling, Status
<1> QED BY <1>1, <1>2, Types DEF Inv

LEMMA InvStep == ASSUME Inv, [Next]_vars PROVE Inv'
<1>1. CASE UNCHANGED vars
  <2>1. UNCHANGED <<inbox, thread, stored, outbox, service, faults>>
    BY <1>1 DEF vars
  <2>2. RestType'
    BY <2>1, Types DEF Inv, RestType
  <2> QED BY <2>1, <2>2, SendersKept, DeliveriesKept, Types DEF Inv
<1>2. ASSUME NEW e \in Events, Deliver(e) PROVE Inv'
  BY <1>2, AssignedSkipKeeps, StatusSilentKeeps, AssignedLookupKeeps, StatusLookupKeeps,
     InitServiceKeeps DEF Deliver, StatusInit
<1>3. ASSUME NEW e \in Events, Redeliver(e) PROVE Inv'
  BY <1>3, RedeliverKeeps
<1>4. ASSUME NEW h \in Handlers, HandleBookingAssigned(h) \/ HandleBookingStatusChange(h)
      PROVE  Inv'
  BY <1>4, AssignedCreateKeeps, AssignedWelcomeKeeps, AssignedAnnounceKeeps, StatusCreateKeeps,
     StatusSayKeeps DEF HandleBookingAssigned, HandleBookingStatusChange
<1>5. ASSUME NEW s \in Senders, NEW k \in UserKeys, Send(s, k) PROVE Inv'
  BY <1>5, SendKeeps
<1>6. ASSUME NEW s \in Senders, SendMessage(s) PROVE Inv'
  BY <1>6, SendCheckKeeps, SendCreateKeeps, SendSaveKeeps, SendPublishKeeps DEF SendMessage
<1>7. CASE Request
  BY <1>7, InitServiceKeeps DEF Request
<1>8. CASE Crash
  BY <1>8, CrashKeeps
<1> QED BY <1>1, <1>2, <1>3, <1>4, <1>5, <1>6, <1>7, <1>8 DEF Next

LEMMA InvAlways == Spec => []Inv
<1>1. Init => Inv
  BY InitInv
<1>2. Inv /\ [Next]_vars => Inv'
  BY InvStep
<1> QED BY <1>1, <1>2, PTL DEF Spec

\* Deliveries, requests and the thread's row keep their types; what the thread names
\* as its last message is stored.
THEOREM TypeCorrect == Spec => []TypeOK
<1>1. Inv => TypeOK
  BY DEF Inv
<1> QED BY <1>1, InvAlways, PTL

\* A handler of chat/events/subscriber.go returns nil only for an event that has had its
\* effect, whatever races it lost and whatever calls were refused.
THEOREM NothingAckedInVain == Spec => []AckedMeansSaid
<1>1. Inv => AckedMeansSaid
  BY DEF Inv
<1> QED BY <1>1, InvAlways, PTL

\* However many deliveries of the assignment run at once, the thread is announced once,
\* and the artisan is shut out of it only if a status event came first.
THEOREM ThreadAnnouncedOnce == Spec => []AnnouncedOnce
<1>1. Inv => AnnouncedOnce
  BY DEF Inv, ThreadInv
<1> QED BY <1>1, InvAlways, PTL

\* However many requests race under one idempotency key, message.sent is published once
\* for it, and only for a stored message.
THEOREM MessageSentOnce == Spec => []SentOnce
<1>1. Inv => SentOnce
  BY DEF Inv, SentInv
<1> QED BY <1>1, InvAlways, PTL

-----------------------------------------------------------------------------
(***************************************************************************)
(* The stream.  A message is missed by nobody as long as each place that   *)
(* may hold it hands it on (NothingMissedStep); an acknowledgement has a   *)
(* copy that is the row, or an old one its UPDATE will not find (CopyOK).  *)
(***************************************************************************)
Frames == Messages \cup {Other}

Copy == [id : {0} \cup Messages, target : {"none", "done", "delivered", "read"}, version : Nat]

Stages == {"out", "registered", "replaying", "reading", "closing", "closed"}

StreamTypes ==
    /\ status \in [Messages -> Statuses] /\ version \in [Messages -> Nat]
    /\ bulk \subseteq Messages /\ handing \subseteq Stored
    /\ broadcast \in Seq(Frames)
    /\ item = <<>> \/ \E x \in Frames : item = <<x>>
    /\ targets \subseteq Clients /\ (targets = {} <=> item = <<>>)
    /\ stage \in [Clients -> Stages]
    /\ registered = {c \in Clients : stage[c] \notin {"out", "closed"}}
    /\ replay \in [Clients -> Seq(Messages)]
    /\ send \in [Clients -> Seq(Frames)]
    /\ skipped \in [Clients -> SUBSET Messages]
    /\ seen \in [Clients -> SUBSET Messages]
    /\ dropped \in [Clients -> SUBSET Messages]
    /\ copy \in [Clients -> Copy]
    /\ frames \in Nat /\ bulkReads \in Nat

\* An acknowledgement that holds a copy of a row: the row has not gone back in version,
\* and where it has not moved on, the status may be written over it.
CopyOK(k) ==
    k # NoCopy =>
        /\ k.id \in Stored /\ k.target # "none"
        /\ k.target \in AckStatuses =>
              /\ k.version <= version[k.id]
              /\ k.version = version[k.id] =>
                    k.id \in bulk \/ CanTransition(status[k.id], k.target)

StreamInv ==
    /\ StreamTypes
    /\ \A c \in Clients : CopyOK(copy[c])
    /\ NothingMissed

Reached(m, c) == m \in seen[c] \/ Underway(m, c) \/ m \in skipped[c] \cup dropped[c]

\* A frame is a message, by its number, or the one value for all others.
LEMMA NumbersAreFrames ==
    Messages \subseteq Nat /\ Other \notin Messages /\ Messages \cap {Other} = {}
BY StreamAssumption DEF Messages, Other

\* What Within says of a channel that got a frame, or lost its oldest.
LEMMA WithinAppended ==
    ASSUME NEW T, NEW s \in Seq(T), NEW x \in T, NEW m
    PROVE  /\ Append(s, x) \in Seq(T)
           /\ Within(m, Append(s, x)) <=> Within(m, s) \/ m = x
<1>1. PICK n \in Nat : n = Len(s) /\ DOMAIN s = 1..n
  BY LenProperties
<1>2. PICK t : t = Append(s, x)
  OBVIOUS
<1>3. /\ t \in Seq(T) /\ DOMAIN t = 1..(n + 1) /\ t[n + 1] = x
      /\ \A i \in 1..n : t[i] = s[i]
  <2>1. /\ t \in Seq(T) /\ Len(t) = n + 1 /\ t[n + 1] = x /\ \A i \in 1..n : t[i] = s[i]
    BY <1>1, <1>2, AppendProperties
  <2> QED BY <2>1, LenProperties
<1>4. Within(m, t) <=> Within(m, s) \/ m = x
  <2>1. ASSUME NEW i \in 1..(n + 1), t[i] = m PROVE Within(m, s) \/ m = x
    <3>1. CASE i = n + 1
      BY <1>3, <2>1, <3>1
    <3>2. CASE i # n + 1
      <4>1. i \in 1..n
        BY <3>2
      <4> QED BY <1>1, <1>3, <2>1, <4>1 DEF Within
    <3> QED BY <3>1, <3>2
  <2>2. ASSUME NEW i \in 1..n, s[i] = m PROVE Within(m, t)
    <3>1. i \in 1..(n + 1)
      OBVIOUS
    <3> QED BY <1>3, <2>2, <3>1 DEF Within
  <2>3. n + 1 \in 1..(n + 1)
    OBVIOUS
  <2> QED BY <1>1, <1>3, <2>1, <2>2, <2>3 DEF Within
<1> QED BY <1>2, <1>3, <1>4

LEMMA WithinTail ==
    ASSUME NEW T, NEW s \in Seq(T), s # <<>>
    PROVE  /\ Head(s) \in T /\ Tail(s) \in Seq(T)
           /\ \A m : Within(m, s) => m = Head(s) \/ Within(m, Tail(s))
<1>1. PICK n \in Nat : n = Len(s) /\ DOMAIN s = 1..n
  BY LenProperties
<1>2. PICK t : t = Tail(s)
  OBVIOUS
<1>3. /\ Head(s) \in T /\ t \in Seq(T) /\ Head(s) = s[1]
      /\ Len(t) = n - 1 /\ \A i \in 1..Len(t) : t[i] = s[i + 1]
  BY <1>1, <1>2, HeadTailProperties
<1>4. DOMAIN t = 1..(n - 1) /\ \A i \in 1..(n - 1) : t[i] = s[i + 1]
  BY <1>3, LenProperties
<1>5. ASSUME NEW m, NEW i \in 1..n, s[i] = m PROVE m = s[1] \/ Within(m, t)
  <2>1. CASE i = 1
    BY <1>5, <2>1
  <2>2. CASE i # 1
    <3>1. i - 1 \in 1..(n - 1) /\ (i - 1) + 1 = i
      BY <1>1, <2>2
    <3>2. t[i - 1] = m
      BY <1>4, <1>5, <3>1
    <3> QED BY <1>4, <3>1, <3>2 DEF Within
  <2> QED BY <2>1, <2>2
<1> QED BY <1>1, <1>2, <1>3, <1>5 DEF Within

\* What Broadcast(x) does to the manager's channel and to what is given up.
LEMMA Broadcasts ==
    ASSUME StreamTypes, NEW x \in Frames, Broadcast(x)
    PROVE  /\ broadcast' \in Seq(Frames)
           /\ dropped' \in [Clients -> SUBSET Messages]
           /\ \A c \in Clients : dropped[c] \subseteq dropped'[c]
           /\ \A m : Within(m, broadcast) => Within(m, broadcast')
           /\ x \in Messages => \A c \in Clients : Within(x, broadcast') \/ x \in dropped'[c]
<1>1. broadcast \in Seq(Frames) /\ dropped \in [Clients -> SUBSET Messages]
  BY DEF StreamTypes
<1>2. CASE broadcast' = Append(broadcast, x) /\ UNCHANGED dropped
  BY <1>1, <1>2, WithinAppended
<1>3. CASE dropped' = [c \in Clients |-> dropped[c] \cup ({x} \cap Messages)] /\ UNCHANGED broadcast
  BY <1>1, <1>3
<1> QED BY <1>2, <1>3 DEF Broadcast

\* The same of a send to one connection.
LEMMA Pushes ==
    ASSUME StreamTypes, NEW c \in Clients, NEW x \in Frames, Push(c, x)
    PROVE  /\ send' \in [Clients -> Seq(Frames)]
           /\ dropped' \in [Clients -> SUBSET Messages]
           /\ \A d \in Clients : dropped[d] \subseteq dropped'[d]
           /\ \A d \in Clients : \A m : Within(m, send[d]) => Within(m, send'[d])
           /\ x \in Messages => Within(x, send'[c]) \/ x \in dropped'[c]
<1>1. send \in [Clients -> Seq(Frames)] /\ dropped \in [Clients -> SUBSET Messages]
  BY DEF StreamTypes
<1>2. CASE send' = [send EXCEPT ![c] = Append(@, x)] /\ UNCHANGED dropped
  <2>1. PICK s : s = Append(send[c], x)
    OBVIOUS
  <2>2. s \in Seq(Frames) /\ \A m : Within(m, s) <=> Within(m, send[c]) \/ m = x
    BY <1>1, <2>1, WithinAppended
  <2>3. send' = [send EXCEPT ![c] = s]
    BY <1>2, <2>1
  <2> QED BY <1>1, <1>2, <2>2, <2>3
<1>3. CASE dropped' = [dropped EXCEPT ![c] = @ \cup ({x} \cap Messages)] /\ UNCHANGED send
  BY <1>1, <1>3
<1> QED BY <1>2, <1>3 DEF Push

\* Nothing is missed after a step that keeps what is on its way, or hands it on.
LEMMA NothingMissedStep ==
    ASSUME NothingMissed, StreamTypes,
           \A c \in Clients : c \in Open' => c \in Open \/ stage'[c] = "registered",
           \A c \in Clients, m \in Messages :
              m \in Stored' => m \in Stored \/ m \in handing',
           \A c \in Clients, m \in Messages :
              c \in Open /\ c \in Open' /\ m \in Stored /\ Reached(m, c) => Reached(m, c)'
    PROVE  NothingMissed'
<1> SUFFICES ASSUME NEW c \in Clients, c \in Open', NEW m \in Messages, m \in Stored'
             PROVE  Reached(m, c)'
  BY DEF NothingMissed, Reached, Open, Stored
<1>1. CASE stage'[c] = "registered" \/ m \in handing'
  BY <1>1 DEF Reached, Underway
<1>2. CASE c \in Open /\ m \in Stored
  BY <1>2 DEF NothingMissed, Reached
<1> QED BY <1>1, <1>2

\* The same for a step that leaves the rows alone, and no acknowledgement with more
\* than it had.
LEMMA HubStep ==
    ASSUME StreamInv, UNCHANGED rows, StreamTypes',
           \A c \in Clients : copy'[c] = copy[c] \/ copy'[c] = NoCopy,
           \A c \in Clients : c \in Open' => c \in Open \/ stage'[c] = "registered",
           \A c \in Clients, m \in Messages : c \in Open /\ Reached(m, c) => Reached(m, c)'
    PROVE  StreamInv'
<1>1. Stored' = Stored
  BY DEF Stored, rows
<1>2. \A c \in Clients : CopyOK(copy[c])'
  <2>1. \A k : CopyOK(k) => CopyOK(k)'
    BY <1>1 DEF CopyOK, rows
  <2>2. CopyOK(NoCopy)'
    BY DEF CopyOK
  <2> QED BY <2>1, <2>2 DEF StreamInv
<1>3. NothingMissed'
  BY <1>1, NothingMissedStep DEF StreamInv
<1> QED BY <1>2, <1>3 DEF StreamInv

\* The sender of a message and its goroutine.
LEMMA MessageComesIn ==
    ASSUME StreamInv, NEW m \in Messages, Store(m) \/ HandOver(m)
    PROVE  StreamInv'
<1>1. StreamTypes /\ m \in Frames
  BY DEF StreamInv, Frames
<1>2. CASE Store(m)
  <2>1. /\ status[m] = "none" /\ status' = [status EXCEPT ![m] = "sent"]
        /\ handing' = handing \cup {m}
        /\ UNCHANGED <<version, bulk, broadcast, item, targets, conns, copy, frames, bulkReads>>
    BY <1>2 DEF Store
  <2>2. status' \in [Messages -> Statuses] /\ Stored' = Stored \cup {m} /\ m \notin Stored
        /\ \A n \in Stored : status'[n] = status[n]
    BY <1>1, <2>1 DEF StreamTypes, Stored, Statuses
  <2>3. StreamTypes'
    BY <1>1, <2>1, <2>2 DEF StreamTypes, conns
  <2>4. \A c \in Clients : CopyOK(copy[c])'
    BY <2>1, <2>2 DEF StreamInv, CopyOK
  <2>5. NothingMissed'
    <3>1. Open' = Open
      BY <2>1 DEF Open, conns
    <3>2. \A c \in Clients, n \in Messages : Reached(n, c) => Reached(n, c)'
      BY <2>1 DEF Reached, Underway, Within, conns
    <3> QED BY <1>1, <2>1, <2>2, <3>1, <3>2, NothingMissedStep DEF StreamInv
  <2> QED BY <2>3, <2>4, <2>5 DEF StreamInv
<1>3. CASE HandOver(m)
  <2>1. /\ handing' = handing \ {m} /\ Broadcast(m)
        /\ UNCHANGED <<rows, item, targets, stage, registered, replay, skipped, send, seen, copy,
                       frames, bulkReads>>
    BY <1>3 DEF HandOver
  <2>2. /\ broadcast' \in Seq(Frames) /\ dropped' \in [Clients -> SUBSET Messages]
        /\ \A c \in Clients : dropped[c] \subseteq dropped'[c]
        /\ \A n : Within(n, broadcast) => Within(n, broadcast')
        /\ \A c \in Clients : Within(m, broadcast') \/ m \in dropped'[c]
    BY <1>1, <2>1, Broadcasts
  <2>3. StreamTypes'
    BY <1>1, <2>1, <2>2 DEF StreamTypes, rows, Stored
  <2>4. \A c \in Clients, n \in Messages : Reached(n, c) => Reached(n, c)'
    <3> SUFFICES ASSUME NEW c \in Clients, NEW n \in Messages, Reached(n, c) PROVE Reached(n, c)'
      OBVIOUS
    <3>1. CASE n = m
      BY <2>2, <3>1 DEF Reached, Underway
    <3>2. CASE n # m
      BY <2>1, <2>2, <3>2 DEF Reached, Underway, Within
    <3> QED BY <3>1, <3>2
  <2>5. Open' = Open
    BY <2>1 DEF Open
  <2> QED BY <2>1, <2>3, <2>4, <2>5, HubStep
<1> QED BY <1>2, <1>3

\* The broadcast goroutine.
LEMMA LoopSteps ==
    ASSUME StreamInv, LoopTake \/ \E c \in Clients : LoopSend(c)
    PROVE  StreamInv'
<1>1. StreamTypes
  BY DEF StreamInv
<1>2. Open \subseteq registered /\ registered \subseteq Clients
  BY <1>1 DEF StreamTypes, Open
<1>3. CASE LoopTake
  <2>1. PICK x : x = Head(broadcast)
    OBVIOUS
  <2>2. /\ item = <<>> /\ broadcast # <<>> /\ broadcast' = Tail(broadcast)
        /\ targets' = registered /\ item' = IF registered = {} THEN <<>> ELSE <<x>>
        /\ UNCHANGED <<rows, handing, conns, copy, frames, bulkReads>>
    BY <1>3, <2>1 DEF LoopTake, Subscribers
  <2>3. /\ x \in Frames /\ broadcast' \in Seq(Frames)
        /\ \A m : Within(m, broadcast) => m = x \/ Within(m, broadcast')
    BY <1>1, <2>1, <2>2, WithinTail DEF StreamTypes
  <2>4. StreamTypes'
    <3>1. targets' \subseteq Clients /\ (targets' = {} <=> item' = <<>>)
          /\ (item' = <<>> \/ \E y \in Frames : item' = <<y>>)
      BY <1>2, <2>2, <2>3
    <3> QED BY <1>1, <2>2, <2>3, <3>1 DEF StreamTypes, rows, conns, Stored
  <2>5. \A c \in Clients, m \in Messages : c \in Open /\ Reached(m, c) => Reached(m, c)'
    <3> SUFFICES ASSUME NEW c \in Clients, c \in Open, NEW m \in Messages, Reached(m, c)
                 PROVE  Reached(m, c)'
      OBVIOUS
    <3>1. c \in targets' /\ item' = <<x>>
      BY <1>2, <2>2
    <3>2. Within(x, item')
      BY <3>1 DEF Within
    <3>3. ~Within(m, item)
      BY <2>2 DEF Within
    <3> QED BY <2>2, <2>3, <3>1, <3>2, <3>3 DEF Reached, Underway, conns
  <2>6. Open' = Open
    BY <2>2 DEF Open, conns
  <2> QED BY <2>2, <2>4, <2>5, <2>6, HubStep
<1>4. ASSUME NEW c \in Clients, LoopSend(c) PROVE StreamInv'
  <2>1. PICK x \in Frames : item = <<x>>
    BY <1>1, <1>4 DEF StreamTypes, LoopSend
  <2>2. /\ c \in targets /\ targets' = targets \ {c} /\ Push(c, x)
        /\ item' = IF targets = {c} THEN <<>> ELSE item
        /\ UNCHANGED <<rows, handing, broadcast, stage, registered, replay, skipped, seen, copy,
                       frames, bulkReads>>
    BY <1>4, <2>1 DEF LoopSend
  <2>3. /\ send' \in [Clients -> Seq(Frames)] /\ dropped' \in [Clients -> SUBSET Messages]
        /\ \A d \in Clients : dropped[d] \subseteq dropped'[d]
        /\ \A d \in Clients : \A m : Within(m, send[d]) => Within(m, send'[d])
        /\ x \in Messages => Within(x, send'[c]) \/ x \in dropped'[c]
    BY <1>1, <2>2, Pushes
  <2>4. StreamTypes'
    <3>1. targets' \subseteq Clients /\ (targets' = {} <=> item' = <<>>)
          /\ (item' = <<>> \/ \E y \in Frames : item' = <<y>>)
      BY <1>1, <2>1, <2>2 DEF StreamTypes
    <3> QED BY <1>1, <2>2, <2>3, <3>1 DEF StreamTypes, rows, Stored
  <2>5. \A d \in Clients, m \in Messages : Reached(m, d) => Reached(m, d)'
    <3> SUFFICES ASSUME NEW d \in Clients, NEW m \in Messages, Reached(m, d)
                 PROVE  Reached(m, d)'
      OBVIOUS
    <3>1. Within(m, item) => m = x
      BY <2>1 DEF Within
    <3>2. CASE Within(m, item) /\ d = c
      BY <2>3, <3>1, <3>2 DEF Reached, Underway
    <3>3. CASE Within(m, item) /\ d \in targets \ {c}
      <4>1. item' = item /\ d \in targets'
        BY <2>2, <3>3
      <4> QED BY <3>3, <4>1 DEF Reached, Underway
    <3>4. CASE ~(Within(m, item) /\ d \in targets)
      BY <2>2, <2>3, <3>4 DEF Reached, Underway
    <3> QED BY <3>2, <3>3, <3>4
  <2>6. Open' = Open
    BY <2>2 DEF Open
  <2> QED BY <2>2, <2>4, <2>5, <2>6, HubStep
<1> QED BY <1>3, <1>4

\* A frame that is no stored message is broadcast.
LEMMA OtherIsBroadcast ==
    ASSUME StreamInv, Broadcast(Other), frames' \in Nat, copy' \in [Clients -> Copy],
           \A d \in Clients : copy'[d] = copy[d] \/ copy'[d] = NoCopy,
           UNCHANGED <<rows, handing, item, targets, stage, registered, replay, skipped, send,
                       seen, bulkReads>>
    PROVE  StreamInv'
<1>1. StreamTypes /\ Other \in Frames
  BY DEF StreamInv, Frames
<1>2. /\ broadcast' \in Seq(Frames) /\ dropped' \in [Clients -> SUBSET Messages]
      /\ \A d \in Clients : dropped[d] \subseteq dropped'[d]
      /\ \A m : Within(m, broadcast) => Within(m, broadcast')
  BY <1>1, Broadcasts
<1>3. StreamTypes'
  BY <1>1, <1>2 DEF StreamTypes, rows, Stored
<1>4. Open' = Open
  BY DEF Open
<1>5. \A d \in Clients, m \in Messages : Reached(m, d) => Reached(m, d)'
  BY <1>2 DEF Reached, Underway
<1> QED BY <1>3, <1>4, <1>5, HubStep

\* A connection from the upgrade to its end, but for acknowledgements.
LEMMA ConnectionSteps ==
    ASSUME StreamInv, NEW c \in Clients,
           \/ Connect(c) \/ ReadHistory(c) \/ ReplayNext(c) \/ ReplayComplete(c)
           \/ Write(c) \/ HangUp(c) \/ Unregister(c) \/ Say(c)
    PROVE  StreamInv'
<1> USE DEF Stages
<1>1. StreamTypes
  BY DEF StreamInv
<1>2. CASE Connect(c)
  <2>1. /\ stage[c] = "out" /\ stage' = [stage EXCEPT ![c] = "registered"]
        /\ registered' = registered \cup {c}
        /\ UNCHANGED <<rows, hub, replay, skipped, send, seen, dropped, copy, frames, bulkReads>>
    BY <1>2 DEF Connect
  <2>2. StreamTypes'
    BY <1>1, <2>1 DEF StreamTypes, rows, hub, Stored
  <2>3. \A d \in Clients : d \in Open' => d \in Open \/ stage'[d] = "registered"
    BY <1>1, <2>1 DEF Open, StreamTypes
  <2>4. \A d \in Clients, m \in Messages : d \in Open /\ Reached(m, d) => Reached(m, d)'
    BY <1>1, <2>1 DEF Reached, Underway, Open, hub, StreamTypes
  <2> QED BY <2>1, <2>2, <2>3, <2>4, HubStep
<1>3. CASE ReadHistory(c)
  <2>1. /\ stage[c] = "registered" /\ stage' = [stage EXCEPT ![c] = "replaying"]
        /\ UNCHANGED <<rows, hub, registered, send, seen, dropped, copy, frames, bulkReads>>
    BY <1>3 DEF ReadHistory
  <2>2. PICK r, S : /\ r \in Seq(Messages) /\ S \subseteq Messages
                    /\ replay' = [replay EXCEPT ![c] = r]
                    /\ skipped' = [skipped EXCEPT ![c] = S]
                    /\ \A m \in Stored : Within(m, r) \/ m \in S
    <3>1. ASSUME NEW n \in 0..ReplayLimit, NEW r \in [1..n -> Messages],
                 replay' = [replay EXCEPT ![c] = r],
                 skipped' = [skipped EXCEPT ![c] = Stored \ {r[i] : i \in 1..n}]
          PROVE  /\ r \in Seq(Messages) /\ Stored \ {r[i] : i \in 1..n} \subseteq Messages
                 /\ \A m \in Stored : Within(m, r) \/ m \in Stored \ {r[i] : i \in 1..n}
      <4>1. n \in Nat
        BY StreamAssumption
      <4>2. r \in Seq(Messages)
        BY <4>1
      <4> QED BY <4>2 DEF Stored, Within
    <3>2. ASSUME UNCHANGED replay, skipped' = [skipped EXCEPT ![c] = Stored]
          PROVE  /\ replay[c] \in Seq(Messages) /\ Stored \subseteq Messages
                 /\ replay' = [replay EXCEPT ![c] = replay[c]]
      BY <1>1, <3>2 DEF StreamTypes, Stored
    <3>3. CASE UNCHANGED replay /\ skipped' = [skipped EXCEPT ![c] = Stored]
      BY <3>2, <3>3
    <3>4. CASE \E n \in 0..ReplayLimit : \E r \in [1..n -> Messages] :
                  /\ replay' = [replay EXCEPT ![c] = r]
                  /\ skipped' = [skipped EXCEPT ![c] = Stored \ {r[i] : i \in 1..n}]
      BY <3>1, <3>4
    <3> QED BY <1>3, <3>3, <3>4 DEF ReadHistory
  <2>3. StreamTypes'
    BY <1>1, <2>1, <2>2 DEF StreamTypes, rows, hub, Stored
  <2>4. Open' = Open
    BY <1>1, <2>1 DEF Open, StreamTypes
  <2>5. Stored' = Stored
    BY <2>1 DEF Stored, rows
  <2>6. \A d \in Clients, m \in Messages : m \in Stored /\ Reached(m, d) => Reached(m, d)'
    <3> SUFFICES ASSUME NEW d \in Clients, NEW m \in Messages, m \in Stored, Reached(m, d)
                 PROVE  Reached(m, d)'
      OBVIOUS
    <3>1. CASE d = c
      BY <1>1, <2>2, <3>1 DEF Reached, Underway, StreamTypes
    <3>2. CASE d # c
      <4>1. stage'[d] = stage[d] /\ replay'[d] = replay[d] /\ skipped'[d] = skipped[d]
        BY <1>1, <2>1, <2>2, <3>2 DEF StreamTypes
      <4> QED BY <2>1, <4>1 DEF Reached, Underway, hub
    <3> QED BY <3>1, <3>2
  <2>7. NothingMissed'
    BY <1>1, <2>4, <2>5, <2>6, NothingMissedStep DEF StreamInv
  <2>8. \A d \in Clients : CopyOK(copy[d])'
    BY <2>1, <2>5 DEF StreamInv, CopyOK, rows
  <2> QED BY <2>3, <2>7, <2>8 DEF StreamInv
<1>4. CASE ReplayNext(c)
  <2>1. PICK x : x = Head(replay[c])
    OBVIOUS
  <2>2. PICK t : t = Tail(replay[c])
    OBVIOUS
  <2>3. /\ stage[c] = "replaying" /\ replay[c] # <<>> /\ Push(c, x)
        /\ replay' = [replay EXCEPT ![c] = t]
        /\ UNCHANGED <<rows, hub, stage, registered, skipped, seen, copy, frames, bulkReads>>
    BY <1>4, <2>1, <2>2 DEF ReplayNext
  <2>4. /\ x \in Messages /\ t \in Seq(Messages)
        /\ \A m : Within(m, replay[c]) => m = x \/ Within(m, t)
    <3>1. replay[c] \in Seq(Messages)
      BY <1>1 DEF StreamTypes
    <3> QED BY <2>1, <2>2, <2>3, <3>1, WithinTail
  <2>5. /\ send' \in [Clients -> Seq(Frames)] /\ dropped' \in [Clients -> SUBSET Messages]
        /\ \A d \in Clients : dropped[d] \subseteq dropped'[d]
        /\ \A d \in Clients : \A m : Within(m, send[d]) => Within(m, send'[d])
        /\ Within(x, send'[c]) \/ x \in dropped'[c]
    <3>1. x \in Frames
      BY <2>4 DEF Frames
    <3> QED BY <1>1, <2>3, <2>4, <3>1, Pushes
  <2>6. StreamTypes'
    BY <1>1, <2>3, <2>4, <2>5 DEF StreamTypes, rows, hub, Stored
  <2>7. Open' = Open
    BY <2>3 DEF Open
  <2>8. \A d \in Clients, m \in Messages : Reached(m, d) => Reached(m, d)'
    <3> SUFFICES ASSUME NEW d \in Clients, NEW m \in Messages, Reached(m, d)
                 PROVE  Reached(m, d)'
      OBVIOUS
    <3>1. Within(m, replay[d]) => Within(m, replay'[d]) \/ (d = c /\ m = x)
      BY <1>1, <2>3, <2>4 DEF StreamTypes
    <3> QED BY <2>3, <2>5, <3>1 DEF Reached, Underway, hub
  <2> QED BY <2>3, <2>6, <2>7, <2>8, HubStep
<1>5. CASE ReplayComplete(c)
  <2>1. /\ stage[c] = "replaying" /\ Push(c, Other) /\ stage' = [stage EXCEPT ![c] = "reading"]
        /\ UNCHANGED <<rows, hub, registered, replay, skipped, seen, copy, frames, bulkReads>>
    BY <1>5 DEF ReplayComplete
  <2>2. /\ send' \in [Clients -> Seq(Frames)] /\ dropped' \in [Clients -> SUBSET Messages]
        /\ \A d \in Clients : dropped[d] \subseteq dropped'[d]
        /\ \A d \in Clients : \A m : Within(m, send[d]) => Within(m, send'[d])
    <3>1. Other \in Frames
      BY DEF Frames
    <3> QED BY <1>1, <2>1, <3>1, Pushes
  <2>3. StreamTypes'
    BY <1>1, <2>1, <2>2 DEF StreamTypes, rows, hub, Stored
  <2>4. Open' = Open
    BY <1>1, <2>1 DEF Open, StreamTypes
  <2>5. \A d \in Clients, m \in Messages : Reached(m, d) => Reached(m, d)'
    BY <1>1, <2>1, <2>2 DEF Reached, Underway, hub, StreamTypes
  <2> QED BY <2>1, <2>3, <2>4, <2>5, HubStep
<1>6. CASE Write(c)
  <2>1. PICK x : x = Head(send[c])
    OBVIOUS
  <2>2. PICK t : t = Tail(send[c])
    OBVIOUS
  <2>3. /\ send[c] # <<>> /\ send' = [send EXCEPT ![c] = t]
        /\ seen' = [seen EXCEPT ![c] = @ \cup ({x} \cap Messages)]
        /\ UNCHANGED <<rows, hub, stage, registered, replay, skipped, dropped, copy, frames,
                       bulkReads>>
    BY <1>6, <2>1, <2>2 DEF Write
  <2>4. /\ t \in Seq(Frames) /\ \A m : Within(m, send[c]) => m = x \/ Within(m, t)
    <3>1. send[c] \in Seq(Frames)
      BY <1>1 DEF StreamTypes
    <3> QED BY <2>1, <2>2, <2>3, <3>1, WithinTail
  <2>5. StreamTypes'
    BY <1>1, <2>3, <2>4 DEF StreamTypes, rows, hub, Stored
  <2>6. Open' = Open
    BY <2>3 DEF Open
  <2>7. \A d \in Clients, m \in Messages : Reached(m, d) => Reached(m, d)'
    <3> SUFFICES ASSUME NEW d \in Clients, NEW m \in Messages, Reached(m, d)
                 PROVE  Reached(m, d)'
      OBVIOUS
    <3>1. Within(m, send[d]) => Within(m, send'[d]) \/ m \in seen'[d]
      BY <1>1, <2>3, <2>4 DEF StreamTypes
    <3>2. m \in seen[d] => m \in seen'[d]
      BY <1>1, <2>3 DEF StreamTypes
    <3> QED BY <2>3, <3>1, <3>2 DEF Reached, Underway, hub
  <2> QED BY <2>3, <2>5, <2>6, <2>7, HubStep
<1>7. CASE HangUp(c) \/ Unregister(c)
  <2>1. PICK place \in {"closing", "closed"} : stage' = [stage EXCEPT ![c] = place]
    BY <1>7 DEF HangUp, Unregister
  <2>2. /\ registered' = {d \in Clients : stage'[d] \notin {"out", "closed"}}
        /\ UNCHANGED <<rows, hub, replay, send, copy, frames, bulkReads>>
        /\ \A d \in Clients \ {c} : /\ skipped'[d] = skipped[d] /\ seen'[d] = seen[d]
                                   /\ dropped'[d] = dropped[d]
        /\ \A f \in {skipped', seen', dropped'} : f \in [Clients -> SUBSET Messages]
    <3>1. CASE HangUp(c)
      BY <1>1, <3>1 DEF HangUp, StreamTypes, Open
    <3>2. CASE Unregister(c)
      BY <1>1, <3>2 DEF Unregister, StreamTypes
    <3> QED BY <1>7, <3>1, <3>2
  <2>3. StreamTypes'
    BY <1>1, <2>1, <2>2 DEF StreamTypes, rows, hub, Stored
  <2>4. \A d \in Clients : d \in Open' => d \in Open /\ d # c
    BY <1>1, <2>1 DEF StreamTypes, Open
  <2>5. \A d \in Clients, m \in Messages :
           d \in Open /\ d \in Open' /\ m \in Stored /\ Reached(m, d) => Reached(m, d)'
    BY <1>1, <2>1, <2>2, <2>4 DEF StreamTypes, Reached, Underway, hub
  <2>6. Stored' = Stored
    BY <2>2 DEF Stored, rows
  <2>7. NothingMissed'
    BY <1>1, <2>4, <2>5, <2>6, NothingMissedStep DEF StreamInv
  <2>8. \A d \in Clients : CopyOK(copy[d])'
    BY <2>2, <2>6 DEF StreamInv, CopyOK, rows
  <2> QED BY <2>3, <2>7, <2>8 DEF StreamInv
<1>8. CASE Say(c)
  <2>1. frames' \in Nat
    BY <1>1, <1>8 DEF Say, Reads, StreamTypes
  <2> QED BY <1>1, <1>8, <2>1, OtherIsBroadcast DEF Say, StreamTypes
<1> QED BY <1>2, <1>3, <1>4, <1>5, <1>6, <1>7, <1>8

\* A step that changes statuses of stored messages, or an acknowledgement, and nothing
\* that is on its way.
LEMMA ReceiptStep ==
    ASSUME StreamInv, UNCHANGED <<hub, conns>>, Stored' = Stored,
           status' \in [Messages -> Statuses], version' \in [Messages -> Nat],
           bulk' \subseteq Messages, copy' \in [Clients -> Copy],
           frames' \in Nat, bulkReads' \in Nat,
           \A c \in Clients : CopyOK(copy[c])'
    PROVE  StreamInv'
<1>1. StreamTypes'
  BY DEF StreamInv, StreamTypes, hub, conns
<1>2. Open' = Open
  BY DEF Open, conns
<1>3. \A d \in Clients, m \in Messages : Reached(m, d) => Reached(m, d)'
  BY DEF Reached, Underway, hub, conns
<1>4. NothingMissed'
  BY <1>2, <1>3, NothingMissedStep DEF StreamInv
<1> QED BY <1>1, <1>4 DEF StreamInv

\* An acknowledgement: read, update under db_version, tell the others.
LEMMA Acknowledges ==
    ASSUME StreamInv, NEW c \in Clients,
           \/ \E m \in Messages : AckAgain(c, m) \/ \E t \in AckStatuses : AckRead(c, m, t)
           \/ AckUpdate(c) \/ AckBroadcast(c)
    PROVE  StreamInv'
<1>1. StreamTypes /\ NoCopy \in Copy
  BY DEF StreamInv, NoCopy, Copy
<1>2. ASSUME NEW m \in Messages, AckAgain(c, m) PROVE StreamInv'
  <2>1. frames' \in Nat
    BY <1>1, <1>2 DEF AckAgain, Reads, StreamTypes
  <2> QED BY <1>1, <1>2, <2>1, OtherIsBroadcast DEF AckAgain, StreamTypes
<1>3. ASSUME NEW m \in Messages, NEW t \in AckStatuses, AckRead(c, m, t) PROVE StreamInv'
  <2>1. PICK k : k = [id |-> m, target |-> t, version |-> version[m]]
    OBVIOUS
  <2>2. /\ CanTransition(status[m], t) /\ copy' = [copy EXCEPT ![c] = k]
        /\ UNCHANGED <<rows, hub, conns, bulkReads>> /\ frames' = frames + 1
    BY <1>3, <2>1 DEF AckRead, Reads
  <2>3. k \in Copy /\ k.id = m /\ k.target = t /\ k.version = version[m] /\ version[m] \in Nat
    BY <1>1, <2>1 DEF Copy, AckStatuses, StreamTypes
  <2>4. m \in Stored
    BY <2>2 DEF CanTransition, Stored
  <2>5. CopyOK(k)
    BY <2>2, <2>3, <2>4 DEF CopyOK, AckStatuses
  <2>6. Stored' = Stored /\ \A j : CopyOK(j) => CopyOK(j)'
    BY <2>2 DEF CopyOK, rows, Stored
  <2>7. copy' \in [Clients -> Copy] /\ \A d \in Clients : CopyOK(copy'[d])
    BY <1>1, <2>2, <2>3, <2>5 DEF StreamInv, StreamTypes
  <2>8. \A d \in Clients : CopyOK(copy[d])'
    BY <2>6, <2>7
  <2> QED BY <1>1, <2>2, <2>6, <2>7, <2>8, ReceiptStep DEF StreamTypes, rows
<1>4. CASE AckUpdate(c)
  <2>1. PICK k : k = copy[c]
    OBVIOUS
  <2>2. k \in Copy /\ k # NoCopy /\ CopyOK(k) /\ k.target # "done"
    BY <1>1, <1>4, <2>1 DEF StreamInv, StreamTypes, AckUpdate
  <2>3. k.id \in Stored /\ k.id \in Messages /\ k.target \in AckStatuses
    BY <2>2 DEF CopyOK, Stored, Copy, AckStatuses
  <2>4. CASE Current(c)
    <3>1. PICK done : done = [id |-> k.id, target |-> "done", version |-> 0]
      OBVIOUS
    <3>2. /\ status' = [status EXCEPT ![k.id] = k.target]
          /\ version' = [version EXCEPT ![k.id] = @ + 1]
          /\ copy' = [copy EXCEPT ![c] = done]
          /\ UNCHANGED <<bulk, hub, conns, frames, bulkReads>>
      BY <1>4, <2>1, <2>4, <3>1 DEF AckUpdate
    <3>3. done \in Copy /\ done.id = k.id /\ done.target = "done"
      BY <2>3, <3>1 DEF Copy
    <3>4. /\ status' \in [Messages -> Statuses] /\ version' \in [Messages -> Nat]
          /\ copy' \in [Clients -> Copy]
      BY <1>1, <2>3, <3>2, <3>3 DEF StreamTypes, AckStatuses, Statuses
    <3>5. Stored' = Stored
      BY <1>1, <2>3, <3>2 DEF Stored, StreamTypes, AckStatuses
    <3>6. ASSUME NEW d \in Clients PROVE CopyOK(copy[d])'
      <4>1. CASE d = c
        <5>1. copy'[d] = done
          BY <1>1, <3>2, <4>1 DEF StreamTypes
        <5> QED BY <2>3, <3>3, <3>5, <5>1 DEF CopyOK, AckStatuses
      <4>2. CASE d # c
        <5>1. PICK j : j = copy[d]
          OBVIOUS
        <5>2. copy'[d] = j /\ CopyOK(j) /\ j \in Copy
          BY <1>1, <3>2, <4>2, <5>1 DEF StreamInv, StreamTypes
        <5>3. CASE j.id = k.id /\ j # NoCopy
          <6>1. version'[j.id] = version[j.id] + 1 /\ version[j.id] \in Nat /\ j.version \in Nat
            BY <1>1, <2>3, <3>2, <5>2, <5>3 DEF StreamTypes, Copy
          <6>2. j.target \in AckStatuses => j.version <= version'[j.id] /\ j.version # version'[j.id]
            BY <5>2, <5>3, <6>1 DEF CopyOK
          <6> QED BY <3>5, <5>2, <5>3, <6>2 DEF CopyOK
        <5>4. CASE j.id # k.id /\ j # NoCopy
          <6>1. j.id \in Messages
            BY <5>2, <5>4 DEF CopyOK, Stored
          <6>2. version'[j.id] = version[j.id] /\ status'[j.id] = status[j.id]
            BY <1>1, <2>3, <3>2, <5>4, <6>1 DEF StreamTypes
          <6> QED BY <3>2, <3>5, <5>2, <5>4, <6>2 DEF CopyOK
        <5>5. CASE j = NoCopy
          BY <5>2, <5>5 DEF CopyOK
        <5> QED BY <5>3, <5>4, <5>5
      <4> QED BY <4>1, <4>2
    <3> QED BY <1>1, <3>2, <3>4, <3>5, <3>6, ReceiptStep DEF StreamTypes
  <2>5. CASE ~Current(c)
    <3>1. /\ copy' = [copy EXCEPT ![c] = NoCopy]
          /\ UNCHANGED <<status, version, bulk, hub, conns, frames, bulkReads>>
      BY <1>4, <2>5 DEF AckUpdate
    <3>2. Stored' = Stored /\ \A j : CopyOK(j) => CopyOK(j)'
      BY <3>1 DEF CopyOK, Stored
    <3>3. copy' \in [Clients -> Copy] /\ \A d \in Clients : CopyOK(copy'[d])
      BY <1>1, <3>1 DEF StreamInv, StreamTypes, CopyOK
    <3>4. \A d \in Clients : CopyOK(copy[d])'
      BY <3>2, <3>3
    <3> QED BY <1>1, <3>1, <3>2, <3>3, <3>4, ReceiptStep DEF StreamTypes
  <2> QED BY <2>4, <2>5
<1>5. CASE AckBroadcast(c)
  <2>1. /\ copy' \in [Clients -> Copy]
        /\ \A d \in Clients : copy'[d] = copy[d] \/ copy'[d] = NoCopy
    BY <1>1, <1>5 DEF AckBroadcast, StreamTypes
  <2> QED BY <1>1, <1>5, <2>1, OtherIsBroadcast DEF AckBroadcast, StreamTypes
<1> QED BY <1>2, <1>3, <1>4, <1>5

\* MarkThreadAsRead; the rows it touches no longer owe a copy anything.
LEMMA BulkReads ==
    ASSUME StreamInv, NEW u \in Users, MarkThreadAsRead(u)
    PROVE  StreamInv'
<1>1. StreamTypes
  BY DEF StreamInv
<1>2. PICK S : S = Unread(u)
  OBVIOUS
<1>3. /\ status' = [m \in Messages |-> IF m \in S THEN "read" ELSE status[m]]
      /\ bulk' = bulk \cup S /\ bulkReads' = bulkReads + 1
      /\ UNCHANGED <<version, hub, conns, copy, frames>>
  BY <1>2 DEF MarkThreadAsRead
<1>4. S \subseteq Stored /\ S \subseteq Messages
  BY <1>2 DEF Unread, Stored
<1>5. status' \in [Messages -> Statuses] /\ Stored' = Stored
  BY <1>1, <1>3, <1>4 DEF StreamTypes, Statuses, Stored
<1>6. \A d \in Clients : CopyOK(copy[d])'
  <2>1. \A j : CopyOK(j) => CopyOK(j)'
    <3> SUFFICES ASSUME NEW j, CopyOK(j), j # NoCopy PROVE CopyOK(j)'
      BY DEF CopyOK
    <3>1. j.id \in Messages
      BY DEF CopyOK, Stored
    <3>2. j.id \in bulk' \/ (j.id \notin bulk /\ status'[j.id] = status[j.id])
      BY <1>3, <3>1
    <3> QED BY <1>3, <1>5, <3>2 DEF CopyOK
  <2> QED BY <1>3, <2>1 DEF StreamInv
<1> QED BY <1>1, <1>3, <1>4, <1>5, <1>6, ReceiptStep DEF StreamTypes

LEMMA InitStreamInv == StreamInit => StreamInv
<1> SUFFICES ASSUME StreamInit PROVE StreamInv
  OBVIOUS
<1> USE DEF StreamInit
<1>1. Stored = {} /\ Open = {} /\ NoCopy \in Copy
  BY DEF Stored, Open, NoCopy, Copy
<1>2. StreamTypes
  BY <1>1 DEF StreamTypes, Statuses, Stages
<1>3. \A c \in Clients : CopyOK(copy[c])
  BY DEF CopyOK
<1> QED BY <1>1, <1>2, <1>3 DEF StreamInv, NothingMissed

LEMMA NextStreamInv == StreamInv /\ [StreamNext]_streamVars => StreamInv'
<1> SUFFICES ASSUME StreamInv, [StreamNext]_streamVars PROVE StreamInv'
  OBVIOUS
<1>1. CASE UNCHANGED streamVars
  <2>1. UNCHANGED <<rows, hub, conns, copy, frames, bulkReads>>
    BY <1>1 DEF streamVars
  <2>2. Stored' = Stored /\ \A j : CopyOK(j) => CopyOK(j)'
    BY <2>1 DEF Stored, rows, CopyOK
  <2> QED BY <2>1, <2>2, ReceiptStep DEF StreamInv, StreamTypes, rows
<1>2. ASSUME NEW c \in Clients, Handler(c) PROVE StreamInv'
  BY <1>2, ConnectionSteps, Acknowledges DEF Handler
<1> QED
  BY <1>1, <1>2, MessageComesIn, LoopSteps, ConnectionSteps, Acknowledges, BulkReads
  DEF StreamNext

\* Types, what acknowledgements hold, and what every connection is owed, in all states.
THEOREM StreamAlways == StreamSpec => []StreamInv
BY InitStreamInv, NextStreamInv, PTL DEF StreamSpec

\* For any messages, connections and capacities: what is stored before, during or after a
\* connection's replay is seen by it, on its way to it, older than the replay, or was
\* given up at a full channel (HandleWebSocket registers before it reads the history).
THEOREM NothingIsMissed == StreamSpec => []NothingMissed
<1>1. StreamInv => NothingMissed
  BY DEF StreamInv
<1> QED BY <1>1, StreamAlways, PTL

\* Rows, channels and connections keep their types; only live connections are registered.
THEOREM StreamTypeCorrect == StreamSpec => []StreamTypeOK
<1>1. StreamInv => StreamTypeOK
  <2> SUFFICES ASSUME StreamTypes PROVE StreamTypeOK
    BY DEF StreamInv
  <2>1. item \in Seq(Messages \cup {Other})
    <3>1. <<>> \in Seq(Frames) /\ \A x \in Frames : <<x>> \in Seq(Frames)
      OBVIOUS
    <3> QED BY <3>1 DEF StreamTypes, Frames
  <2> QED BY <2>1 DEF StreamTypes, StreamTypeOK, Frames, Stages, Copy
<1> QED BY <1>1, StreamAlways, PTL

\* UpdateMessageStatus moves a receipt along the table of CanTransitionTo only, however many
\* connections acknowledge at once; the exception is a row a bulk read has changed.
THEOREM ReceiptsAlwaysFollow == StreamSpec => ReceiptsFollowTheTable
<1>1. StreamInv /\ [StreamNext]_streamVars =>
        [\A m \in Messages :
          <<status[m], version[m]>>' # <<status[m], version[m]>> =>
              status[m] = "none" \/ m \in bulk' \/ CanTransition(status[m], status'[m])]_streamVars
  <2> SUFFICES ASSUME StreamInv, StreamNext, NEW m \in Messages,
                      ~(status'[m] = status[m] /\ version'[m] = version[m]),
                      status[m] # "none", m \notin bulk'
               PROVE  CanTransition(status[m], status'[m])
    OBVIOUS
  <2>1. StreamTypes /\ ~UNCHANGED rows
    BY DEF StreamInv, rows
  <2>2. ASSUME NEW n \in Messages, Store(n) \/ HandOver(n) PROVE FALSE
    BY <2>1, <2>2 DEF Store, HandOver, StreamTypes
  <2>3. ASSUME NEW u \in Users, MarkThreadAsRead(u) PROVE FALSE
    BY <2>1, <2>3 DEF MarkThreadAsRead, StreamTypes
  <2>4. ~LoopTake /\ \A c \in Clients : ~LoopSend(c)
    BY <2>1 DEF LoopTake, LoopSend
  <2>5. ASSUME NEW c \in Clients,
               \/ Connect(c) \/ Write(c) \/ HangUp(c) \/ Say(c)
               \/ ReadHistory(c) \/ ReplayNext(c) \/ ReplayComplete(c) \/ Unregister(c)
               \/ AckBroadcast(c)
               \/ \E n \in Messages : AckAgain(c, n) \/ \E t \in AckStatuses : AckRead(c, n, t)
        PROVE  FALSE
    BY <2>1, <2>5 DEF Connect, Write, HangUp, Say, ReadHistory, ReplayNext, ReplayComplete,
       Unregister, AckBroadcast, AckAgain, AckRead
  <2>6. ASSUME NEW c \in Clients, AckUpdate(c) PROVE CanTransition(status[m], status'[m])
    <3>1. PICK k : k = copy[c]
      OBVIOUS
    <3>2. k \in Copy /\ k # NoCopy /\ CopyOK(k) /\ k.target # "done"
      BY <2>1, <2>6, <3>1 DEF StreamInv, StreamTypes, AckUpdate
    <3>3. k.target \in AckStatuses
      BY <3>2 DEF CopyOK, Copy, AckStatuses
    <3>4. /\ k.version = version[k.id] /\ UNCHANGED bulk
          /\ status' = [status EXCEPT ![k.id] = k.target]
          /\ version' = [version EXCEPT ![k.id] = @ + 1]
      BY <2>1, <2>6, <3>1 DEF AckUpdate, Current, rows
    <3>5. m = k.id /\ status'[m] = k.target
      BY <2>1, <3>4 DEF StreamTypes
    <3> QED BY <3>2, <3>3, <3>4, <3>5 DEF CopyOK
  <2> QED BY <2>2, <2>3, <2>4, <2>5, <2>6 DEF StreamNext, Handler
<1> QED BY <1>1, StreamAlways, PTL DEF StreamSpec, ReceiptsFollowTheTable
=============================================================================
