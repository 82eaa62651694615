------------------------------ MODULE ChatStream ------------------------------
(***************************************************************************)
(* The live side of one chat thread: websocket connections that replay     *)
(* the stored messages and then follow them, the broadcast goroutine and   *)
(* its channels (chat/handlers/websocket.go), and the receipts that        *)
(* acknowledgements and bulk reads write into the message rows             *)
(* (chat/repository/message_repo.go).                                      *)
(*                                                                         *)
(* Messages are numbered in the order of their rows, which is the order of *)
(* created_at.  Each of them is stored by one request or automated message *)
(* and then handed to Broadcast by the same goroutine.  Channels are       *)
(* bounded, and a send gives up after a while only where the channel is    *)
(* full.                                                                   *)
(***************************************************************************)
EXTENDS Naturals, Sequences, FiniteSets

CONSTANTS
    NumMessages,    \* messages stored in a behaviour
    Users, Sender,  \* the participants, and the system; who sent each message
    Clients,        \* websocket connections
    BroadcastCap,   \* capacity of wsManager.broadcast (256 in the code)
    SendCap,        \* capacity of a client's channel (32)
    ReplayLimit,    \* messages replayed to a new connection (50)
    MaxFrames,      \* bound on the frames clients send in a behaviour
    MaxBulkReads    \* bound on MarkThreadAsRead calls in a behaviour

Messages == 1..NumMessages
Other == 0      \* any other frame: a status, an unsaved frame, the end of the replay

ASSUME StreamAssumption ==
    /\ NumMessages \in Nat /\ Sender \in [Messages -> Users]
    /\ BroadcastCap \in Nat \ {0}
    /\ SendCap \in Nat \ {0} /\ ReplayLimit \in Nat \ {0}
    /\ MaxFrames \in Nat /\ MaxBulkReads \in Nat

VARIABLES
    status,     \* of each message row, "none" before it is inserted
    version,    \* db_version of each row
    bulk,       \* rows a bulk read has changed
    handing,    \* stored messages whose goroutine has not broadcast them yet
    broadcast,  \* the manager's channel
    item,       \* what the broadcast goroutine is sending, or <<>>
    targets,    \* the clients it still has to send it to
    stage,      \* where each connection is
    registered, \* wsManager.clients
    replay,     \* messages a connection has still to replay
    skipped,    \* messages stored before its replay was read that it leaves out
    send,       \* the connection's channel
    seen,       \* what its writer has written
    dropped,    \* messages given up for it
    copy,       \* the row its acknowledgement has read
    frames, bulkReads

rows == <<status, version, bulk>>
hub == <<handing, broadcast, item, targets>>
conns == <<stage, registered, replay, skipped, send, seen, dropped>>
streamVars == <<rows, hub, conns, copy, frames, bulkReads>>

Stored == {m \in Messages : status[m] # "none"}
NoCopy == [id |-> 0, target |-> "none", version |-> 0]

StreamInit ==
    /\ status = [m \in Messages |-> "none"]
    /\ version = [m \in Messages |-> 1]
    /\ bulk = {}
    /\ handing = {} /\ broadcast = <<>> /\ item = <<>> /\ targets = {}
    /\ stage = [c \in Clients |-> "out"]
    /\ registered = {}
    /\ replay = [c \in Clients |-> <<>>]
    /\ skipped = [c \in Clients |-> {}]
    /\ send = [c \in Clients |-> <<>>]
    /\ seen = [c \in Clients |-> {}]
    /\ dropped = [c \in Clients |-> {}]
    /\ copy = [c \in Clients |-> NoCopy]
    /\ frames = 0 /\ bulkReads = 0

(***************************************************************************)
(* The channels.                                                           *)
(***************************************************************************)

\* Broadcast(x): the manager's channel takes x, or is full until the timeout, and
\* every connection loses it.
Broadcast(x) ==
    \/ /\ Len(broadcast) < BroadcastCap
       /\ broadcast' = Append(broadcast, x)
       /\ UNCHANGED dropped
    \/ /\ Len(broadcast) = BroadcastCap
       /\ dropped' = [c \in Clients |-> dropped[c] \cup ({x} \cap Messages)]
       /\ UNCHANGED broadcast

\* A send to a connection's channel, which gives up where it stays full.
Push(c, x) ==
    \/ /\ Len(send[c]) < SendCap
       /\ send' = [send EXCEPT ![c] = Append(@, x)]
       /\ UNCHANGED dropped
    \/ /\ Len(send[c]) = SendCap
       /\ dropped' = [dropped EXCEPT ![c] = @ \cup ({x} \cap Messages)]
       /\ UNCHANGED send

(***************************************************************************)
(* Messages come in.                                                       *)
(***************************************************************************)

\* SendMessage or createAutomatedMessage has inserted the row.
Store(m) ==
    /\ status[m] = "none"
    /\ status' = [status EXCEPT ![m] = "sent"]
    /\ handing' = handing \cup {m}
    /\ UNCHANGED <<version, bulk, broadcast, item, targets, conns, copy, frames, bulkReads>>

\* Its goroutine hands it to Broadcast.
HandOver(m) ==
    /\ m \in handing
    /\ Broadcast(m)
    /\ handing' = handing \ {m}
    /\ UNCHANGED <<rows, item, targets, stage, registered, replay, skipped, send, seen, copy,
                   frames, bulkReads>>

(***************************************************************************)
(* broadcastLoop.                                                          *)
(***************************************************************************)

\* Mutant: connections join the live stream only when their replay is over.
SubscribersAfterReplay == {c \in registered : stage[c] = "reading"}

\* The clients copied under the read lock.
Subscribers == registered

LoopTake ==
    /\ item = <<>> /\ broadcast # <<>>
    /\ broadcast' = Tail(broadcast)
    /\ targets' = Subscribers
    /\ item' = IF Subscribers = {} THEN <<>> ELSE <<Head(broadcast)>>
    /\ UNCHANGED <<rows, handing, conns, copy, frames, bulkReads>>

\* Mutant: a client that does not take its message blocks the loop.
LoopSendBlocks(c) ==
    /\ c \in targets
    /\ Len(send[c]) < SendCap
    /\ send' = [send EXCEPT ![c] = Append(@, item[1])]
    /\ targets' = targets \ {c}
    /\ item' = IF targets = {c} THEN <<>> ELSE item
    /\ UNCHANGED <<rows, handing, broadcast, stage, registered, replay, skipped, seen, dropped,
                   copy, frames, bulkReads>>

\* The copy is served in no particular order, also to clients gone since.
LoopSend(c) ==
    /\ c \in targets
    /\ Push(c, item[1])
    /\ targets' = targets \ {c}
    /\ item' = IF targets = {c} THEN <<>> ELSE item
    /\ UNCHANGED <<rows, handing, broadcast, stage, registered, replay, skipped, seen, copy,
                   frames, bulkReads>>

(***************************************************************************)
(* HandleWebSocketConnection.                                              *)
(***************************************************************************)

\* RegisterClient comes before the history is read.
Connect(c) ==
    /\ stage[c] = "out"
    /\ stage' = [stage EXCEPT ![c] = "registered"]
    /\ registered' = registered \cup {c}
    /\ UNCHANGED <<rows, hub, replay, skipped, send, seen, dropped, copy, frames, bulkReads>>

\* r holds the newest messages stored, oldest first.
Newest(r) ==
    LET shown == {r[i] : i \in DOMAIN r} IN
    /\ shown \subseteq Stored
    /\ Len(r) = IF Cardinality(Stored) < ReplayLimit THEN Cardinality(Stored) ELSE ReplayLimit
    /\ \A i, j \in DOMAIN r : i < j => r[i] < r[j]
    /\ \A m \in Stored \ shown, n \in shown : m < n

\* GetByThreadID(50, 0); where it fails, nothing is replayed.
ReadHistory(c) ==
    /\ stage[c] = "registered"
    /\ stage' = [stage EXCEPT ![c] = "replaying"]
    /\ \/ \E n \in 0..ReplayLimit : \E r \in [1..n -> Messages] :
             /\ Newest(r)
             /\ replay' = [replay EXCEPT ![c] = r]
             /\ skipped' = [skipped EXCEPT ![c] = Stored \ {r[i] : i \in 1..n}]
       \/ UNCHANGED replay /\ skipped' = [skipped EXCEPT ![c] = Stored]
    /\ UNCHANGED <<rows, hub, registered, send, seen, dropped, copy, frames, bulkReads>>

ReplayNext(c) ==
    /\ stage[c] = "replaying" /\ replay[c] # <<>>
    /\ Push(c, Head(replay[c]))
    /\ replay' = [replay EXCEPT ![c] = Tail(@)]
    /\ UNCHANGED <<rows, hub, stage, registered, skipped, seen, copy, frames, bulkReads>>

\* The replay_complete marker, itself dropped where the channel stays full.
ReplayComplete(c) ==
    /\ stage[c] = "replaying" /\ replay[c] = <<>>
    /\ Push(c, Other)
    /\ stage' = [stage EXCEPT ![c] = "reading"]
    /\ UNCHANGED <<rows, hub, registered, replay, skipped, seen, copy, frames, bulkReads>>

Open == {c \in Clients : stage[c] \in {"registered", "replaying", "reading"}}

\* The writer goroutine.
Write(c) ==
    /\ c \in Open /\ send[c] # <<>>
    /\ seen' = [seen EXCEPT ![c] = @ \cup ({Head(send[c])} \cap Messages)]
    /\ send' = [send EXCEPT ![c] = Tail(@)]
    /\ UNCHANGED <<rows, hub, stage, registered, replay, skipped, dropped, copy, frames, bulkReads>>

\* The peer is gone or a write failed: the writer stops.  What the model remembers of
\* an open connection for the properties alone is forgotten.
HangUp(c) ==
    /\ c \in Open
    /\ stage' = [stage EXCEPT ![c] = "closing"]
    /\ skipped' = [skipped EXCEPT ![c] = {}]
    /\ seen' = [seen EXCEPT ![c] = {}]
    /\ dropped' = [dropped EXCEPT ![c] = {}]
    /\ UNCHANGED <<rows, hub, registered, replay, send, copy, frames, bulkReads>>

\* The handler notices when it next reads, and returns: UnregisterClient.
Unregister(c) ==
    /\ stage[c] = "closing" /\ copy[c] = NoCopy
    /\ stage' = [stage EXCEPT ![c] = "closed"]
    /\ registered' = registered \ {c}
    /\ UNCHANGED <<rows, hub, replay, skipped, send, seen, dropped, copy, frames, bulkReads>>

\* The reader goroutine takes its next frame once it is done with the last.
Reads(c) ==
    /\ stage[c] = "reading" /\ copy[c] = NoCopy
    /\ frames < MaxFrames
    /\ frames' = frames + 1

\* A frame that is not an ack is broadcast and never stored.
Say(c) ==
    /\ Reads(c)
    /\ Broadcast(Other)
    /\ UNCHANGED <<rows, handing, item, targets, stage, registered, replay, skipped, send, seen,
                   copy, bulkReads>>

(***************************************************************************)
(* Receipts.                                                               *)
(***************************************************************************)

\* validTransitions, as far as a receipt goes.
CanTransition(from, to) == <<from, to>> \in {<<"sent", "delivered">>, <<"delivered", "read">>}

\* parseAckStatus refuses any other.
AckStatuses == {"delivered", "read"}

\* handleStatusAck reads the row of any message of the thread, whether or not the
\* connection has seen it; the lock of FOR UPDATE ends with the statement.
AckRead(c, m, t) ==
    /\ Reads(c)
    /\ m \in Stored
    /\ CanTransition(status[m], t)
    /\ copy' = [copy EXCEPT ![c] = [id |-> m, target |-> t, version |-> version[m]]]
    /\ UNCHANGED <<rows, hub, conns, bulkReads>>

\* The row has the status already: only its broadcast is repeated.
AckAgain(c, m) ==
    /\ Reads(c)
    /\ m \in Stored /\ status[m] \in AckStatuses
    /\ Broadcast(Other)
    /\ UNCHANGED <<rows, handing, item, targets, stage, registered, replay, skipped, send, seen,
                   copy, bulkReads>>

\* Mutant: the update does not ask for the version that was read.
CurrentAnyway(c) == TRUE

\* WHERE id = ? AND db_version = ?
Current(c) == version[copy[c].id] = copy[c].version

\* Update writes the copy back; a row that has moved on is left alone, with an error.
AckUpdate(c) ==
    /\ copy[c] # NoCopy /\ copy[c].target # "done"
    /\ IF Current(c)
       THEN /\ status' = [status EXCEPT ![copy[c].id] = copy[c].target]
            /\ version' = [version EXCEPT ![copy[c].id] = @ + 1]
            /\ copy' = [copy EXCEPT ![c] = [id |-> copy[c].id, target |-> "done", version |-> 0]]
       ELSE /\ copy' = [copy EXCEPT ![c] = NoCopy]
            /\ UNCHANGED <<status, version>>
    /\ UNCHANGED <<bulk, hub, conns, frames, bulkReads>>

AckBroadcast(c) ==
    /\ copy[c].target = "done"
    /\ Broadcast(Other)
    /\ copy' = [copy EXCEPT ![c] = NoCopy]
    /\ UNCHANGED <<rows, handing, item, targets, stage, registered, replay, skipped, send, seen,
                   frames, bulkReads>>

\* The rows the repository's MarkThreadAsRead updates; it leaves db_version alone.
Unread(u) == {m \in Stored : Sender[m] # u /\ status[m] # "read"}

MarkThreadAsRead(u) ==
    /\ bulkReads < MaxBulkReads
    /\ Unread(u) # {}
    /\ status' = [m \in Messages |-> IF m \in Unread(u) THEN "read" ELSE status[m]]
    /\ bulk' = bulk \cup Unread(u)
    /\ bulkReads' = bulkReads + 1
    /\ UNCHANGED <<version, hub, conns, copy, frames>>

Handler(c) ==
    \/ ReadHistory(c) \/ ReplayNext(c) \/ ReplayComplete(c) \/ Unregister(c)
    \/ AckUpdate(c) \/ AckBroadcast(c)

StreamNext ==
    \/ \E m \in Messages : Store(m) \/ HandOver(m)
    \/ LoopTake
    \/ \E c \in Clients :
          \/ LoopSend(c) \/ Connect(c) \/ Write(c) \/ HangUp(c) \/ Say(c)
          \/ Handler(c)
          \/ \E m \in Messages :
                AckAgain(c, m) \/ \E t \in AckStatuses : AckRead(c, m, t)
    \/ \E u \in Users : MarkThreadAsRead(u)

StreamSpec == StreamInit /\ [][StreamNext]_streamVars

\* Every goroutine that can go on does; sends end with their timeout.
FairStreamSpec ==
    /\ StreamSpec
    /\ \A m \in Messages : WF_streamVars(HandOver(m))
    /\ WF_streamVars(LoopTake)
    /\ \A c \in Clients :
          WF_streamVars(LoopSend(c)) /\ WF_streamVars(Write(c)) /\ WF_streamVars(Handler(c))

(***************************************************************************)
(* Properties.                                                             *)
(***************************************************************************)

Statuses == {"none", "sent", "delivered", "read"}

StreamTypeOK ==
    /\ status \in [Messages -> Statuses]
    /\ version \in [Messages -> Nat]
    /\ bulk \subseteq Messages /\ handing \subseteq Stored
    /\ broadcast \in Seq(Messages \cup {Other})
    /\ item \in Seq(Messages \cup {Other})
    /\ targets \subseteq Clients /\ (targets = {} <=> item = <<>>)
    /\ stage \in [Clients -> {"out", "registered", "replaying", "reading", "closing", "closed"}]
    /\ registered = {c \in Clients : stage[c] \notin {"out", "closed"}}
    /\ replay \in [Clients -> Seq(Messages)]
    /\ send \in [Clients -> Seq(Messages \cup {Other})]
    /\ \A f \in {skipped, seen, dropped} : f \in [Clients -> SUBSET Messages]
    /\ copy \in [Clients -> [id : {0} \cup Messages, target : {"none", "done", "delivered", "read"},
                             version : Nat]]
    /\ frames \in Nat /\ bulkReads \in Nat

Within(m, s) == \E i \in DOMAIN s : s[i] = m

\* Where a stored message still is on its way to connection c.
Underway(m, c) ==
    \/ m \in handing \/ Within(m, broadcast)
    \/ Within(m, item) /\ c \in targets
    \/ Within(m, send[c])
    \/ stage[c] = "registered" \/ Within(m, replay[c])

\* A connection misses no message between its history and its live stream: what is
\* stored is seen, on its way, older than the replay, or was given up at a full
\* channel.
NothingMissed ==
    \A c \in Open, m \in Stored :
        m \in seen[c] \/ Underway(m, c) \/ m \in skipped[c] \cup dropped[c]

\* Acknowledgements of several connections, each reading the row and writing it back
\* later, move a message along sent, delivered, read, and none is applied to a row
\* that has moved on since; only a row that a bulk read has changed under them may
\* do anything else, such as going back from read to delivered.
ReceiptsFollowTheTable ==
    [][\A m \in Messages :
          <<status[m], version[m]>>' # <<status[m], version[m]>> =>
              status[m] = "none" \/ m \in bulk' \/ CanTransition(status[m], status'[m])]_streamVars

\* A stored message reaches every open connection in the end, whatever the other
\* connections do, unless it is older than the replay or a full channel lost it.
EventuallySeen ==
    \A c \in Clients, m \in Messages :
        (c \in Open /\ m \in Stored) ~>
            (c \notin Open \/ m \in seen[c] \cup skipped[c] \cup dropped[c])
=============================================================================
