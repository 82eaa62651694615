-------------------------- MODULE OutboxRelayProofs --------------------------
(***************************************************************************)
(* Proofs about OutboxRelay, for any number of events and loops and any    *)
(* number of faults.                                                       *)
(*                                                                         *)
(* A row is only ever written by the loop that owns it, and owning is      *)
(* taken by a conditional update from 'pending', a status nothing returns  *)
(* to.  Custody says so; Ledger ties what the broker holds to the status   *)
(* of the row and to the step its owner has reached.                       *)
(***************************************************************************)
EXTENDS OutboxRelay, TLAPS

Custody(w, e) ==
    Owns(w, e) =>
        /\ row[e].status = "processing"
        /\ pc[w] = "claimed" => published[e] = 0
        /\ pc[w] \in {"published", "stamped"} => published[e] = 1

Ledger(e) ==
    /\ published[e] <= 1
    /\ row[e].status \in {"none", "pending", "failed"} => published[e] = 0
    /\ row[e].status = "processed" => published[e] = 1
    /\ row[e].processedAt => published[e] = 1 \/ row[e].status = "failed"
    /\ row[e].gone => row[e].processedAt

Safe ==
    /\ ClaimExclusive
    /\ \A e \in Events : Ledger(e)
    /\ \A w \in Workers, e \in Events : Custody(w, e)

IInv == TypeOK /\ Safe

\* What the relay writes into a row is a row: the records its UPDATEs build.
LEMMA RowUpdates ==
    ASSUME NEW r \in Row, NEW n \in Nat
    PROVE  /\ \A s \in Statuses : [r EXCEPT !.status = s] \in Row
           /\ [r EXCEPT !.due = TRUE] \in Row
           /\ [r EXCEPT !.old = TRUE] \in Row
           /\ [r EXCEPT !.gone = TRUE] \in Row
           /\ [r EXCEPT !.processedAt = TRUE] \in Row
           /\ [r EXCEPT !.status = "failed", !.processedAt = TRUE] \in Row
           /\ [r EXCEPT !.retryCount = n, !.due = FALSE] \in Row
BY DEF Row, Statuses

\* An UPDATE by primary key keeps the table well typed.
LEMMA StoreType ==
    ASSUME NEW e \in Events, NEW r \in Row, row \in [Events -> Row], Store(e, r)
    PROVE  row' \in [Events -> Row]
BY DEF Store

\* Every statement of the relay and every fault keeps the tables, counters and
\* loop states within their types.
LEMMA TypeStep == TypeOK /\ [Next]_vars => TypeOK'
<1> SUFFICES ASSUME TypeOK, [Next]_vars PROVE TypeOK'
  OBVIOUS
<1>r. row \in [Events -> Row] /\ \A e \in Events : row[e] \in Row
  BY DEF TypeOK
<1>c. \A w \in Workers, e \in Events : seenRetry[w][e] + 1 \in Nat
  BY DEF TypeOK
<1>s. {"pending", "processing", "processed"} \subseteq Statuses
  BY DEF Statuses
<1>n. ASSUME NEW w \in Workers, NEW e \in Events, NextInBatch(w, e)
      PROVE  /\ pc' \in [Workers -> Owning \union {"idle", "batch", "down"}]
             /\ batch' \in [Workers -> SUBSET Events]
  BY <1>n DEF NextInBatch, TypeOK
<1>1. ASSUME NEW e \in Events,
             Insert(e) \/ RetryTimeReached(e) \/ RetentionElapses(e)
      PROVE  TypeOK'
  <2>1. row' \in [Events -> Row]
    <3>1. CASE Insert(e)           BY <3>1, <1>r, <1>s, RowUpdates DEF Insert
    <3>2. CASE RetryTimeReached(e) BY <3>2, <1>r, RowUpdates DEF RetryTimeReached
    <3>3. CASE RetentionElapses(e) BY <3>3, <1>r, RowUpdates DEF RetentionElapses
    <3> QED BY <1>1, <3>1, <3>2, <3>3
  <2> QED BY <1>1, <2>1 DEF Insert, RetryTimeReached, RetentionElapses, TypeOK
<1>2. ASSUME NEW w \in Workers, NEW e \in Events, ProcessEvent(w, e)
      PROVE  TypeOK'
  <2>1. CASE Claim(w, e)
    <3>1. row' \in [Events -> Row]
      BY <2>1, <1>r, <1>s, RowUpdates DEF Claim
    <3> QED BY <2>1, <3>1 DEF Claim, TypeOK, Owning
  <2>2. CASE SkipClaimed(w, e)
    BY <2>2, <1>n DEF SkipClaimed, TypeOK
  <2>3. CASE MarkEventFailed(w, e)
    <3>1. row' \in [Events -> Row]
      BY <2>3, <1>r, RowUpdates, StoreType DEF MarkEventFailed
    <3> QED BY <2>3, <3>1, <1>n DEF MarkEventFailed, TypeOK
  <2>4. CASE Publish(w, e)
    BY <2>4 DEF Publish, TypeOK, Owning
  <2>5. CASE ScheduleRetry(w, e)
    <3>1. row' \in [Events -> Row]
      BY <2>5, <1>r, <1>c, RowUpdates, StoreType DEF ScheduleRetry
    <3> QED BY <2>5, <3>1, <1>n DEF ScheduleRetry, TypeOK
  <2>6. CASE StampProcessedAt(w, e)
    <3>1. row' \in [Events -> Row]
      BY <2>6, <1>r, RowUpdates, StoreType DEF StampProcessedAt
    <3> QED BY <2>6, <3>1 DEF StampProcessedAt, TypeOK, Owning
  <2>7. CASE MarkProcessed(w, e)
    <3>1. row' \in [Events -> Row]
      BY <2>7, <1>r, <1>s, RowUpdates, StoreType DEF MarkProcessed
    <3> QED BY <2>7, <3>1, <1>n DEF MarkProcessed, TypeOK
  <2> QED BY <1>2, <2>1, <2>2, <2>3, <2>4, <2>5, <2>6, <2>7 DEF ProcessEvent
<1>3. ASSUME NEW w \in Workers, NEW e \in Events, Fault(w, e)
      PROVE  TypeOK'
  <2>1. CASE PublishFails(w, e)
    <3>1. PICK kept \in {0, 1} : published' = [published EXCEPT ![e] = @ + kept]
      BY <2>1 DEF PublishFails
    <3>2. published' \in [Events -> Nat]
      <4>1. published[e] + kept \in Nat
        BY DEF TypeOK
      <4> QED BY <3>1, <4>1 DEF TypeOK
    <3>3. pc' = [pc EXCEPT ![w] = "unpublished"] /\ failures' = failures + 1
      BY <2>1 DEF PublishFails
    <3>4. UNCHANGED <<row, batch, seenRetry, stopping, crashes, stops>>
      BY <2>1 DEF PublishFails
    <3> QED BY <3>2, <3>3, <3>4 DEF TypeOK, Owning
  <2>2. CASE DatabaseError(w, e)
    BY <2>2, <1>n DEF DatabaseError, TypeOK
  <2> QED BY <1>3, <2>1, <2>2 DEF Fault
<1>4. ASSUME NEW w \in Workers, Poll(w)
      PROVE  TypeOK'
  <2>1. PICK B \in SUBSET Unprocessed(w) : batch' = [batch EXCEPT ![w] = B]
    BY <1>4 DEF Poll
  <2>2. batch' \in [Workers -> SUBSET Events]
    BY <2>1 DEF Unprocessed, TypeOK
  <2>3. [e \in Events |-> row[e].retryCount] \in [Events -> Nat]
    BY <1>r DEF Row
  <2>4. seenRetry' \in [Workers -> [Events -> Nat]]
    BY <1>4, <2>3 DEF Poll, TypeOK
  <2>5. pc' = [pc EXCEPT ![w] = "batch"]
    BY <1>4 DEF Poll
  <2>6. UNCHANGED <<row, stopping, published, failures, crashes, stops>>
    BY <1>4 DEF Poll
  <2> QED BY <2>2, <2>4, <2>5, <2>6 DEF TypeOK
<1>5. ASSUME NEW w \in Workers, EndBatch(w)
      PROVE  TypeOK'
  <2>1. PICK Deleted \in {{}, Expired} :
           row' = [e \in Events |-> IF e \in Deleted THEN [row[e] EXCEPT !.gone = TRUE]
                                                      ELSE row[e]]
    BY <1>5 DEF EndBatch
  <2>2. row' \in [Events -> Row]
    BY <2>1, <1>r, RowUpdates
  <2>3. /\ pc' = [pc EXCEPT ![w] = "idle"]
        /\ UNCHANGED <<batch, seenRetry, stopping, published, failures, crashes, stops>>
    BY <1>5 DEF EndBatch
  <2> QED BY <2>2, <2>3 DEF TypeOK
<1>6. ASSUME NEW w \in Workers, LeaveLoop(w) \/ Start(w) \/ Stop(w) \/ Crash(w)
      PROVE  TypeOK'
  <2>1. CASE LeaveLoop(w) BY <2>1 DEF LeaveLoop, TypeOK
  <2>2. CASE Start(w)     BY <2>2 DEF Start, TypeOK
  <2>3. CASE Stop(w)      BY <2>3 DEF Stop, TypeOK
  <2>4. CASE Crash(w)     BY <2>4 DEF Crash, TypeOK
  <2> QED BY <1>6, <2>1, <2>2, <2>3, <2>4
<1>7. CASE UNCHANGED vars
  BY <1>7 DEF vars, TypeOK
<1> QED BY <1>1, <1>2, <1>3, <1>4, <1>5, <1>6, <1>7 DEF Next, Loop

\* Type correctness of the outbox table and of the relay loops (relay.go).
THEOREM TypeCorrect == Spec => []TypeOK
<1>1. Init => TypeOK
  BY ParametersAssumption DEF Init, TypeOK, Row, Statuses, Owning
<1>2. QED BY <1>1, TypeStep, PTL DEF Spec

-----------------------------------------------------------------------------

\* The batch is worked through in insertion order, so its head is one event.
LEMMA HeadUnique ==
    ASSUME NEW w \in Workers, NEW e \in Events, NEW d \in Events,
           AtHead(w, e), AtHead(w, d)
    PROVE  e = d
BY ParametersAssumption DEF AtHead, Events

\* A step of loop w on its event e keeps Safe if it keeps it for e and w and
\* either writes nothing that another owner of e relies on or e has none.
LEMMA EventStep ==
    ASSUME Safe, NEW w \in Workers, NEW e \in Events, AtHead(w, e),
           \A v \in Workers \ {w} : pc'[v] = pc[v] /\ batch'[v] = batch[v],
           pc'[w] \in Owning => batch'[w] = batch[w],
           \A d \in Events \ {e} : row'[d] = row[d] /\ published'[d] = published[d],
           \/ \A v \in Workers \ {w} : ~Owns(v, e)
           \/ pc'[w] \notin Owning /\ row' = row /\ published' = published,
           Ledger(e)', Custody(w, e)'
    PROVE  Safe'
<1>1. \A v \in Workers \ {w}, d \in Events : Owns(v, d)' <=> Owns(v, d)
  BY DEF Owns, AtHead
<1>2. \A d \in Events : Owns(w, d)' => pc'[w] \in Owning /\ AtHead(w, d)
  BY DEF Owns, AtHead
<1>3. \A d \in Events : Owns(w, d)' => d = e
  BY <1>2, HeadUnique
<1>4. \A d \in Events : Ledger(d)'
  BY DEF Safe, Ledger
<1>5. \A v \in Workers \ {w}, d \in Events : Custody(v, d)'
  BY <1>1 DEF Safe, Custody
<1>6. \A d \in Events : Custody(w, d)'
  BY <1>3 DEF Custody
<1>7. ClaimExclusive'
  BY <1>1, <1>2, <1>3 DEF Safe, ClaimExclusive
<1> QED BY <1>4, <1>5, <1>6, <1>7 DEF Safe

\* A step that publishes nothing, takes nothing and leaves rows in
\* 'processing' alone keeps Safe if it keeps every row's ledger.
LEMMA QuietStep ==
    ASSUME Safe, published' = published,
           \A v \in Workers : pc'[v] \in Owning => pc'[v] = pc[v] /\ batch'[v] = batch[v],
           \A d \in Events : row[d].status = "processing" => row'[d].status = "processing",
           \A d \in Events : Ledger(d)'
    PROVE  Safe'
<1>1. \A v \in Workers, d \in Events : Owns(v, d)' => Owns(v, d) /\ pc'[v] = pc[v]
  BY DEF Owns, AtHead
<1>2. \A v \in Workers, d \in Events : Custody(v, d)'
  BY <1>1 DEF Safe, Custody
<1>3. ClaimExclusive'
  BY <1>1 DEF Safe, ClaimExclusive
<1> QED BY <1>2, <1>3 DEF Safe

\* Turning to the next event leaves the other loops alone and owns nothing.
LEMMA NextInBatchFrame ==
    ASSUME TypeOK, NEW w \in Workers, NEW e \in Events, NextInBatch(w, e)
    PROVE  /\ \A v \in Workers \ {w} : pc'[v] = pc[v] /\ batch'[v] = batch[v]
           /\ pc'[w] \notin Owning
           /\ \A d \in Events : ~Owns(w, d)'
BY DEF NextInBatch, TypeOK, Owning, Owns

\* Only loop w owns the event it is working on.
LEMMA OneOwner ==
    ASSUME Safe, NEW w \in Workers, NEW e \in Events, Owns(w, e)
    PROVE  \A v \in Workers \ {w} : ~Owns(v, e)
BY DEF Safe, ClaimExclusive

\* The fields an UPDATE by primary key leaves in the row it names, and the
\* rows it leaves alone.
LEMMA StoreFields ==
    ASSUME TypeOK, NEW e \in Events, NEW r, Store(e, r)
    PROVE  /\ row'[e] = IF row[e].gone THEN row[e] ELSE r
           /\ \A d \in Events \ {e} : row'[d] = row[d]
BY DEF Store, TypeOK

\* The fields of a row that markEventFailed and scheduleRetry have written.
LEMMA RowFields ==
    ASSUME NEW r \in Row, NEW n \in Nat
    PROVE  /\ LET f == [r EXCEPT !.status = "failed", !.processedAt = TRUE]
              IN  f.status = "failed" /\ f.processedAt /\ f.gone = r.gone
           /\ LET f == [r EXCEPT !.retryCount = n, !.due = FALSE]
              IN  /\ f.status = r.status /\ f.processedAt = r.processedAt
                  /\ f.gone = r.gone
BY DEF Row

\* Each statement of processEvent, failed or not, keeps Safe.
LEMMA EventSafe ==
    ASSUME TypeOK, Safe, NEW w \in Workers, NEW e \in Events,
           ProcessEvent(w, e) \/ Fault(w, e)
    PROVE  Safe'
<1>r. row[e] \in Row
  BY DEF TypeOK
<1>l. Ledger(e) /\ Custody(w, e)
  BY DEF Safe
<1>1. CASE Claim(w, e)
  <2>1. AtHead(w, e) /\ row[e].status = "pending" /\ pc[w] = "batch"
    BY <1>1 DEF Claim, Claimable
  <2>2. \A v \in Workers \ {w} : ~Owns(v, e)
    BY <2>1 DEF Safe, Custody
  <2>3. /\ pc'[w] = "claimed" /\ batch' = batch /\ published' = published
        /\ \A v \in Workers \ {w} : pc'[v] = pc[v]
        /\ \A d \in Events \ {e} : row'[d] = row[d]
        /\ row'[e] = [row[e] EXCEPT !.status = "processing"]
    BY <1>1 DEF Claim, TypeOK
  <2>4. /\ row'[e].status = "processing" /\ row'[e].processedAt = row[e].processedAt
        /\ row'[e].gone = row[e].gone
    BY <2>3, <1>r DEF Row
  <2>5. published[e] = 0
    BY <2>1, <1>l DEF Ledger
  <2>6. ~row[e].processedAt
    BY <2>1, <2>5, <1>l DEF Ledger
  <2>7. Ledger(e)'
    BY <2>3, <2>4, <2>5, <2>6, <1>l DEF Ledger
  <2>8. Custody(w, e)'
    BY <2>3, <2>4, <2>5 DEF Custody
  <2> QED BY <2>1, <2>2, <2>3, <2>7, <2>8, EventStep
<1>2. CASE SkipClaimed(w, e) \/ DatabaseError(w, e)
  <2>1. /\ AtHead(w, e) /\ NextInBatch(w, e)
        /\ row' = row /\ published' = published
    BY <1>2 DEF SkipClaimed, DatabaseError
  <2>2. Ledger(e)'
    BY <2>1, <1>l DEF Ledger
  <2>3. Custody(w, e)'
    BY <2>1, NextInBatchFrame DEF Custody
  <2> QED BY <2>1, <2>2, <2>3, NextInBatchFrame, EventStep
<1>3. CASE MarkEventFailed(w, e)
  <2>1. /\ AtHead(w, e) /\ NextInBatch(w, e) /\ published' = published
        /\ pc[w] = "claimed"
        /\ Store(e, [row[e] EXCEPT !.status = "failed", !.processedAt = TRUE])
    BY <1>3 DEF MarkEventFailed
  <2>2. Owns(w, e) /\ published[e] = 0
    BY <2>1, <1>l DEF Owns, Owning, Custody
  <2>3. ~row[e].gone
    BY <2>2, <1>l DEF Ledger, Custody
  <2>4. row'[e] = [row[e] EXCEPT !.status = "failed", !.processedAt = TRUE]
    BY <2>1, <2>3, StoreFields
  <2>5. row'[e].status = "failed" /\ row'[e].processedAt
    BY <2>4, <1>r, RowFields, 0 \in Nat
  <2>6. Ledger(e)'
    BY <2>1, <2>2, <2>5 DEF Ledger
  <2>7. Custody(w, e)'
    BY <2>1, NextInBatchFrame DEF Custody
  <2> QED BY <2>1, <2>2, <2>6, <2>7, NextInBatchFrame, OneOwner, StoreFields, EventStep
<1>4. CASE Publish(w, e) \/ PublishFails(w, e)
  <2>1. /\ AtHead(w, e) /\ pc[w] = "claimed"
        /\ row' = row /\ batch' = batch
        /\ \/ pc' = [pc EXCEPT ![w] = "published"]
              /\ published' = [published EXCEPT ![e] = @ + 1]
           \/ pc' = [pc EXCEPT ![w] = "unpublished"]
              /\ \E kept \in {0, 1} : published' = [published EXCEPT ![e] = @ + kept]
    BY <1>4 DEF Publish, PublishFails
  <2>2. Owns(w, e) /\ published[e] = 0 /\ row[e].status = "processing"
    BY <2>1, <1>l DEF Owns, Owning, Custody
  <2>3. \/ pc'[w] = "published" /\ published'[e] = 1
        \/ pc'[w] = "unpublished" /\ published'[e] \in {0, 1}
    BY <2>1, <2>2 DEF TypeOK
  <2>4. /\ \A v \in Workers \ {w} : pc'[v] = pc[v]
        /\ \A d \in Events \ {e} : published'[d] = published[d]
    BY <2>1 DEF TypeOK
  <2>5. Ledger(e)'
    BY <2>1, <2>2, <2>3, <1>l DEF Ledger
  <2>6. Custody(w, e)'
    BY <2>1, <2>2, <2>3 DEF Custody
  <2> QED BY <2>1, <2>2, <2>4, <2>5, <2>6, OneOwner, EventStep
<1>5. CASE ScheduleRetry(w, e)
  <2>1. /\ AtHead(w, e) /\ NextInBatch(w, e) /\ published' = published
        /\ pc[w] = "unpublished"
        /\ Store(e, [row[e] EXCEPT !.retryCount = seenRetry[w][e] + 1, !.due = FALSE])
    BY <1>5 DEF ScheduleRetry
  <2>2. Owns(w, e)
    BY <2>1 DEF Owns, Owning
  <2>3. /\ row'[e].status = row[e].status /\ row'[e].gone = row[e].gone
        /\ row'[e].processedAt = row[e].processedAt
    <3> DEFINE n == seenRetry[w][e] + 1
    <3>1. n \in Nat
      BY DEF TypeOK
    <3>2. row'[e] \in {row[e], [row[e] EXCEPT !.retryCount = n, !.due = FALSE]}
      BY <2>1, StoreFields
    <3> HIDE DEF n
    <3>3. CASE row'[e] = [row[e] EXCEPT !.retryCount = n, !.due = FALSE]
      BY <3>1, <3>3, <1>r, RowFields
    <3> QED BY <3>2, <3>3
  <2>4. Ledger(e)'
    BY <2>1, <2>3, <1>l DEF Ledger
  <2>5. Custody(w, e)'
    BY <2>1, NextInBatchFrame DEF Custody
  <2> QED BY <2>1, <2>2, <2>4, <2>5, NextInBatchFrame, OneOwner, StoreFields, EventStep
<1>6. CASE StampProcessedAt(w, e)
  <2>1. /\ AtHead(w, e) /\ published' = published /\ batch' = batch
        /\ pc[w] = "published" /\ pc' = [pc EXCEPT ![w] = "stamped"]
        /\ Store(e, [row[e] EXCEPT !.processedAt = TRUE])
    BY <1>6 DEF StampProcessedAt
  <2>2. Owns(w, e) /\ published[e] = 1 /\ row[e].status = "processing"
    BY <2>1, <1>l DEF Owns, Owning, Custody
  <2>3. row'[e].status = row[e].status /\ row'[e].gone = row[e].gone
    BY <2>1, <1>r, StoreFields DEF Row
  <2>4. row'[e].gone => row'[e].processedAt
    BY <2>1, <2>3, <1>r, <1>l, StoreFields DEF Row, Ledger
  <2>5. pc'[w] = "stamped" /\ \A v \in Workers \ {w} : pc'[v] = pc[v]
    BY <2>1 DEF TypeOK
  <2>6. Ledger(e)'
    BY <2>1, <2>2, <2>3, <2>4 DEF Ledger
  <2>7. Custody(w, e)'
    BY <2>1, <2>2, <2>3, <2>5 DEF Custody
  <2> QED BY <2>1, <2>2, <2>5, <2>6, <2>7, OneOwner, StoreFields, EventStep
<1>7. CASE MarkProcessed(w, e)
  <2>1. /\ AtHead(w, e) /\ NextInBatch(w, e) /\ published' = published
        /\ pc[w] = "stamped"
        /\ Store(e, [row[e] EXCEPT !.status = "processed"])
    BY <1>7 DEF MarkProcessed
  <2>2. Owns(w, e) /\ published[e] = 1 /\ row[e].status = "processing"
    BY <2>1, <1>l DEF Owns, Owning, Custody
  <2>3. /\ row'[e].status \in {"processing", "processed"}
        /\ row'[e].gone = row[e].gone /\ row'[e].processedAt = row[e].processedAt
    BY <2>1, <2>2, <1>r, StoreFields DEF Row
  <2>4. Ledger(e)'
    BY <2>1, <2>2, <2>3, <1>l DEF Ledger
  <2>5. Custody(w, e)'
    BY <2>1, NextInBatchFrame DEF Custody
  <2> QED BY <2>1, <2>2, <2>4, <2>5, NextInBatchFrame, OneOwner, StoreFields, EventStep
<1> QED BY <1>1, <1>2, <1>3, <1>4, <1>5, <1>6, <1>7 DEF ProcessEvent, Fault

\* Inserts, the clock, polling, cleanup, shutdown and crashes keep Safe.
LEMMA QuietSafe ==
    ASSUME TypeOK, Safe,
           \/ \E e \in Events : Insert(e) \/ RetryTimeReached(e) \/ RetentionElapses(e)
           \/ \E w \in Workers : Loop(w) \/ Stop(w) \/ Crash(w)
    PROVE  Safe'
<1>l. \A d \in Events : row[d] \in Row /\ Ledger(d)
  BY DEF TypeOK, Safe
<1>1. ASSUME NEW e \in Events,
             Insert(e) \/ RetryTimeReached(e) \/ RetentionElapses(e)
      PROVE  Safe'
  <2>1. UNCHANGED <<pc, batch, published>> /\ \A d \in Events \ {e} : row'[d] = row[d]
    BY <1>1 DEF Insert, RetryTimeReached, RetentionElapses, TypeOK
  <2>2. CASE Insert(e)
    <3>1. row'[e] = [row[e] EXCEPT !.status = "pending"] /\ row[e].status = "none"
      BY <2>2 DEF Insert, Inserted, TypeOK
    <3>2. /\ row'[e].status = "pending" /\ row'[e].processedAt = row[e].processedAt
          /\ row'[e].gone = row[e].gone
      BY <3>1, <1>l DEF Row
    <3>3. published[e] = 0 /\ ~row[e].processedAt
      BY <3>1, <1>l DEF Ledger
    <3>4. \A d \in Events : Ledger(d)'
      BY <2>1, <3>2, <3>3, <1>l DEF Ledger
    <3> QED BY <2>1, <3>1, <3>4, QuietStep
  <2>3. CASE RetryTimeReached(e)
    <3>1. row'[e] = [row[e] EXCEPT !.due = TRUE]
      BY <2>3 DEF RetryTimeReached, TypeOK
    <3>2. /\ row'[e].status = row[e].status /\ row'[e].processedAt = row[e].processedAt
          /\ row'[e].gone = row[e].gone
      BY <3>1, <1>l DEF Row
    <3>3. \A d \in Events : Ledger(d)'
      BY <2>1, <3>2, <1>l DEF Ledger
    <3> QED BY <2>1, <3>2, <3>3, QuietStep
  <2>4. CASE RetentionElapses(e)
    <3>1. row'[e] = [row[e] EXCEPT !.old = TRUE]
      BY <2>4 DEF RetentionElapses, TypeOK
    <3>2. /\ row'[e].status = row[e].status /\ row'[e].processedAt = row[e].processedAt
          /\ row'[e].gone = row[e].gone
      BY <3>1, <1>l DEF Row
    <3>3. \A d \in Events : Ledger(d)'
      BY <2>1, <3>2, <1>l DEF Ledger
    <3> QED BY <2>1, <3>2, <3>3, QuietStep
  <2> QED BY <1>1, <2>2, <2>3, <2>4
<1>2. ASSUME NEW w \in Workers,
             Poll(w) \/ LeaveLoop(w) \/ Start(w) \/ Stop(w) \/ Crash(w)
      PROVE  Safe'
  <2>1. row' = row /\ published' = published
    BY <1>2 DEF Poll, LeaveLoop, Start, Stop, Crash
  <2>2. \A v \in Workers : pc'[v] \in Owning => pc'[v] = pc[v] /\ batch'[v] = batch[v]
    <3>1. CASE Poll(w)
      <4>1. PICK B \in SUBSET Unprocessed(w) : batch' = [batch EXCEPT ![w] = B]
        BY <3>1 DEF Poll
      <4> QED BY <3>1, <4>1 DEF Poll, Owning, TypeOK
    <3>2. CASE LeaveLoop(w) BY <3>2 DEF LeaveLoop, Owning, TypeOK
    <3>3. CASE Start(w)     BY <3>3 DEF Start, Owning, TypeOK
    <3>4. CASE Stop(w)      BY <3>4 DEF Stop
    <3>5. CASE Crash(w)     BY <3>5 DEF Crash, Owning, TypeOK
    <3> QED BY <1>2, <3>1, <3>2, <3>3, <3>4, <3>5
  <2>3. \A d \in Events : Ledger(d)'
    BY <2>1, <1>l DEF Ledger
  <2> QED BY <2>1, <2>2, <2>3, QuietStep
<1>3. ASSUME NEW w \in Workers, EndBatch(w)
      PROVE  Safe'
  <2>1. PICK Deleted \in {{}, Expired} :
           row' = [e \in Events |-> IF e \in Deleted THEN [row[e] EXCEPT !.gone = TRUE]
                                                      ELSE row[e]]
    BY <1>3 DEF EndBatch
  <2>2. \A d \in Deleted : d \in Events /\ row[d].processedAt
    BY DEF Expired
  <2>3. /\ pc' = [pc EXCEPT ![w] = "idle"]
        /\ batch' = batch /\ published' = published
    BY <1>3 DEF EndBatch
  <2>4. ASSUME NEW d \in Events
        PROVE  /\ row'[d].status = row[d].status
               /\ row'[d].processedAt = row[d].processedAt
               /\ row'[d].gone => row[d].gone \/ row[d].processedAt
    <3>1. CASE d \in Deleted
      <4>1. row'[d] = [row[d] EXCEPT !.gone = TRUE]
        BY <3>1, <2>1
      <4> QED BY <4>1, <3>1, <2>2, <1>l DEF Row
    <3>2. CASE d \notin Deleted
      BY <3>2, <2>1
    <3> QED BY <3>1, <3>2
  <2>5. \A d \in Events : Ledger(d)'
    BY <2>3, <2>4, <1>l DEF Ledger
  <2>6. \A v \in Workers : pc'[v] \in Owning => pc'[v] = pc[v] /\ batch'[v] = batch[v]
    BY <2>3 DEF Owning, TypeOK
  <2> QED BY <2>3, <2>4, <2>5, <2>6, QuietStep
<1> QED BY <1>1, <1>2, <1>3 DEF Loop

\* The inductive invariant holds in every state of the relay.
LEMMA Invariant == Spec => []IInv
<1>1. Init => IInv
  <2> SUFFICES ASSUME Init PROVE IInv
    OBVIOUS
  <2>1. TypeOK
    BY ParametersAssumption DEF Init, TypeOK, Row, Statuses, Owning
  <2>2. \A w \in Workers, e \in Events : ~Owns(w, e)
    BY DEF Init, Owns, Owning
  <2>3. \A e \in Events : Ledger(e)
    BY DEF Init, Ledger
  <2> QED BY <2>1, <2>2, <2>3 DEF IInv, Safe, ClaimExclusive, Custody
<1>2. IInv /\ [Next]_vars => IInv'
  <2> SUFFICES ASSUME IInv, [Next]_vars PROVE IInv'
    OBVIOUS
  <2>1. TypeOK' /\ TypeOK /\ Safe
    BY TypeStep DEF IInv
  <2>2. CASE UNCHANGED vars
    BY <2>1, <2>2 DEF vars, IInv, Safe, ClaimExclusive, Ledger, Custody, Owns, AtHead
  <2>3. CASE Next
    <3>1. \/ \E e \in Events : Insert(e) \/ RetryTimeReached(e) \/ RetentionElapses(e)
          \/ \E w \in Workers, e \in Events : ProcessEvent(w, e) \/ Fault(w, e)
          \/ \E w \in Workers : Loop(w) \/ Stop(w) \/ Crash(w)
      BY <2>3 DEF Next
    <3> QED BY <2>1, <3>1, EventSafe, QuietSafe DEF IInv
  <2> QED BY <2>2, <2>3
<1> QED BY <1>1, <1>2, PTL DEF Spec

\* Two relay instances on one topic prefix never process the same event at
\* the same time (claimEvent's conditional UPDATE).
THEOREM ClaimsAreExclusive == Spec => []ClaimExclusive
<1>1. IInv => ClaimExclusive
  BY DEF IInv, Safe
<1> QED BY <1>1, Invariant, PTL

\* No event is published twice, whatever the relays, the broker and the
\* database do, and wherever a process dies.
THEOREM PublishedAtMostOnce == Spec => []AtMostOnce
<1>1. IInv => AtMostOnce
  BY DEF IInv, Safe, Ledger, AtMostOnce
<1> QED BY <1>1, Invariant, PTL

\* A row's final status agrees with what the broker was given.
THEOREM StatusIsTruthful == Spec => []StatusTellsTheTruth
<1>1. IInv => StatusTellsTheTruth
  BY DEF IInv, Safe, Ledger, StatusTellsTheTruth
<1> QED BY <1>1, Invariant, PTL

\* CleanupOldEvents never deletes a row whose event is still to be published.
THEOREM CleanupIsSafe == Spec => []CleanupDeletesSettledRows
<1>1. IInv => CleanupDeletesSettledRows
  BY DEF IInv, Safe, Ledger, CleanupDeletesSettledRows
<1> QED BY <1>1, Invariant, PTL

-----------------------------------------------------------------------------
(***************************************************************************)
(* The relay implements EventDelivery.  A step maps to Accept when it      *)
(* inserts, to Deliver when the broker takes a copy, to Bury when it       *)
(* writes 'failed', and to a stutter otherwise.                            *)
(***************************************************************************)

\* Steps that publish nothing and move no row into or out of the statuses
\* 'none' and 'failed' are stuttering steps of EventDelivery.
LEMMA StutterStep ==
    ASSUME published' = published,
           \A d \in Events : (row'[d].status = "none") <=> (row[d].status = "none"),
           \A d \in Events : (row'[d].status = "failed") <=> (row[d].status = "failed")
    PROVE  UNCHANGED Delivery!vars
<1> DEFINE Failed(e) == row[e].status = "failed"
<1>0. \A d \in Events : (Inserted(d)' <=> Inserted(d)) /\ (Failed(d)' <=> Failed(d))
  BY DEF Inserted
<1> HIDE DEF Failed
<1>1. {e \in Events : Inserted(e)}' = {e \in Events : Inserted(e)}
  BY <1>0
<1>2. {e \in Events : Failed(e)}' = {e \in Events : Failed(e)}
  BY <1>0
<1> USE DEF Failed
<1> QED BY <1>1, <1>2 DEF Delivery!vars

\* A step of processEvent or a fault in it delivers, buries or stutters.
LEMMA EventRefines ==
    ASSUME TypeOK, Safe, NEW w \in Workers, NEW e \in Events,
           ProcessEvent(w, e) \/ Fault(w, e)
    PROVE  [Delivery!Next]_(Delivery!vars)
<1>r. row[e] \in Row /\ \A r \in Row, s \in Statuses : [r EXCEPT !.status = s].status = s
  BY DEF TypeOK, Row
<1>l. Ledger(e) /\ Custody(w, e)
  BY DEF Safe
<1>1. CASE Claim(w, e)
  <2>1. row[e].status = "pending" /\ published' = published
    BY <1>1 DEF Claim, Claimable
  <2>2. /\ row'[e].status = "processing"
        /\ \A d \in Events \ {e} : row'[d] = row[d]
    BY <1>1, <1>r DEF Claim, TypeOK, Statuses
  <2> QED BY <2>1, <2>2, StutterStep
<1>2. CASE SkipClaimed(w, e) \/ DatabaseError(w, e)
  BY <1>2, StutterStep DEF SkipClaimed, DatabaseError
<1>3. CASE MarkEventFailed(w, e)
  <2>1. /\ AtHead(w, e) /\ pc[w] = "claimed" /\ published' = published
        /\ Store(e, [row[e] EXCEPT !.status = "failed", !.processedAt = TRUE])
    BY <1>3 DEF MarkEventFailed
  <2>2. row[e].status = "processing" /\ published[e] = 0
    BY <2>1, <1>l DEF Owns, Owning, Custody
  <2>3. row'[e] = [row[e] EXCEPT !.status = "failed", !.processedAt = TRUE]
    BY <2>1, <2>2, <1>l, StoreFields DEF Ledger
  <2>4. row'[e].status = "failed"
    BY <2>3, <1>r, RowFields, 0 \in Nat
  <2>5. \A d \in Events \ {e} : row'[d] = row[d]
    BY <2>1, StoreFields
  <2>6. Delivery!Bury(e)
    BY <2>1, <2>2, <2>4, <2>5 DEF Delivery!Bury, Inserted
  <2> QED BY <2>6 DEF Delivery!Next
<1>4. CASE Publish(w, e) \/ PublishFails(w, e)
  <2>1. /\ AtHead(w, e) /\ pc[w] = "claimed" /\ row' = row
        /\ \E kept \in {0, 1} : published' = [published EXCEPT ![e] = @ + kept]
    BY <1>4 DEF Publish, PublishFails
  <2>2. row[e].status = "processing" /\ published[e] = 0
    BY <2>1, <1>l DEF Owns, Owning, Custody
  <2>3. CASE published' = published
    BY <2>1, <2>3, StutterStep
  <2>4. CASE published' # published
    <3>1. published' = [published EXCEPT ![e] = 1]
      <4>1. PICK kept \in {0, 1} : published' = [published EXCEPT ![e] = @ + kept]
        BY <2>1
      <4>2. CASE kept = 0 BY <2>2, <2>4, <4>1, <4>2 DEF TypeOK
      <4>3. CASE kept = 1 BY <2>2, <4>1, <4>3
      <4> QED BY <4>2, <4>3
    <3>2. Delivery!Deliver(e)
      BY <2>1, <2>2, <3>1 DEF Delivery!Deliver, Inserted
    <3> QED BY <3>2 DEF Delivery!Next
  <2> QED BY <2>3, <2>4
<1>5. CASE ScheduleRetry(w, e)
  <2> DEFINE n == seenRetry[w][e] + 1
  <2>1. /\ published' = published /\ n \in Nat
        /\ Store(e, [row[e] EXCEPT !.retryCount = n, !.due = FALSE])
    BY <1>5 DEF ScheduleRetry, TypeOK
  <2> HIDE DEF n
  <2>2. row'[e].status = row[e].status
    <3>1. row'[e] \in {row[e], [row[e] EXCEPT !.retryCount = n, !.due = FALSE]}
      BY <2>1, StoreFields
    <3>2. CASE row'[e] = [row[e] EXCEPT !.retryCount = n, !.due = FALSE]
      BY <2>1, <3>2, <1>r, RowFields
    <3> QED BY <3>1, <3>2
  <2> QED BY <2>1, <2>2, StoreFields, StutterStep
<1>6. CASE StampProcessedAt(w, e)
  <2>1. published' = published /\ Store(e, [row[e] EXCEPT !.processedAt = TRUE])
    BY <1>6 DEF StampProcessedAt
  <2>2. row'[e].status = row[e].status
    BY <2>1, <1>r, StoreFields DEF Row
  <2> QED BY <2>1, <2>2, StoreFields, StutterStep
<1>7. CASE MarkProcessed(w, e)
  <2>1. /\ AtHead(w, e) /\ pc[w] = "stamped" /\ published' = published
        /\ Store(e, [row[e] EXCEPT !.status = "processed"])
    BY <1>7 DEF MarkProcessed
  <2>2. row[e].status = "processing"
    BY <2>1, <1>l DEF Owns, Owning, Custody
  <2>3. row'[e].status \in {"processing", "processed"}
    BY <2>1, <2>2, <1>r, StoreFields DEF Row
  <2> QED BY <2>1, <2>2, <2>3, StoreFields, StutterStep
<1> QED BY <1>1, <1>2, <1>3, <1>4, <1>5, <1>6, <1>7 DEF ProcessEvent, Fault

\* The outbox relay delivers every accepted event at most once and nothing
\* that was buried: it implements the abstract delivery service.
THEOREM RelayDelivers == Spec => ImplementsEventDelivery
<1>1. Init => Delivery!Init
  BY DEF Init, Delivery!Init, Inserted
<1>2. IInv /\ [Next]_vars => [Delivery!Next]_(Delivery!vars)
  <2> SUFFICES ASSUME IInv, [Next]_vars PROVE [Delivery!Next]_(Delivery!vars)
    OBVIOUS
  <2>l. \A d \in Events : row[d] \in Row
    BY DEF IInv, TypeOK
  <2>1. CASE UNCHANGED vars
    BY <2>1, StutterStep DEF vars
  <2>2. ASSUME NEW w \in Workers, NEW e \in Events, ProcessEvent(w, e) \/ Fault(w, e)
        PROVE  [Delivery!Next]_(Delivery!vars)
    BY <2>2, EventRefines DEF IInv
  <2>3. ASSUME NEW e \in Events, Insert(e)
        PROVE  [Delivery!Next]_(Delivery!vars)
    <3>1. /\ row[e].status = "none" /\ published' = published
          /\ row' = [row EXCEPT ![e].status = "pending"]
      BY <2>3 DEF Insert, Inserted
    <3>2. row'[e].status = "pending" /\ \A d \in Events \ {e} : row'[d] = row[d]
      BY <3>1, <2>l DEF IInv, TypeOK, Row
    <3>3. Delivery!Accept(e)
      BY <3>1, <3>2 DEF Delivery!Accept, Inserted
    <3> QED BY <3>3 DEF Delivery!Next
  <2>4. ASSUME NEW e \in Events, RetryTimeReached(e) \/ RetentionElapses(e)
        PROVE  [Delivery!Next]_(Delivery!vars)
    <3>1. published' = published /\ \A d \in Events \ {e} : row'[d] = row[d]
      BY <2>4 DEF RetryTimeReached, RetentionElapses, IInv, TypeOK
    <3>2. row'[e] \in {[row[e] EXCEPT !.due = TRUE], [row[e] EXCEPT !.old = TRUE]}
      BY <2>4 DEF RetryTimeReached, RetentionElapses, IInv, TypeOK
    <3>3. row'[e].status = row[e].status
      BY <3>2, <2>l DEF Row
    <3> QED BY <3>1, <3>3, StutterStep
  <2>5. ASSUME NEW w \in Workers, Loop(w) \/ Stop(w) \/ Crash(w)
        PROVE  [Delivery!Next]_(Delivery!vars)
    <3>1. CASE EndBatch(w)
      <4>1. PICK Deleted \in {{}, Expired} :
              row' = [d \in Events |-> IF d \in Deleted THEN [row[d] EXCEPT !.gone = TRUE]
                                                         ELSE row[d]]
        BY <3>1 DEF EndBatch
      <4>2. \A d \in Events : row'[d].status = row[d].status
        BY <4>1, <2>l DEF Row
      <4>3. published' = published
        BY <3>1 DEF EndBatch
      <4> QED BY <4>2, <4>3, StutterStep
    <3>2. CASE ~EndBatch(w)
      <4>1. row' = row /\ published' = published
        BY <2>5, <3>2 DEF Loop, Poll, LeaveLoop, Start, Stop, Crash
      <4> QED BY <4>1, StutterStep
    <3> QED BY <3>1, <3>2
  <2> QED BY <2>1, <2>2, <2>3, <2>4, <2>5 DEF Next
<1> QED BY <1>1, <1>2, Invariant, PTL DEF Spec, ImplementsEventDelivery, Delivery!Spec
=============================================================================
