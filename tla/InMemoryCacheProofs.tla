-------------------------- MODULE InMemoryCacheProofs --------------------------
(***************************************************************************)
(* Proofs about InMemoryCache, for any number of goroutines, keys, entries *)
(* and calls: concurrent loads of one key are coalesced, and the table of  *)
(* loads in flight never keeps a request whose loader has returned.        *)
(*                                                                         *)
(* The two facts hold together: a loader is registered under its key       *)
(* (LoadsAreRegistered), so a second caller finds it and joins, and a      *)
(* registration belongs to a running loader (InFlightIsLive).              *)
(*                                                                         *)
(* The second part is about the LRU list: after any calls, sweeps and      *)
(* evictions its elements are the entries of the cache, one each.  Entries *)
(* are told apart by their number, so the invariant (ListInv) also keeps   *)
(* the numbers of the cached entries distinct and below the next one.      *)
(***************************************************************************)
EXTENDS InMemoryCache, FiniteSetTheorems, SequenceTheorems, TLAPS

\* The variables the loads depend on have their types.
FlightTypes ==
    /\ requests \in Seq(Request)
    /\ inFlight \in [Keys -> 0..Len(requests)]
    /\ pc \in [Callers -> Places]
    /\ key \in [Callers -> Keys]
    /\ request \in [Callers -> 0..Len(requests)]

\* A running loader is the one the table names for its key.
LoadsAreRegistered ==
    \A c \in Callers : pc[c] = "loading" =>
        request[c] # 0 /\ inFlight[key[c]] = request[c]

\* No two running loaders lead the same request.
LeadersDiffer ==
    \A c, d \in Callers :
        c # d /\ pc[c] = "loading" /\ pc[d] = "loading" => request[c] # request[d]

Coalesced == FlightTypes /\ LoadsAreRegistered /\ LeadersDiffer /\ InFlightIsLive

\* What the steps that move a caller and leave the loads alone have in common.
Elsewhere ==
    /\ UNCHANGED <<requests, inFlight, request>>
    /\ key' \in [Callers -> Keys]
    /\ pc' \in [Callers -> Places]
    /\ \A c \in Callers : pc'[c] = "loading" <=> pc[c] = "loading"
    /\ \A c \in Callers : pc[c] = "loading" => key'[c] = key[c]

\* Such a step preserves the invariant.
LEMMA ElsewherePreserves ==
    ASSUME Coalesced, Elsewhere
    PROVE  Coalesced'
<1> USE DEF Coalesced, Elsewhere
<1>1. FlightTypes'
  BY DEF FlightTypes
<1>2. LoadsAreRegistered'
  BY DEF LoadsAreRegistered
<1>3. LeadersDiffer'
  BY DEF LeadersDiffer
<1>4. InFlightIsLive'
  BY DEF InFlightIsLive
<1> QED BY <1>1, <1>2, <1>3, <1>4

\* A call that starts or a caller that moves between other places is elsewhere.
LEMMA StartIsElsewhere ==
    ASSUME Coalesced, NEW c \in Callers, NEW place \in Places \ {"loading"},
           pc[c] # "loading", Goto(c, place),
           UNCHANGED <<requests, inFlight, request>>,
           key' \in [Callers -> Keys],
           \A d \in Callers \ {c} : key'[d] = key[d]
    PROVE  Coalesced'
<1>1. pc' \in [Callers -> Places]
  BY DEF Goto, Coalesced, FlightTypes
<1>2. \A d \in Callers : pc'[d] = IF d = c THEN place ELSE pc[d]
  BY DEF Goto, Coalesced, FlightTypes
<1>3. Elsewhere
  BY <1>1, <1>2 DEF Elsewhere
<1> QED BY <1>3, ElsewherePreserves

\* Registering a load: its key was free, so no loader runs for it.
LEMMA EnterLoadPreserves ==
    ASSUME Coalesced, NEW c \in Callers, EnterLoad(c)
    PROVE  Coalesced'
<1> DEFINE r == Len(requests) + 1
           new == [outcome |-> "running", done |-> FALSE]
<1>1. requests' = Append(requests, new) /\ requests \in Seq(Request) /\ new \in Request
  BY DEF EnterLoad, Coalesced, FlightTypes, Request
<1>2. requests' \in Seq(Request) /\ Len(requests') = r /\ Len(requests) \in Nat
  BY <1>1
<1> HIDE DEF new
<1>3. /\ pc' = [pc EXCEPT ![c] = "loading"]
      /\ request' = [request EXCEPT ![c] = r]
      /\ inFlight' = [inFlight EXCEPT ![key[c]] = r]
      /\ key' = key
      /\ pc[c] = "entering" /\ inFlight[key[c]] = 0
  BY <1>2 DEF EnterLoad, MayLoad, Goto
<1> DEFINE rr == r
<1>4. r \in Nat /\ r # 0 /\ \A n \in 0..Len(requests) : n # r /\ n \in 0..r
  BY <1>2
<1> HIDE DEF r
<1>5. FlightTypes'
  <2>1. inFlight' \in [Keys -> 0..r] /\ request' \in [Callers -> 0..r]
    BY <1>3, <1>4 DEF Coalesced, FlightTypes
  <2>2. pc' \in [Callers -> Places] /\ key' \in [Callers -> Keys]
    BY <1>3 DEF Coalesced, FlightTypes, Places
  <2> QED BY <2>1, <2>2, <1>2 DEF FlightTypes
<1>6. \A d \in Callers : pc[d] = "loading" => key[d] # key[c] /\ d # c
  BY <1>3 DEF Coalesced, LoadsAreRegistered, FlightTypes
<1>7. LoadsAreRegistered'
  BY <1>3, <1>4, <1>6 DEF Coalesced, LoadsAreRegistered, FlightTypes
<1>8. LeadersDiffer'
  BY <1>3, <1>4, <1>6 DEF Coalesced, LeadersDiffer, FlightTypes
<1>9. InFlightIsLive'
  <2> SUFFICES ASSUME NEW k \in Keys, inFlight'[k] # 0
               PROVE  \E d \in Callers : pc'[d] = "loading" /\ key'[d] = k /\ request'[d] = inFlight'[k]
    BY DEF InFlightIsLive
  <2>1. CASE k = key[c]
    BY <2>1, <1>3 DEF Coalesced, FlightTypes
  <2>2. CASE k # key[c]
    <3>1. inFlight'[k] = inFlight[k]
      BY <2>2, <1>3 DEF Coalesced, FlightTypes
    <3>2. PICK d \in Callers : pc[d] = "loading" /\ key[d] = k /\ request[d] = inFlight[k]
      BY <3>1 DEF Coalesced, InFlightIsLive
    <3> QED BY <3>1, <3>2, <1>3, <1>6 DEF Coalesced, FlightTypes
  <2> QED BY <2>1, <2>2
<1> QED BY <1>5, <1>7, <1>8, <1>9 DEF Coalesced

\* Rewriting a request keeps the sequence; outside its domain nothing changes.
LEMMA RequestRewritten ==
    ASSUME NEW s \in Seq(Request), NEW i \in Nat, NEW r,
           i \in 1..Len(s) => r \in Request
    PROVE  [s EXCEPT ![i] = r] \in Seq(Request) /\ Len([s EXCEPT ![i] = r]) = Len(s)
<1>1. CASE i \in 1..Len(s)
  BY <1>1, ExceptSeq
<1>2. CASE i \notin 1..Len(s)
  <2>1. [s EXCEPT ![i] = r] = s
    BY <1>2
  <2> QED BY <2>1
<1> QED BY <1>1, <1>2

\* A finished load frees its key, and only its own.
LEMMA FinishLoadPreserves ==
    ASSUME Coalesced, NEW c \in Callers, NEW outcome \in {"value", "error"},
           FinishLoad(c, outcome)
    PROVE  Coalesced'
<1>1. /\ pc' = [pc EXCEPT ![c] = "releasing"]
      /\ inFlight' = [inFlight EXCEPT ![key[c]] = 0]
      /\ UNCHANGED <<key, request>>
      /\ pc[c] = "loading"
  BY DEF FinishLoad, Goto
<1>2. requests' \in Seq(Request) /\ Len(requests') = Len(requests)
  <2>1. requests' = [requests EXCEPT ![request[c]] = [outcome |-> outcome, done |-> FALSE]]
    BY DEF FinishLoad
  <2>2. requests \in Seq(Request) /\ request[c] \in Nat
    BY DEF Coalesced, FlightTypes
  <2>3. [outcome |-> outcome, done |-> FALSE] \in Request
    BY DEF Request
  <2> QED BY <2>1, <2>2, <2>3, RequestRewritten
<1>3. FlightTypes'
  BY <1>1, <1>2 DEF Coalesced, FlightTypes, Places
<1>4. \A d \in Callers : pc'[d] = "loading" => d # c /\ pc[d] = "loading" /\ key[d] # key[c]
  BY <1>1 DEF Coalesced, LoadsAreRegistered, LeadersDiffer, FlightTypes
<1>5. LoadsAreRegistered'
  BY <1>1, <1>4 DEF Coalesced, LoadsAreRegistered, FlightTypes
<1>6. LeadersDiffer'
  BY <1>1, <1>4 DEF Coalesced, LeadersDiffer, FlightTypes
<1>7. InFlightIsLive'
  BY <1>1 DEF Coalesced, InFlightIsLive, FlightTypes
<1> QED BY <1>3, <1>5, <1>6, <1>7 DEF Coalesced

\* Release and the join of a waiter touch no running loader's request.
LEMMA ReleasePreserves ==
    ASSUME Coalesced, NEW c \in Callers, Release(c)
    PROVE  Coalesced'
<1>1. /\ pc[c] = "releasing" /\ UNCHANGED <<inFlight, key>>
      /\ request' = [request EXCEPT ![c] = 0]
      /\ \E place \in {"storing", "idle"} : pc' = [pc EXCEPT ![c] = place]
  BY DEF Release, Goto
<1>2. requests' \in Seq(Request) /\ Len(requests') = Len(requests)
  <2> DEFINE done == [outcome |-> requests[request[c]].outcome, done |-> TRUE]
  <2>1. requests' = [requests EXCEPT ![request[c]] = done]
    BY DEF Release
  <2>2. requests \in Seq(Request) /\ request[c] \in Nat
    BY DEF Coalesced, FlightTypes
  <2>3. request[c] \in 1..Len(requests) => requests[request[c]] \in Request
    BY <2>2
  <2>4. request[c] \in 1..Len(requests) => done \in Request
    BY <2>3 DEF Request
  <2> HIDE DEF done
  <2> QED BY <2>1, <2>2, <2>4, RequestRewritten
<1>3. Len(requests) \in Nat
  BY DEF Coalesced, FlightTypes
<1>4. FlightTypes'
  BY <1>1, <1>2, <1>3 DEF Coalesced, FlightTypes, Places
<1>5. LoadsAreRegistered'
  BY <1>1 DEF Coalesced, LoadsAreRegistered, FlightTypes
<1>6. LeadersDiffer'
  BY <1>1 DEF Coalesced, LeadersDiffer, FlightTypes
<1>7. InFlightIsLive'
  BY <1>1 DEF Coalesced, InFlightIsLive, FlightTypes
<1> QED BY <1>4, <1>5, <1>6, <1>7 DEF Coalesced

\* A waiter's request is another caller's; its own place says it leads none.
LEMMA WaiterPreserves ==
    ASSUME Coalesced, NEW c \in Callers, EnterJoin(c) \/ Wake(c)
    PROVE  Coalesced'
<1>1. /\ pc[c] \in {"entering", "waiting"} /\ UNCHANGED <<requests, inFlight, key>>
      /\ \E r \in 0..Len(requests) : request' = [request EXCEPT ![c] = r]
      /\ \E place \in {"waiting", "idle"} : pc' = [pc EXCEPT ![c] = place]
  <2>1. Len(requests) \in Nat
    BY DEF Coalesced, FlightTypes
  <2>2. CASE EnterJoin(c)
    <3>1. inFlight[key[c]] \in 0..Len(requests)
      BY DEF Coalesced, FlightTypes
    <3>2. request' = [request EXCEPT ![c] = inFlight[key[c]]]
      BY <2>2 DEF EnterJoin
    <3>3. /\ pc[c] = "entering" /\ UNCHANGED <<requests, inFlight, key>>
          /\ pc' = [pc EXCEPT ![c] = "waiting"]
      BY <2>2 DEF EnterJoin, Goto, flights
    <3> QED BY <3>1, <3>2, <3>3
  <2>3. CASE Wake(c)
    <3>1. request' = [request EXCEPT ![c] = 0] /\ 0 \in 0..Len(requests)
      BY <2>1, <2>3 DEF Wake
    <3>2. /\ pc[c] = "waiting" /\ UNCHANGED <<requests, inFlight, key>>
          /\ pc' = [pc EXCEPT ![c] = "idle"]
      BY <2>3 DEF Wake, Goto, flights
    <3> QED BY <3>1, <3>2
  <2> QED BY <2>2, <2>3
<1>2. FlightTypes'
  BY <1>1 DEF Coalesced, FlightTypes, Places
<1>3. LoadsAreRegistered'
  BY <1>1 DEF Coalesced, LoadsAreRegistered, FlightTypes
<1>4. LeadersDiffer'
  BY <1>1 DEF Coalesced, LeadersDiffer, FlightTypes
<1>5. InFlightIsLive'
  BY <1>1 DEF Coalesced, InFlightIsLive, FlightTypes
<1> QED BY <1>2, <1>3, <1>4, <1>5 DEF Coalesced

\* Nothing is in flight at the start.
LEMMA InitCoalesced == Init => Coalesced
<1> SUFFICES ASSUME Init PROVE Coalesced
  OBVIOUS
<1>1. requests = <<>> /\ requests \in Seq(Request) /\ Len(requests) = 0
  BY DEF Init
<1>2. (CHOOSE k \in Keys : TRUE) \in Keys
  BY ParametersAssumption
<1>3. FlightTypes
  BY <1>1, <1>2 DEF Init, FlightTypes, Places
<1> QED BY <1>3 DEF Init, Coalesced, LoadsAreRegistered, LeadersDiffer, InFlightIsLive

\* Every step preserves the invariant.
LEMMA NextCoalesced == Coalesced /\ [Next]_vars => Coalesced'
<1> SUFFICES ASSUME Coalesced, [Next]_vars PROVE Coalesced'
  OBVIOUS
<1> USE DEF Places
<1>0. key \in [Callers -> Keys]
  BY DEF Coalesced, FlightTypes
<1>1. ASSUME NEW c \in Callers, NEW k \in Keys, GetHit(c, k) PROVE Coalesced'
  BY <1>0, <1>1, StartIsElsewhere DEF GetHit, Start, flights
<1>2. ASSUME NEW c \in Callers, NEW k \in Keys, NEW next \in {"idle", "entering"}, GetMiss(c, k, next)
      PROVE Coalesced'
  BY <1>0, <1>2, StartIsElsewhere DEF GetMiss, Start, flights
<1>3. ASSUME NEW c \in Callers, NEW k \in Keys, Set(c, k) PROVE Coalesced'
  BY <1>0, <1>3, StartIsElsewhere DEF Set, Start, flights
<1>4. ASSUME NEW c \in Callers, NEW k \in Keys, Delete(c, k) PROVE Coalesced'
  BY <1>0, <1>4, StartIsElsewhere DEF Delete, Start, flights
<1>5. ASSUME NEW c \in Callers, NEW k \in Keys, Unindex(c, k) PROVE Coalesced'
  BY <1>0, <1>5, StartIsElsewhere DEF Unindex, flights
<1>6. ASSUME NEW c \in Callers, Touch(c) \/ EnterHit(c) \/ StoreCancelled(c) PROVE Coalesced'
  BY <1>0, <1>6, StartIsElsewhere DEF Touch, EnterHit, StoreCancelled, flights
<1>7. ASSUME NEW c \in Callers, Store(c) PROVE Coalesced'
  BY <1>0, <1>7, StartIsElsewhere DEF Store, flights
<1>8. ASSUME NEW c \in Callers, FindPrefix(c) PROVE Coalesced'
  BY <1>0, <1>8, StartIsElsewhere DEF FindPrefix, Start, flights
<1>9. ASSUME NEW c \in Callers, RemoveFound(c) PROVE Coalesced'
  BY <1>0, <1>9, StartIsElsewhere DEF RemoveFound, flights
<1>10. ASSUME UNCHANGED <<requests, inFlight, request, pc, key>> PROVE Coalesced'
  BY <1>10, ElsewherePreserves DEF Elsewhere, Coalesced, FlightTypes
<1>11. ASSUME NEW k \in Keys, EntryExpires(k) \/ Sweep(k) PROVE Coalesced'
  BY <1>10, <1>11 DEF EntryExpires, Sweep, flights, locals
<1>12. ASSUME CleanupExpired PROVE Coalesced'
  BY <1>10, <1>12 DEF CleanupExpired, flights, locals
<1>13. ASSUME UNCHANGED vars PROVE Coalesced'
  BY <1>10, <1>13 DEF vars
<1> QED
  BY <1>1, <1>2, <1>3, <1>4, <1>5, <1>6, <1>7, <1>8, <1>9, <1>11, <1>12, <1>13,
     EnterLoadPreserves, FinishLoadPreserves, ReleasePreserves, WaiterPreserves DEF Next

\* The invariant holds in every reachable state.
THEOREM CoalescedAlways == Spec => []Coalesced
BY InitCoalesced, NextCoalesced, PTL DEF Spec

\* Stampede protection, for any number of callers: two of them never run the
\* loader of the same key at once (GetOrLoad, cache.go:401).
THEOREM LoadsAreCoalesced == Spec => []OneLoadPerKey
<1>1. Coalesced => OneLoadPerKey
  BY DEF Coalesced, LoadsAreRegistered, LeadersDiffer, OneLoadPerKey
<1> QED BY <1>1, CoalescedAlways, PTL

\* No finished or failed load stays in the table to answer later calls
\* (GetOrLoad, cache.go:422).
THEOREM NoStuckFlight == Spec => []InFlightIsLive
<1>1. Coalesced => InFlightIsLive
  BY DEF Coalesced
<1> QED BY <1>1, CoalescedAlways, PTL

\* An operation that leaves the index and the set of cached keys alone, or
\* stores a key it also indexes, keeps every cached key findable
\* (SetWithVersion with the evictions it makes).
LEMMA SetKeepsIndex ==
    ASSUME NEW k \in Keys, SetEntry(k), NEW j \in Keys,
           cache'[j] # NoEntry, j \notin trie'
    PROVE  cache[j] # NoEntry /\ j \notin trie
<1>1. CASE j = k
  BY <1>1 DEF SetEntry, Fresh, TrieInsert
<1>2. CASE j # k
  BY <1>2 DEF SetEntry, TrieInsert
<1> QED BY <1>1, <1>2

\* Deleting a key unindexes only what it removes.
LEMMA DeleteKeepsIndex ==
    ASSUME NEW k \in Keys, DeleteKey(k), NEW j \in Keys,
           cache'[j] # NoEntry, j \notin trie'
    PROVE  cache[j] # NoEntry /\ j \notin trie
BY DEF DeleteKey, TrieDelete, RemoveKeys, Cached

\* Removing entries stores none.
LEMMA RemovalKeepsIndex ==
    ASSUME NEW S \in SUBSET Keys, RemoveKeys(S), trie' = trie, NEW j \in Keys,
           cache'[j] # NoEntry, j \notin trie'
    PROVE  cache[j] # NoEntry /\ j \notin trie
BY DEF RemoveKeys, Cached

\* A prefix deletion works on keys.
DoomedType == doomed \in [Callers -> SUBSET Keys]

\* Only the three steps of DeleteByPrefix change what it works on.
LEMMA DoomedAlways == Spec => []DoomedType
<1>1. Init => DoomedType
  BY DEF Init, DoomedType
<1>2. DoomedType /\ [Next]_vars => DoomedType'
  <2> SUFFICES ASSUME DoomedType, [Next]_vars PROVE DoomedType'
    OBVIOUS
  <2>1. ASSUME UNCHANGED doomed PROVE DoomedType'
    BY <2>1 DEF DoomedType
  <2>2. ASSUME NEW c \in Callers, FindPrefix(c) PROVE DoomedType'
    BY <2>2, ParametersAssumption DEF FindPrefix, TrieFindPrefix, DoomedType
  <2>3. ASSUME NEW c \in Callers, RemoveFound(c) PROVE DoomedType'
    BY <2>3 DEF RemoveFound, DoomedType
  <2>4. ASSUME NEW c \in Callers, NEW k \in Keys, Unindex(c, k) PROVE DoomedType'
    BY <2>4 DEF Unindex, DoomedType
  <2>5. ASSUME NEW c \in Callers, NEW k \in Keys, NEW next \in {"idle", "entering"},
               GetHit(c, k) \/ GetMiss(c, k, next) \/ Set(c, k) \/ Delete(c, k)
        PROVE  DoomedType'
    BY <2>1, <2>5 DEF GetHit, GetMiss, Set, Delete
  <2>6. ASSUME NEW c \in Callers, NEW outcome \in {"value", "error"},
               \/ Touch(c) \/ EnterHit(c) \/ EnterJoin(c) \/ EnterLoad(c)
               \/ FinishLoad(c, outcome) \/ Release(c) \/ Store(c) \/ StoreCancelled(c)
               \/ Wake(c)
        PROVE  DoomedType'
    BY <2>1, <2>6 DEF Touch, EnterHit, EnterJoin, EnterLoad, FinishLoad, Release,
                       Store, StoreCancelled, Wake
  <2>7. ASSUME NEW k \in Keys, EntryExpires(k) \/ Sweep(k) PROVE DoomedType'
    BY <2>1, <2>7 DEF EntryExpires, Sweep, locals
  <2>8. CASE CleanupExpired \/ UNCHANGED vars
    BY <2>1, <2>8 DEF CleanupExpired, locals, vars
  <2> QED BY <2>2, <2>3, <2>4, <2>5, <2>6, <2>7, <2>8 DEF Next
<1> QED BY <1>1, <1>2, PTL DEF Spec

\* Only DeleteByPrefix can leave a cached key out of the index, for any keys
\* and callers (cache.go:509, 540 and 578): whatever the index missed before,
\* no other step makes it miss more.
THEOREM IndexLosesNothingElse == Spec => OnlyAPurgeUnindexes
<1> DEFINE Lost(j) == cache'[j] # NoEntry /\ j \notin trie'
           Before(j) == cache[j] # NoEntry /\ j \notin trie
           Purged(j) == \E c \in Callers : pc[c] = "unindexing" /\ j \in doomed[c] \ doomed'[c]
<1>1. ASSUME Coalesced, DoomedType, [Next]_vars, NEW j \in Keys, Lost(j)
      PROVE  Before(j) \/ Purged(j)
  <2>1. ASSUME UNCHANGED <<cache, trie>> PROVE Before(j)
    BY <1>1, <2>1
  <2>2. ASSUME NEW k \in Keys, SetEntry(k) PROVE Before(j)
    BY <1>1, <2>2, SetKeepsIndex
  <2>3. ASSUME NEW k \in Keys, DeleteKey(k) PROVE Before(j)
    BY <1>1, <2>3, DeleteKeepsIndex
  <2>4. ASSUME NEW S \in SUBSET Keys, RemoveKeys(S), trie' = trie PROVE Before(j)
    BY <1>1, <2>4, RemovalKeepsIndex
  <2>5. ASSUME NEW c \in Callers, NEW k \in Keys, Set(c, k) \/ Delete(c, k) PROVE Before(j)
    BY <2>2, <2>3, <2>5 DEF Set, Delete
  <2>6. ASSUME NEW c \in Callers, Store(c) PROVE Before(j)
    <3>1. SetEntry(key[c])
      BY <2>6 DEF Store
    <3>2. key[c] \in Keys
      BY <1>1 DEF Coalesced, FlightTypes
    <3> QED BY <3>1, <3>2, <2>2
  <2>7. ASSUME NEW k \in Keys, Sweep(k) PROVE Before(j)
    BY <2>3, <2>7 DEF Sweep
  <2>8. ASSUME NEW k \in Keys, EntryExpires(k) PROVE Before(j)
    BY <1>1, <2>8 DEF EntryExpires, Fresh
  <2>9. ASSUME CleanupExpired PROVE Before(j)
    <3>1. {k \in Keys : cache[k].expired} \in SUBSET Keys
      OBVIOUS
    <3> QED BY <3>1, <2>4, <2>9 DEF CleanupExpired
  <2>10. ASSUME NEW c \in Callers, RemoveFound(c) PROVE Before(j)
    <3>1. CASE j \in doomed[c]
      BY <1>1, <2>10, <3>1 DEF RemoveFound, RemoveKeys, Cached
    <3>2. CASE j \notin doomed[c]
      BY <1>1, <2>10, <3>2 DEF RemoveFound, RemoveKeys, Cached
    <3> QED BY <3>1, <3>2
  <2>11. ASSUME NEW c \in Callers, NEW k \in Keys, Unindex(c, k) PROVE Before(j) \/ Purged(j)
    <3>1. cache' = cache /\ trie' = trie \ {k} /\ pc[c] = "unindexing" /\ k \in doomed[c]
      BY <2>11 DEF Unindex, TrieDelete, entries
    <3>2. CASE j # k
      BY <1>1, <3>1, <3>2
    <3>3. CASE j = k
      <4>1. j \notin doomed'[c]
        BY <2>11, <3>3, <1>1 DEF Unindex, DoomedType
      <4> QED BY <3>1, <3>3, <4>1
    <3> QED BY <3>2, <3>3
  <2>12. ASSUME NEW c \in Callers, NEW k \in Keys, NEW next \in {"idle", "entering"},
                GetHit(c, k) \/ GetMiss(c, k, next)
         PROVE  Before(j)
    BY <2>1, <2>12 DEF GetHit, GetMiss, entries
  <2>13. ASSUME NEW c \in Callers, NEW outcome \in {"value", "error"},
                \/ Touch(c) \/ EnterHit(c) \/ EnterJoin(c) \/ EnterLoad(c)
                \/ FinishLoad(c, outcome) \/ Release(c) \/ StoreCancelled(c) \/ Wake(c)
                \/ FindPrefix(c)
         PROVE  Before(j)
    BY <2>1, <2>13 DEF Touch, EnterHit, EnterJoin, EnterLoad, FinishLoad, Release,
                       StoreCancelled, Wake, FindPrefix, entries
  <2>14. CASE UNCHANGED vars
    BY <2>1, <2>14 DEF vars
  <2> QED
    BY <1>1, <2>5, <2>6, <2>7, <2>8, <2>9, <2>10, <2>11, <2>12, <2>13, <2>14 DEF Next
<1>2. Coalesced /\ DoomedType /\ [Next]_vars =>
        [ \A k \in Keys :
            cache'[k] # NoEntry /\ k \notin trie'
              => \/ cache[k] # NoEntry /\ k \notin trie
                 \/ \E c \in Callers : pc[c] = "unindexing" /\ k \in doomed[c] \ doomed'[c] ]_vars
  BY <1>1
<1> QED BY <1>2, CoalescedAlways, DoomedAlways, PTL DEF Spec, OnlyAPurgeUnindexes

-----------------------------------------------------------------------------
(***************************************************************************)
(* The LRU list.  Its elements are the entries of the cache, each key once *)
(* (Listed); entries have numbers of their own, none above sets.  The      *)
(* lemmas on lists say which elements an operation leaves, and that it     *)
(* repeats none.                                                           *)
(***************************************************************************)

Element == [key : Keys, id : Nat]

Members(list) == {list[i] : i \in DOMAIN list}

\* A list in which no two elements are of one entry.
ListOK(list) == /\ list \in Seq(Element)
                /\ \A i, j \in DOMAIN list : list[i].id = list[j].id => i = j

LEMMA LruNodeIs ==
    ASSUME NEW list, ListOK(list), NEW id
    PROVE  \/ LruNode(list, id) = 0 /\ \A i \in DOMAIN list : list[i].id # id
           \/ LruNode(list, id) \in DOMAIN list /\ list[LruNode(list, id)].id = id
<1>1. DOMAIN list = 1..Len(list) /\ 0 \notin 1..Len(list)
  BY DEF ListOK
<1>2. CASE \E i \in DOMAIN list : list[i].id = id
  <2>1. LruNode(list, id) = CHOOSE i \in DOMAIN list : list[i].id = id
    BY <1>2 DEF LruNode
  <2> QED BY <1>2, <2>1
<1>3. CASE ~\E i \in DOMAIN list : list[i].id = id
  BY <1>3 DEF LruNode
<1> QED BY <1>2, <1>3

\* Taking out one element.
LEMMA WithoutElement ==
    ASSUME NEW list, ListOK(list), NEW p \in DOMAIN list
    PROVE  LET new == SubSeq(list, 1, p - 1) \o SubSeq(list, p + 1, Len(list))
           IN  /\ ListOK(new) /\ Members(new) = Members(list) \ {list[p]}
               /\ \A x \in Members(new) : x.id # list[p].id
<1>1. PICK n, front, back, new :
         /\ n = Len(list) /\ front = SubSeq(list, 1, p - 1) /\ back = SubSeq(list, p + 1, n)
         /\ new = front \o back
  OBVIOUS
<1>2. list \in Seq(Element) /\ n \in Nat /\ DOMAIN list = 1..n /\ p \in 1..n
  BY <1>1, LenProperties DEF ListOK
<1>3. /\ front \in Seq(Element) /\ Len(front) = p - 1
      /\ \A i \in 1..(p - 1) : front[i] = list[i]
  BY <1>1, <1>2
<1>4. /\ back \in Seq(Element) /\ Len(back) = n - p
      /\ \A i \in 1..(n - p) : back[i] = list[i + p]
  <2>1. \A i \in (p + 1)..n : list[i] \in Element
    BY <1>2
  <2>2. p + 1 \in Int /\ n \in Int
    BY <1>2
  <2>3. /\ back \in Seq(Element) /\ Len(back) = IF p + 1 <= n THEN n - (p + 1) + 1 ELSE 0
        /\ \A i \in 1..(n - (p + 1) + 1) : back[i] = list[(p + 1) + i - 1]
    BY <1>1, <2>1, <2>2, SubSeqProperties
  <2>4. n - (p + 1) + 1 = n - p
    BY <1>2
  <2>5. \A i \in 1..(n - p) : (p + 1) + i - 1 = i + p
    BY <1>2
  <2> QED BY <1>2, <2>3, <2>4, <2>5
<1>5. /\ new \in Seq(Element) /\ Len(new) = (p - 1) + (n - p)
      /\ \A i \in 1..((p - 1) + (n - p)) :
            new[i] = IF i <= p - 1 THEN front[i] ELSE back[i - (p - 1)]
  <2>1. /\ front \o back \in Seq(Element) /\ Len(front \o back) = Len(front) + Len(back)
        /\ \A i \in 1..(Len(front) + Len(back)) :
              (front \o back)[i] = IF i <= Len(front) THEN front[i] ELSE back[i - Len(front)]
    BY <1>3, <1>4, ConcatProperties
  <2>2. new = front \o back
    BY <1>1
  <2> QED BY <1>3, <1>4, <2>1, <2>2
<1>6. new \in Seq(Element) /\ DOMAIN new = 1..(n - 1)
  BY <1>2, <1>5, LenProperties
<1>7. \A i \in 1..(n - 1) : i < p => new[i] = list[i]
  BY <1>2, <1>3, <1>5
<1>8. \A i \in 1..(n - 1) : i >= p => new[i] = list[i + 1]
  <2> SUFFICES ASSUME NEW i \in 1..(n - 1), i >= p PROVE new[i] = list[i + 1]
    OBVIOUS
  <2>1. new[i] = back[i - (p - 1)]
    BY <1>2, <1>5
  <2>2. i - (p - 1) \in 1..(n - p) /\ (i - (p - 1)) + p = i + 1
    BY <1>2
  <2> QED BY <1>4, <2>1, <2>2
<1>9. ListOK(new)
  <2> SUFFICES ASSUME NEW i \in 1..(n - 1), NEW j \in 1..(n - 1), new[i].id = new[j].id
               PROVE  i = j
    BY <1>6 DEF ListOK
  <2>1. PICK k \in 1..n : new[i] = list[k] /\ k = IF i < p THEN i ELSE i + 1
    BY <1>2, <1>7, <1>8
  <2>2. PICK l \in 1..n : new[j] = list[l] /\ l = IF j < p THEN j ELSE j + 1
    BY <1>2, <1>7, <1>8
  <2>3. k = l
    BY <1>2, <2>1, <2>2 DEF ListOK
  <2> QED BY <1>2, <2>1, <2>2, <2>3
<1>10. ASSUME NEW i \in 1..(n - 1)
       PROVE  \E k \in 1..n : k # p /\ new[i] = list[k]
  BY <1>2, <1>7, <1>8
<1>11. \A x \in Members(new) : x \in Members(list) /\ x.id # list[p].id
  BY <1>2, <1>6, <1>10 DEF ListOK, Members
<1>12. ASSUME NEW k \in 1..n, k # p PROVE list[k] \in Members(new)
  <2>1. CASE k < p
    <3>1. k \in 1..(n - 1) /\ new[k] = list[k]
      BY <1>2, <1>7, <2>1
    <3> QED BY <1>6, <3>1 DEF Members
  <2>2. CASE k > p
    <3>1. k - 1 \in 1..(n - 1) /\ k - 1 >= p /\ (k - 1) + 1 = k
      BY <1>2, <2>2
    <3>2. new[k - 1] = list[k]
      BY <1>8, <3>1
    <3> QED BY <1>6, <3>1, <3>2 DEF Members
  <2> QED BY <1>2, <1>12, <2>1, <2>2
<1>13. Members(list) \ {list[p]} \subseteq Members(new)
  BY <1>2, <1>12 DEF Members
<1>14. Members(new) = Members(list) \ {list[p]}
  BY <1>11, <1>13
<1> QED BY <1>1, <1>9, <1>11, <1>14

LEMMA UnlistedIs ==
    ASSUME NEW list, ListOK(list), NEW id
    PROVE  /\ ListOK(Unlisted(list, id))
           /\ Members(Unlisted(list, id)) = {x \in Members(list) : x.id # id}
<1>1. CASE LruNode(list, id) = 0
  <2>1. Unlisted(list, id) = list
    BY <1>1 DEF Unlisted
  <2>2. \A x \in Members(list) : x.id # id
    <3>1. ~(0 \in DOMAIN list)
      BY DEF ListOK
    <3> QED BY <1>1, <3>1, LruNodeIs DEF Members
  <2> QED BY <2>1, <2>2
<1>2. CASE LruNode(list, id) # 0
  <2>1. PICK p : p = LruNode(list, id)
    OBVIOUS
  <2>2. p \in DOMAIN list /\ list[p].id = id
    BY <1>2, <2>1, LruNodeIs
  <2>3. Unlisted(list, id) = SubSeq(list, 1, p - 1) \o SubSeq(list, p + 1, Len(list))
    BY <1>2, <2>1 DEF Unlisted
  <2> QED BY <2>2, <2>3, WithoutElement
<1> QED BY <1>1, <1>2

\* Putting an element in front.
LEMMA WithFront ==
    ASSUME NEW list, ListOK(list), NEW x \in Element,
           \A y \in Members(list) : y.id # x.id
    PROVE  /\ ListOK(<<x>> \o list)
           /\ Members(<<x>> \o list) = {x} \cup Members(list)
<1>1. PICK new : new = <<x>> \o list
  OBVIOUS
<1>2. list \in Seq(Element) /\ Len(list) \in Nat /\ DOMAIN list = 1..Len(list)
  BY DEF ListOK
<1>3. /\ new \in Seq(Element) /\ Len(new) = Len(list) + 1 /\ new[1] = x
      /\ \A i \in 1..Len(list) : new[i + 1] = list[i]
  BY <1>1, <1>2
<1>4. DOMAIN new = 1..(Len(list) + 1)
  BY <1>3
<1>5. \A i \in DOMAIN new : i = 1 \/ (i - 1 \in DOMAIN list /\ new[i] = list[i - 1])
  BY <1>2, <1>3, <1>4
<1>6. ListOK(new)
  <2> SUFFICES ASSUME NEW i \in DOMAIN new, NEW j \in DOMAIN new, new[i].id = new[j].id
               PROVE  i = j
    BY <1>3 DEF ListOK
  <2>1. \A q \in DOMAIN list : list[q].id # x.id
    BY DEF Members
  <2>2. CASE i = 1 \/ j = 1
    BY <1>3, <1>5, <2>1, <2>2
  <2>3. CASE i # 1 /\ j # 1
    <3>1. /\ i - 1 \in DOMAIN list /\ j - 1 \in DOMAIN list
          /\ list[i - 1].id = list[j - 1].id
      BY <1>5, <2>3
    <3>2. i - 1 = j - 1
      BY <3>1 DEF ListOK
    <3> QED BY <1>4, <3>2
  <2> QED BY <2>2, <2>3
<1>7. \A y \in Members(new) : y \in {x} \cup Members(list)
  BY <1>3, <1>5 DEF Members
<1>8. x \in Members(new) /\ \A i \in DOMAIN list : list[i] \in Members(new)
  <2>1. 1 \in DOMAIN new /\ \A i \in DOMAIN list : i + 1 \in DOMAIN new /\ new[i + 1] = list[i]
    BY <1>2, <1>3, <1>4
  <2> QED BY <1>3, <2>1 DEF Members
<1>9. Members(list) \subseteq Members(new)
  BY <1>8 DEF Members
<1> QED BY <1>1, <1>6, <1>7, <1>8, <1>9

\* Dropping the back of a list.
LEMMA Shortened ==
    ASSUME NEW list, ListOK(list), NEW m \in 0..Len(list)
    PROVE  /\ ListOK(SubSeq(list, 1, m))
           /\ Members(SubSeq(list, 1, m)) = {list[i] : i \in 1..m}
<1>1. PICK new : new = SubSeq(list, 1, m)
  OBVIOUS
<1>2. list \in Seq(Element) /\ Len(list) \in Nat /\ DOMAIN list = 1..Len(list)
  BY DEF ListOK
<1>3. new \in Seq(Element) /\ Len(new) = m /\ \A i \in 1..m : new[i] = list[i]
  BY <1>1, <1>2
<1>4. DOMAIN new = 1..m /\ 1..m \subseteq DOMAIN list
  BY <1>2, <1>3
<1>5. ListOK(new)
  BY <1>3, <1>4 DEF ListOK
<1>6. Members(new) = {list[i] : i \in 1..m}
  BY <1>3, <1>4 DEF Members
<1> QED BY <1>1, <1>5, <1>6

\* Keeping some elements in the order they have.
LEMMA Staying ==
    ASSUME NEW list, ListOK(list), NEW staying \in SUBSET DOMAIN list,
           NEW f \in [1..Cardinality(staying) -> staying],
           \A i, j \in DOMAIN f : i < j => f[i] < f[j],
           NEW new, new = [i \in DOMAIN f |-> list[f[i]]]
    PROVE  ListOK(new) /\ Members(new) = {list[i] : i \in staying}
<1>1. list \in Seq(Element) /\ Len(list) \in Nat /\ DOMAIN list = 1..Len(list)
  BY DEF ListOK
<1>2. IsFiniteSet(1..Len(list)) /\ IsFiniteSet(staying)
  <2>1. IsFiniteSet(1..Len(list))
    BY <1>1, FS_Interval
  <2> QED BY <1>1, <2>1, FS_Subset
<1>3. PICK n \in Nat : n = Cardinality(staying)
  BY <1>2, FS_CardinalityType
<1>4. IsFiniteSet(1..n) /\ Cardinality(1..n) = n /\ DOMAIN f = 1..n
  BY <1>3, FS_Interval
<1>5. \A i, j \in 1..n : f[i] = f[j] => i = j
  <2> SUFFICES ASSUME NEW i \in 1..n, NEW j \in 1..n, f[i] = f[j], i # j PROVE FALSE
    OBVIOUS
  <2>1. f[i] \in Nat /\ f[j] \in Nat
    BY <1>1, <1>3
  <2>2. i < j \/ j < i
    OBVIOUS
  <2> QED BY <1>4, <2>1, <2>2
<1>6. f \in Surjection(1..n, staying)
  <2>1. f \in Injection(1..n, staying)
    <3>1. f \in [1..n -> staying]
      BY <1>3
    <3> QED BY <1>5, <3>1 DEF Injection, IsInjective
  <2> QED BY <1>2, <1>3, <1>4, <2>1, FS_Injection
<1>7. \A p \in staying : \E i \in 1..n : f[i] = p
  BY <1>6 DEF Surjection
<1>8. new \in [1..n -> Element] /\ \A i \in 1..n : new[i] = list[f[i]] /\ f[i] \in DOMAIN list
  BY <1>1, <1>3, <1>4
<1>9. ListOK(new)
  <2>1. new \in Seq(Element) /\ DOMAIN new = 1..n
    <3>1. [1..n -> Element] \subseteq Seq(Element)
      BY <1>3
    <3> QED BY <1>8, <3>1
  <2> QED BY <1>5, <1>8, <2>1 DEF ListOK
<1>10. Members(new) = {list[i] : i \in staying}
  <2>1. DOMAIN new = 1..n
    BY <1>8
  <2> QED BY <1>3, <1>7, <1>8, <2>1 DEF Members
<1> QED BY <1>9, <1>10

-----------------------------------------------------------------------------
(***************************************************************************)
(* The list and the map.                                                   *)
(***************************************************************************)

\* The elements of the list are the entries that are cached.
ListInv ==
    /\ cache \in [Keys -> Entry] /\ sets \in Nat /\ counted \in Int
    /\ ListOK(lru) /\ Members(lru) = {Node(k) : k \in Cached}
    /\ \A k \in Cached : cache[k].id \in 1..sets
    /\ \A j, k \in Cached : cache[j].id = cache[k].id => j = k

\* So there are as many of them, and no more keys are cached than are listed.
LEMMA ListedIsCached ==
    ASSUME ListInv
    PROVE  IsFiniteSet(Cached) /\ Len(lru) = Cardinality(Cached)
<1>1. PICK n : n = Len(lru)
  OBVIOUS
<1>2. lru \in Seq(Element) /\ n \in Nat /\ DOMAIN lru = 1..n
  BY <1>1, LenProperties DEF ListInv, ListOK
<1>3. PICK f : f = [i \in 1..n |-> lru[i].key]
  OBVIOUS
<1>4. \A i \in 1..n : \E k \in Cached : lru[i] = Node(k) /\ f[i] = k
  BY <1>2, <1>3 DEF ListInv, Members, Node
<1>5. \A k \in Cached : \E i \in 1..n : lru[i] = Node(k) /\ f[i] = k
  BY <1>2, <1>3 DEF ListInv, Members, Node
<1>6. f \in [1..n -> Cached]
  BY <1>3, <1>4
<1>7. \A i, j \in 1..n : f[i] = f[j] => i = j
  <2> SUFFICES ASSUME NEW i \in 1..n, NEW j \in 1..n, f[i] = f[j] PROVE i = j
    OBVIOUS
  <2>1. lru[i] = lru[j]
    BY <1>4
  <2> QED BY <1>2, <2>1 DEF ListInv, ListOK
<1>8. f \in Bijection(1..n, Cached)
  BY <1>5, <1>6, <1>7 DEF Bijection, Injection, Surjection, IsInjective
<1>9. IsFiniteSet(1..n) /\ Cardinality(1..n) = n
  BY <1>2, FS_Interval
<1> QED BY <1>1, <1>8, <1>9, FS_Bijection DEF ExistsBijection

LEMMA ListInvTracks ==
    ASSUME ListInv
    PROVE  ListTracksCache
<1>1. \A k \in Cached : \E i \in DOMAIN lru : lru[i] = Node(k)
  BY DEF ListInv, Members
<1>2. \A i \in DOMAIN lru : \E k \in Cached : lru[i] = Node(k)
  BY DEF ListInv, Members
<1>3. \A i \in DOMAIN lru : lru[i].key \in Cached /\ lru[i] = Node(lru[i].key)
  BY <1>2 DEF Node
<1> QED BY <1>1, <1>3, ListedIsCached DEF ListTracksCache

\* Moving an element to the front changes nothing else.
LEMMA MoveKeepsList ==
    ASSUME ListInv, NEW id, lru' = MovedToFront(id), UNCHANGED <<cache, counted, sets>>
    PROVE  ListInv'
<1>1. ListOK(lru') /\ Members(lru') = Members(lru)
  <2>1. CASE LruNode(lru, id) = 0
    BY <2>1 DEF MovedToFront, ListInv
  <2>2. CASE LruNode(lru, id) # 0
    <3>1. PICK x : x = lru[LruNode(lru, id)]
      OBVIOUS
    <3>2. x \in Members(lru) /\ x.id = id /\ x \in Element
      BY <2>2, <3>1, LruNodeIs DEF Members, ListInv, ListOK
    <3>3. /\ ListOK(Unlisted(lru, id))
          /\ Members(Unlisted(lru, id)) = {y \in Members(lru) : y.id # id}
      BY UnlistedIs DEF ListInv
    <3>4. lru' = <<x>> \o Unlisted(lru, id)
      BY <2>2, <3>1 DEF MovedToFront
    <3>5. /\ ListOK(<<x>> \o Unlisted(lru, id))
          /\ Members(<<x>> \o Unlisted(lru, id)) = {x} \cup Members(Unlisted(lru, id))
      BY <3>2, <3>3, WithFront
    <3>6. \A y \in Members(lru) : y.id = id => y = x
      BY <3>2 DEF ListInv, ListOK, Members
    <3> QED BY <3>2, <3>3, <3>4, <3>5, <3>6
  <2> QED BY <2>1, <2>2
<1>2. {Node(k) : k \in Cached}' = {Node(k) : k \in Cached}
  BY DEF Node, Cached
<1> QED BY <1>1, <1>2 DEF ListInv, Cached

\* Entries leave the map and the list together.
LEMMA RemoveKeysKeepsList ==
    ASSUME ListInv, NEW S, RemoveKeys(S), sets' = sets
    PROVE  ListInv'
<1>1. PICK gone, staying :
         /\ gone = S \cap Cached
         /\ staying = {i \in DOMAIN lru : \A k \in gone : lru[i].id # cache[k].id}
  OBVIOUS
<1>2. cache' = [k \in Keys |-> IF k \in gone THEN NoEntry ELSE cache[k]]
  BY <1>1 DEF RemoveKeys
<1>3. ListOK(lru') /\ Members(lru') = {lru[i] : i \in staying}
  <2>1. PICK f \in [1..Cardinality(staying) -> staying] :
           /\ \A i, j \in DOMAIN f : i < j => f[i] < f[j]
           /\ lru' = [i \in DOMAIN f |-> lru[f[i]]]
    BY <1>1 DEF RemoveKeys
  <2>2. ListOK(lru) /\ staying \in SUBSET DOMAIN lru
    BY <1>1 DEF ListInv
  <2> QED BY <2>1, <2>2, Staying
<1>4. /\ cache' \in [Keys -> Entry] /\ Cached' = Cached \ gone
      /\ \A k \in Cached' : cache'[k] = cache[k]
  BY <1>1, <1>2 DEF ListInv, Cached, Entry, NoEntry
<1>5. \A k \in Cached : cache[k].id \in {cache[j].id : j \in gone} <=> k \in gone
  BY <1>1 DEF ListInv
<1>6. \A i \in DOMAIN lru : \E k \in Cached : lru[i] = Node(k)
  BY DEF ListInv, Members
<1>7. \A k \in Cached : \E i \in DOMAIN lru : lru[i] = Node(k)
  BY DEF ListInv, Members
<1>8. {lru[i] : i \in staying} = {Node(k) : k \in Cached \ gone}
  <2>1. ASSUME NEW i \in staying PROVE \E k \in Cached \ gone : lru[i] = Node(k)
    BY <1>1, <1>6 DEF Node
  <2>2. ASSUME NEW k \in Cached \ gone PROVE \E i \in staying : lru[i] = Node(k)
    <3>1. PICK i \in DOMAIN lru : lru[i] = Node(k)
      BY <1>7
    <3>2. lru[i].id = cache[k].id
      BY <3>1 DEF Node
    <3>3. i \in staying
      BY <1>1, <1>5, <3>2
    <3> QED BY <3>1, <3>3
  <2> QED BY <2>1, <2>2
<1>9. {Node(k) : k \in Cached}' = {Node(k) : k \in Cached \ gone}
  BY <1>4 DEF Node
<1>10. counted' \in Int
  <2>1. IsFiniteSet(gone)
    BY <1>1, ListedIsCached, FS_Subset
  <2>2. Cardinality(gone) \in Nat
    BY <2>1, FS_CardinalityType
  <2> QED BY <1>1, <2>2 DEF RemoveKeys, ListInv
<1>11. Members(lru') = {Node(k) : k \in Cached}'
  BY <1>3, <1>8, <1>9
<1>12. /\ \A k \in Cached' : cache'[k].id \in 1..sets'
       /\ \A j, k \in Cached' : cache'[j].id = cache'[k].id => j = k
  BY <1>4 DEF ListInv
<1> QED BY <1>3, <1>4, <1>10, <1>11, <1>12 DEF ListInv

LEMMA DeleteKeepsList ==
    ASSUME ListInv, NEW k, DeleteKey(k), sets' = sets
    PROVE  ListInv'
BY RemoveKeysKeepsList DEF DeleteKey

\* A step that leaves the entries alone, except that one may have expired.
LEMMA UntouchedList ==
    ASSUME ListInv, UNCHANGED <<cache, lru, counted, sets>>
    PROVE  ListInv'
BY DEF ListInv, Members, Node, Cached, ListOK

LEMMA ExpiryKeepsList ==
    ASSUME ListInv, NEW k \in Keys, EntryExpires(k)
    PROVE  ListInv'
<1>1. /\ cache \in [Keys -> Entry] /\ k \in Cached
      /\ cache' = [cache EXCEPT ![k].expired = TRUE]
      /\ UNCHANGED <<lru, counted, sets>>
  BY DEF EntryExpires, Fresh, Cached, ListInv
<1>2. cache[k].id \in Nat \ {0} /\ cache[k] \in Entry
  BY <1>1 DEF ListInv
<1>3. PICK e : e = [cache[k] EXCEPT !.expired = TRUE]
  OBVIOUS
<1>4. e \in Entry /\ e.id = cache[k].id /\ e # NoEntry
  BY <1>2, <1>3 DEF Entry, NoEntry
<1>5. cache' = [cache EXCEPT ![k] = e]
  BY <1>1, <1>3
<1>6. cache' \in [Keys -> Entry] /\ \A j \in Keys : cache'[j].id = cache[j].id
  BY <1>1, <1>4, <1>5
<1>7. Cached' = Cached
  <2>1. \A j \in Keys : cache'[j] # NoEntry <=> cache[j] # NoEntry
    BY <1>1, <1>4, <1>5 DEF Cached
  <2> QED BY <2>1 DEF Cached
<1>8. {Node(j) : j \in Cached}' = {Node(j) : j \in Cached}
  BY <1>6, <1>7 DEF Node, Cached
<1>9. /\ ListOK(lru') /\ Members(lru') = {Node(j) : j \in Cached}'
      /\ sets' \in Nat /\ counted' \in Int
  BY <1>1, <1>8 DEF ListInv
<1>10. /\ \A j \in Cached' : cache'[j].id \in 1..sets'
       /\ \A j, l \in Cached' : cache'[j].id = cache'[l].id => j = l
  <2>1. \A j \in Cached : cache'[j].id = cache[j].id
    BY <1>6 DEF Cached
  <2> QED BY <1>1, <1>7, <2>1 DEF ListInv
<1> QED BY <1>6, <1>9, <1>10 DEF ListInv

\* SetEntry, whose operators are named here.
LEMMA SetEntryKeepsList ==
    ASSUME ListInv, NEW k \in Keys, SetEntry(k)
    PROVE  ListInv'
<1>1. PICK old, live, dead, list, count, n :
         /\ old = cache[k] /\ live = Fresh(k) /\ dead = (old # NoEntry /\ ~live)
         /\ list = IF dead THEN Unlisted(lru, old.id) ELSE lru
         /\ count = IF dead THEN counted - 1 ELSE counted
         /\ n = Excess(list, count)
  OBVIOUS
<1>2. PICK kept, evicted, node :
         /\ kept = SubSeq(list, 1, Len(list) - n)
         /\ evicted = {list[i].key : i \in Len(list) - n + 1 .. Len(list)}
         /\ node = [key |-> k, id |-> sets + 1]
  OBVIOUS
<1>3. /\ cache' = [j \in Keys |->
                      IF j = k THEN [id |-> sets + 1, expired |-> FALSE]
                      ELSE IF j \in evicted THEN NoEntry ELSE cache[j]]
      /\ lru' = <<node>> \o (IF live THEN Unlisted(kept, old.id) ELSE kept)
      /\ counted' = count - n + (IF live THEN -1 ELSE 1)
      /\ sets' = sets + 1
  BY <1>1, <1>2 DEF SetEntry
<1>4. /\ old \in Entry /\ count \in Int /\ sets \in Nat
      /\ k \in Cached <=> old # NoEntry
      /\ dead => k \in Cached
      /\ live <=> k \in Cached /\ ~dead
  <2>1. cache \in [Keys -> Entry] /\ counted \in Int /\ sets \in Nat
    BY DEF ListInv
  <2>2. old \in Entry /\ count \in Int
    BY <1>1, <2>1
  <2>3. k \in Cached <=> old # NoEntry
    BY <1>1 DEF Cached
  <2>4. Fresh(k) => old # NoEntry
    BY <1>1 DEF Fresh
  <2> QED BY <1>1, <2>1, <2>2, <2>3, <2>4, Zenon
<1>5. PICK held : held = IF dead THEN Cached \ {k} ELSE Cached
  OBVIOUS
<1>6. ListOK(list) /\ Members(list) = {Node(j) : j \in held}
  <2>1. CASE dead
    <3>1. /\ ListOK(list) /\ Members(list) = {x \in Members(lru) : x.id # old.id}
      BY <1>1, <2>1, UnlistedIs DEF ListInv
    <3>2. \A j \in Cached : Node(j).id = old.id <=> j = k
      BY <1>1, <1>4, <2>1 DEF ListInv, Node
    <3> QED BY <1>5, <2>1, <3>1, <3>2 DEF ListInv
  <2>2. CASE ~dead
    BY <1>1, <1>5, <2>2 DEF ListInv
  <2> QED BY <2>1, <2>2
<1>7. /\ list \in Seq(Element) /\ Len(list) \in Nat /\ DOMAIN list = 1..Len(list)
      /\ n \in 0..Len(list)
  <2>1. list \in Seq(Element) /\ Len(list) \in Nat /\ DOMAIN list = 1..Len(list)
    BY <1>6 DEF ListOK
  <2> QED BY <1>1, <1>4, <2>1, ParametersAssumption DEF Excess
<1>8. PICK m : m = Len(list) - n /\ m \in 0..Len(list)
  <2>1. Len(list) - n \in 0..Len(list)
    BY <1>7
  <2> QED BY <2>1
<1>9. ListOK(kept) /\ Members(kept) = {list[i] : i \in 1..m}
  BY <1>2, <1>6, <1>8, Shortened
<1>10. \A i \in 1..Len(list) : list[i].key \in held /\ list[i] = Node(list[i].key)
  <2> SUFFICES ASSUME NEW i \in 1..Len(list)
               PROVE  list[i].key \in held /\ list[i] = Node(list[i].key)
    OBVIOUS
  <2>1. PICK j \in held : list[i] = Node(j)
    BY <1>6, <1>7 DEF Members
  <2> QED BY <2>1 DEF Node
<1>11. evicted = {list[i].key : i \in (m + 1)..Len(list)}
  BY <1>2, <1>8
<1>12. Members(kept) = {Node(j) : j \in held \ evicted}
  <2>1. ASSUME NEW i \in 1..m PROVE list[i].key \notin evicted /\ i \in 1..Len(list)
    <3>1. i \in 1..Len(list)
      BY <1>7, <1>8
    <3>2. ASSUME NEW l \in (m + 1)..Len(list), list[l].key = list[i].key PROVE FALSE
      <4>1. l \in 1..Len(list) /\ l # i
        BY <1>7, <1>8
      <4>2. list[l] = list[i]
        BY <1>10, <3>1, <3>2, <4>1
      <4> QED BY <1>6, <1>7, <3>1, <4>1, <4>2 DEF ListOK
    <3> QED BY <1>11, <3>1, <3>2
  <2>2. ASSUME NEW j \in held \ evicted PROVE \E i \in 1..m : list[i] = Node(j)
    <3>1. PICK i \in 1..Len(list) : list[i] = Node(j)
      BY <1>6, <1>7 DEF Members
    <3>2. list[i].key = j
      BY <3>1 DEF Node
    <3>3. i \notin (m + 1)..Len(list)
      BY <1>11, <3>2
    <3> QED BY <1>7, <1>8, <3>1, <3>3
  <2>3. \A i \in 1..m : \E j \in held \ evicted : list[i] = Node(j)
    BY <1>10, <2>1
  <2> QED BY <1>9, <2>2, <2>3
<1>13. PICK rest : rest = IF live THEN Unlisted(kept, old.id) ELSE kept
  OBVIOUS
<1>14. ListOK(rest) /\ Members(rest) = {Node(j) : j \in (Cached \ evicted) \ {k}}
  <2>1. CASE live
    <3>1. ListOK(rest) /\ Members(rest) = {x \in Members(kept) : x.id # old.id}
      BY <1>9, <1>13, <2>1, UnlistedIs
    <3>2. \A j \in Cached : Node(j).id = old.id <=> j = k
      BY <1>1, <1>4, <2>1 DEF ListInv, Node
    <3>3. held = Cached
      BY <1>4, <1>5, <2>1
    <3> QED BY <1>12, <3>1, <3>2, <3>3
  <2>2. CASE ~live
    <3>1. held \ evicted = (Cached \ evicted) \ {k}
      BY <1>4, <1>5, <2>2
    <3> QED BY <1>9, <1>12, <1>13, <2>2, <3>1
  <2> QED BY <2>1, <2>2
<1>15. node \in Element /\ \A x \in Members(rest) : x.id # node.id
  <2>1. \A j \in Cached : Node(j).id # sets + 1
    BY <1>4 DEF ListInv, Node
  <2> QED BY <1>2, <1>4, <1>14, <2>1 DEF Element
<1>16. ListOK(lru') /\ Members(lru') = {node} \cup {Node(j) : j \in (Cached \ evicted) \ {k}}
  <2>1. lru' = <<node>> \o rest
    BY <1>3, <1>13
  <2> QED BY <1>14, <1>15, <2>1, WithFront
<1>17. /\ cache' \in [Keys -> Entry] /\ cache'[k] = [id |-> sets + 1, expired |-> FALSE]
       /\ Cached' = {k} \cup (Cached \ evicted)
       /\ \A j \in (Cached \ evicted) \ {k} : cache'[j] = cache[j]
  BY <1>3, <1>4 DEF ListInv, Cached, Entry, NoEntry
<1>18. Members(lru') = {Node(j) : j \in Cached}'
  <2>1. node = Node(k)' /\ \A j \in (Cached \ evicted) \ {k} : Node(j)' = Node(j)
    BY <1>2, <1>17 DEF Node
  <2> QED BY <1>16, <1>17, <2>1
<1>19. /\ \A j \in Cached' : cache'[j].id \in 1..sets'
       /\ \A j, l \in Cached' : cache'[j].id = cache'[l].id => j = l
  <2>1. \A j \in Cached' \ {k} : j \in Cached /\ cache'[j].id = cache[j].id
    BY <1>17
  <2>2. sets' = sets + 1 /\ sets \in Nat /\ cache'[k].id = sets + 1
    BY <1>3, <1>4, <1>17
  <2>3. \A j \in Cached' \ {k} : cache'[j].id \in 1..sets
    BY <2>1 DEF ListInv
  <2>4. \A j, l \in Cached' \ {k} : cache'[j].id = cache'[l].id => j = l
    BY <2>1 DEF ListInv
  <2> QED BY <2>2, <2>3, <2>4
<1>20. counted' \in Int /\ sets' \in Nat
  BY <1>3, <1>4, <1>7
<1> QED BY <1>16, <1>17, <1>18, <1>19, <1>20 DEF ListInv

-----------------------------------------------------------------------------
LEMMA InitListInv ==
    ASSUME Init
    PROVE  ListInv
<1>1. cache = [k \in Keys |-> NoEntry] /\ lru = <<>> /\ counted = 0 /\ sets = 0
  BY DEF Init
<1>2. Cached = {} /\ NoEntry \in Entry
  BY <1>1 DEF Cached, NoEntry, Entry
<1>3. lru \in Seq(Element) /\ DOMAIN lru = {}
  BY <1>1
<1> QED BY <1>1, <1>2, <1>3 DEF ListInv, ListOK, Members

LEMMA NextListInv == Coalesced /\ ListInv /\ [Next]_vars => ListInv'
<1> SUFFICES ASSUME Coalesced, ListInv, [Next]_vars PROVE ListInv'
  OBVIOUS
<1>1. ASSUME NEW c \in Callers, NEW k \in Keys,
             \/ GetHit(c, k) \/ Unindex(c, k)
             \/ \E next \in {"idle", "entering"} : GetMiss(c, k, next)
      PROVE  ListInv'
  BY <1>1, UntouchedList DEF GetHit, GetMiss, Unindex, entries
<1>2. ASSUME NEW c \in Callers, NEW k \in Keys, Set(c, k) PROVE ListInv'
  BY <1>2, SetEntryKeepsList DEF Set
<1>3. ASSUME NEW c \in Callers, NEW k \in Keys, Delete(c, k) PROVE ListInv'
  BY <1>3, DeleteKeepsList DEF Delete
<1>4. ASSUME NEW c \in Callers, Touch(c) \/ EnterHit(c) PROVE ListInv'
  BY <1>4, MoveKeepsList DEF Touch, EnterHit
<1>5. ASSUME NEW c \in Callers,
             \/ EnterJoin(c) \/ EnterLoad(c) \/ Release(c) \/ StoreCancelled(c)
             \/ Wake(c) \/ FindPrefix(c)
             \/ \E outcome \in {"value", "error"} : FinishLoad(c, outcome)
      PROVE  ListInv'
  BY <1>5, UntouchedList DEF EnterJoin, EnterLoad, FinishLoad, Release, StoreCancelled, Wake,
     FindPrefix, entries
<1>6. ASSUME NEW c \in Callers, Store(c) PROVE ListInv'
  <2>1. key[c] \in Keys
    BY DEF Coalesced, FlightTypes
  <2> QED BY <1>6, <2>1, SetEntryKeepsList DEF Store
<1>7. ASSUME NEW c \in Callers, RemoveFound(c) PROVE ListInv'
  BY <1>7, RemoveKeysKeepsList DEF RemoveFound
<1>8. ASSUME NEW k \in Keys, EntryExpires(k) \/ Sweep(k) PROVE ListInv'
  BY <1>8, ExpiryKeepsList, DeleteKeepsList DEF Sweep
<1>9. CASE CleanupExpired
  BY <1>9, RemoveKeysKeepsList DEF CleanupExpired
<1>10. CASE UNCHANGED vars
  BY <1>10, UntouchedList DEF vars
<1> QED BY <1>1, <1>2, <1>3, <1>4, <1>5, <1>6, <1>7, <1>8, <1>9, <1>10 DEF Next

\* The LRU list is the cache's: whatever calls, sweeps and evictions did, every
\* entry has one element, and no element is of an entry that is gone.
THEOREM ListTracksTheCache == Spec => []ListTracksCache
<1>1. Spec => []ListInv
  BY InitListInv, NextListInv, CoalescedAlways, PTL DEF Spec
<1>2. ListInv => ListTracksCache
  BY ListInvTracks
<1> QED BY <1>1, <1>2, PTL

-----------------------------------------------------------------------------
(***************************************************************************)
(* Types.                                                                  *)
(***************************************************************************)

\* What the invariants above do not say of the variables.
RestTypes ==
    /\ trie \subseteq Keys
    /\ hit \in [Callers -> Nat] /\ sweeps \in [Keys -> Nat]
    /\ calls \in 0..MaxCalls

LEMMA NextRestTypes == Coalesced /\ ListInv /\ RestTypes /\ [Next]_vars => RestTypes'
<1> SUFFICES ASSUME Coalesced, ListInv, RestTypes, [Next]_vars PROVE RestTypes'
  OBVIOUS
<1> USE DEF RestTypes
<1>1. ASSUME NEW c \in Callers, NEW place, Start(c, place) PROVE calls' \in 0..MaxCalls
  BY <1>1, ParametersAssumption DEF Start
<1>2. ASSUME NEW k \in Keys PROVE TrieInsert(k) \subseteq Keys /\ TrieDelete(k) \subseteq Keys
  BY DEF TrieInsert, TrieDelete
<1>3. \A k \in Keys : cache[k].id \in Nat
  BY DEF ListInv, Entry
<1>4. ASSUME NEW c \in Callers, NEW k \in Keys,
             \/ GetHit(c, k) \/ Set(c, k) \/ Delete(c, k) \/ Unindex(c, k)
             \/ \E next \in {"idle", "entering"} : GetMiss(c, k, next)
      PROVE  RestTypes'
  <2>1. CASE GetHit(c, k)
    BY <1>1, <1>3, <2>1 DEF GetHit
  <2>2. CASE Set(c, k)
    BY <1>1, <1>2, <2>2 DEF Set, SetEntry
  <2>3. CASE Delete(c, k)
    BY <1>1, <1>2, <2>3 DEF Delete, DeleteKey
  <2>4. CASE Unindex(c, k)
    BY <1>2, <2>4 DEF Unindex
  <2>5. CASE \E next \in {"idle", "entering"} : GetMiss(c, k, next)
    BY <1>1, <2>5 DEF GetMiss
  <2> QED BY <1>4, <2>1, <2>2, <2>3, <2>4, <2>5
<1>5. ASSUME NEW c \in Callers,
             \/ Touch(c) \/ EnterHit(c) \/ EnterJoin(c) \/ EnterLoad(c)
             \/ \E outcome \in {"value", "error"} : FinishLoad(c, outcome)
             \/ Release(c) \/ StoreCancelled(c) \/ Wake(c) \/ RemoveFound(c)
      PROVE  RestTypes'
  <2>1. CASE Touch(c)
    BY <2>1 DEF Touch
  <2>2. CASE \/ EnterHit(c) \/ EnterJoin(c) \/ EnterLoad(c)
             \/ \E outcome \in {"value", "error"} : FinishLoad(c, outcome)
             \/ Release(c) \/ StoreCancelled(c) \/ Wake(c) \/ RemoveFound(c)
    <3>1. UNCHANGED <<trie, hit, sweeps, calls>>
      BY <2>2, ZenonT(30) DEF EnterHit, EnterJoin, EnterLoad, FinishLoad, Release,
         StoreCancelled, Wake, RemoveFound
    <3> QED BY <3>1
  <2> QED BY <1>5, <2>1, <2>2
<1>6. ASSUME NEW c \in Callers, FindPrefix(c) PROVE RestTypes'
  BY <1>1, <1>6 DEF FindPrefix
<1>7. ASSUME NEW c \in Callers, Store(c) PROVE RestTypes'
  <2>1. key[c] \in Keys
    BY DEF Coalesced, FlightTypes
  <2> QED BY <1>2, <1>7, <2>1 DEF Store, SetEntry
<1>8. ASSUME NEW k \in Keys, EntryExpires(k) \/ Sweep(k) PROVE RestTypes'
  BY <1>2, <1>8 DEF EntryExpires, Sweep, DeleteKey, locals
<1>9. CASE CleanupExpired \/ UNCHANGED vars
  BY <1>9 DEF CleanupExpired, vars, locals
<1> QED BY <1>4, <1>5, <1>6, <1>7, <1>8, <1>9 DEF Next

\* Every variable keeps its type.
THEOREM TypeCorrect == Spec => []TypeOK
<1>1. Init => RestTypes
  BY ParametersAssumption DEF Init, RestTypes
<1>2. Coalesced /\ ListInv /\ DoomedType /\ RestTypes => TypeOK
  BY DEF Coalesced, FlightTypes, ListInv, ListOK, Element, DoomedType, RestTypes, TypeOK
<1> QED BY <1>1, <1>2, NextRestTypes, InitListInv, NextListInv, CoalescedAlways, DoomedAlways,
           PTL DEF Spec
=============================================================================
