----------------------------- MODULE InMemoryCache -----------------------------
(***************************************************************************)
(* The in-memory cache of core/cache/cache.go: expiring entries, an LRU    *)
(* list, a counter of entries, an index of keys for prefix deletion, and   *)
(* the table of loads in flight that keeps concurrent GetOrLoad calls from *)
(* loading one key together.                                               *)
(*                                                                         *)
(* c.mu is never held across a loader, a wait or a trie update of          *)
(* DeleteByPrefix, so a step is one section under the lock and the calls   *)
(* interleave between sections.  Every value has the same size: then       *)
(* metrics.Size moves with metrics.Entries and the two limits act alike,   *)
(* which leaves one counter and one limit.  evictionMap is written and     *)
(* never read.  Operations without a caller outside the tests (versioned   *)
(* Set and Get, Clear, listeners, Stop) are left out.                      *)
(***************************************************************************)
EXTENDS Integers, FiniteSets, Sequences

CONSTANTS
    Callers,        \* goroutines using the cache
    Keys,
    Prefixed,       \* keys with the prefix that DeleteByPrefix is called with
    MaxEntries,     \* config.MaxEntries
    MaxCalls        \* bound: operations started in a behaviour

ASSUME ParametersAssumption ==
    /\ Keys # {} /\ Prefixed \subseteq Keys
    /\ MaxEntries \in Nat \ {0}
    /\ MaxCalls \in Nat

VARIABLES
    cache,      \* the entry of each key
    lru,        \* evictionList, most recently used first
    counted,    \* metrics.Entries
    trie,       \* keys in keyTrie
    requests,   \* every inFlightRequest ever created
    inFlight,   \* the request in the table for each key, 0 for none
    pc, key,    \* where each caller is, and the key it works on
    hit,        \* the entry a Get has read and not yet moved to the front
    request,    \* the request a GetOrLoad leads or waits for
    doomed,     \* keys a DeleteByPrefix has still to remove or to unindex
    sweeps,     \* deletions of each key started by a Get that found it expired
    sets,       \* entries created so far: the identity of the next one
    calls

entries == <<cache, lru, counted>>
flights == <<requests, inFlight>>
locals  == <<pc, key, hit, request, doomed>>
vars == <<cache, lru, counted, trie, requests, inFlight, pc, key, hit, request, doomed,
          sweeps, sets, calls>>

NoEntry == [id |-> 0, expired |-> FALSE]
Entry == [id : Nat, expired : BOOLEAN]
Request == [outcome : {"running", "value", "error"}, done : BOOLEAN]
Places == {"idle", "touching", "entering", "waiting", "loading", "releasing",
           "storing", "removing", "unindexing"}

Cached == {k \in Keys : cache[k] # NoEntry}
Fresh(k) == cache[k] # NoEntry /\ ~cache[k].expired

Init ==
    /\ cache = [k \in Keys |-> NoEntry]
    /\ lru = <<>> /\ counted = 0
    /\ trie = {}
    /\ requests = <<>>
    /\ inFlight = [k \in Keys |-> 0]
    /\ pc = [c \in Callers |-> "idle"]
    /\ key = [c \in Callers |-> CHOOSE k \in Keys : TRUE]
    /\ hit = [c \in Callers |-> 0]
    /\ request = [c \in Callers |-> 0]
    /\ doomed = [c \in Callers |-> {}]
    /\ sweeps = [k \in Keys |-> 0]
    /\ sets = 0 /\ calls = 0

Node(k) == [key |-> k, id |-> cache[k].id]
Goto(c, place) == pc' = [pc EXCEPT ![c] = place]

\* A new call of c, which goes to place.
Start(c, place) ==
    /\ pc[c] = "idle"
    /\ calls < MaxCalls
    /\ calls' = calls + 1
    /\ Goto(c, place)

----------------------------------------------------------------------------
(* The trie, which serves as a set of keys, the LRU list and the counter.  *)

TrieInsert(k) == trie \union {k}
TrieDelete(k) == trie \ {k}
TrieFindPrefix == trie \intersect Prefixed

\* The element of the entry in a list, as the entry's lruNode; 0 when it has left it.
LruNode(list, id) ==
    IF \E i \in DOMAIN list : list[i].id = id
    THEN CHOOSE i \in DOMAIN list : list[i].id = id
    ELSE 0

\* Mutant: removeEntry forgets the list.
StaysListed(list, id) == list

\* removeEntry: the entry leaves the list, and the counter drops even when
\* the entry had already left it.
Unlisted(list, id) ==
    LET i == LruNode(list, id)
    IN  IF i = 0 THEN list ELSE SubSeq(list, 1, i - 1) \o SubSeq(list, i + 1, Len(list))

\* list.MoveToFront does nothing for an entry that has left the list.
MovedToFront(id) ==
    LET i == LruNode(lru, id)
    IN  IF i = 0 THEN lru ELSE <<lru[i]>> \o Unlisted(lru, id)

\* evictIfNeeded: how many entries at the back of list have to go for the
\* counter to be below the limit.
Excess(list, count) ==
    LET over == count - MaxEntries + 1
    IN  IF over <= 0 THEN 0 ELSE IF over > Len(list) THEN Len(list) ELSE over

\* SetWithVersion with expectedVersion 0.  An expired entry is removed first.
\* A live one is replaced: eviction may take it, and it is then counted off
\* twice; the entry that replaces it is not counted.
SetEntry(k) ==
    LET old  == cache[k]
        live == Fresh(k)
        dead == old # NoEntry /\ ~live
        list == IF dead THEN Unlisted(lru, old.id) ELSE lru
        count == IF dead THEN counted - 1 ELSE counted
        n == Excess(list, count)
        kept == SubSeq(list, 1, Len(list) - n)
        evicted == {list[i].key : i \in Len(list) - n + 1 .. Len(list)}
        node == [key |-> k, id |-> sets + 1]
    IN  /\ cache' = [j \in Keys |->
                        IF j = k THEN [id |-> sets + 1, expired |-> FALSE]
                        ELSE IF j \in evicted THEN NoEntry ELSE cache[j]]
        /\ lru' = <<node>> \o (IF live THEN Unlisted(kept, old.id) ELSE kept)
        /\ counted' = count - n + (IF live THEN -1 ELSE 1)
        /\ trie' = IF live THEN trie ELSE TrieInsert(k)
        /\ sets' = sets + 1

\* The entries of the keys in S leave the cache and the list, where f numbers the
\* elements that stay in the order they have.
RemoveKeys(S) ==
    LET gone == S \intersect Cached
        staying == {i \in DOMAIN lru : \A k \in gone : lru[i].id # cache[k].id}
    IN  /\ cache' = [k \in Keys |-> IF k \in gone THEN NoEntry ELSE cache[k]]
        /\ \E f \in [1..Cardinality(staying) -> staying] :
              /\ \A i, j \in DOMAIN f : i < j => f[i] < f[j]
              /\ lru' = [i \in DOMAIN f |-> lru[f[i]]]
        /\ counted' = counted - Cardinality(gone)

\* Mutant: a deletion that spares a live entry but not its place in the index.
DeleteKeyIfExpired(k) ==
    /\ RemoveKeys({k} \intersect {j \in Keys : cache[j].expired})
    /\ trie' = TrieDelete(k)

\* Delete: an absent key is left in the index.
DeleteKey(k) ==
    /\ RemoveKeys({k})
    /\ trie' = IF k \in Cached THEN TrieDelete(k) ELSE trie

----------------------------------------------------------------------------
(* Get and GetOrLoad.                                                      *)

\* Get reads the entry under the read lock.  An expired one is a miss and
\* starts a deletion of the key.
GetHit(c, k) ==
    /\ Fresh(k)
    /\ Start(c, "touching")
    /\ hit' = [hit EXCEPT ![c] = cache[k].id]
    /\ UNCHANGED <<entries, trie, flights, key, request, doomed, sweeps, sets>>

\* Get ends here with a miss, GetOrLoad goes on.
GetMiss(c, k, next) ==
    /\ ~Fresh(k)
    /\ Start(c, next)
    /\ key' = IF next = "entering" THEN [key EXCEPT ![c] = k] ELSE key
    /\ sweeps' = IF k \in Cached THEN [sweeps EXCEPT ![k] = @ + 1] ELSE sweeps
    /\ UNCHANGED <<entries, trie, flights, hit, request, doomed, sets>>

\* Get takes the write lock to move the entry it read to the front.
Touch(c) ==
    /\ pc[c] = "touching"
    /\ lru' = MovedToFront(hit[c])
    /\ hit' = [hit EXCEPT ![c] = 0]
    /\ Goto(c, "idle")
    /\ UNCHANGED <<cache, counted, trie, flights, key, request, doomed, sweeps, sets, calls>>

\* GetOrLoad looks again under the write lock: another call may have stored
\* the key meanwhile.
EnterHit(c) ==
    /\ pc[c] = "entering"
    /\ Fresh(key[c])
    /\ lru' = MovedToFront(cache[key[c]].id)
    /\ Goto(c, "idle")
    /\ UNCHANGED <<cache, counted, trie, flights, key, hit, request, doomed, sweeps, sets, calls>>

\* Mutant: the load in flight is not looked up.
MayLoadAnyway(k) == TRUE

\* It joins the load in flight for its key, if there is one.
MayLoad(k) == inFlight[k] = 0

EnterJoin(c) ==
    /\ pc[c] = "entering"
    /\ ~Fresh(key[c]) /\ ~MayLoad(key[c])
    /\ request' = [request EXCEPT ![c] = inFlight[key[c]]]
    /\ Goto(c, "waiting")
    /\ UNCHANGED <<entries, trie, flights, key, hit, doomed, sweeps, sets, calls>>

\* Otherwise it registers a request of its own and calls the loader.
EnterLoad(c) ==
    /\ pc[c] = "entering"
    /\ ~Fresh(key[c]) /\ MayLoad(key[c])
    /\ requests' = Append(requests, [outcome |-> "running", done |-> FALSE])
    /\ inFlight' = [inFlight EXCEPT ![key[c]] = Len(requests')]
    /\ request' = [request EXCEPT ![c] = Len(requests')]
    /\ Goto(c, "loading")
    /\ UNCHANGED <<entries, trie, key, hit, doomed, sweeps, sets, calls>>

\* The loader has returned: the request gets its outcome and leaves the table.
FinishLoad(c, outcome) ==
    /\ pc[c] = "loading"
    /\ requests' = [requests EXCEPT ![request[c]] = [outcome |-> outcome, done |-> FALSE]]
    /\ inFlight' = [inFlight EXCEPT ![key[c]] = 0]
    /\ Goto(c, "releasing")
    /\ UNCHANGED <<entries, trie, key, hit, request, doomed, sweeps, sets, calls>>

\* Mutant: an error return that skips wg.Done.
ReleaseOnValueOnly(c) ==
    /\ pc[c] = "releasing"
    /\ requests' = [requests EXCEPT ![request[c]].done = @ \/ requests[request[c]].outcome = "value"]
    /\ Goto(c, IF requests[request[c]].outcome = "value" THEN "storing" ELSE "idle")
    /\ request' = [request EXCEPT ![c] = 0]
    /\ UNCHANGED <<entries, trie, inFlight, key, hit, doomed, sweeps, sets, calls>>

\* wg.Done; only a loaded value goes on to be stored.
Release(c) ==
    /\ pc[c] = "releasing"
    /\ requests' = [requests EXCEPT ![request[c]] = [outcome |-> @.outcome, done |-> TRUE]]
    /\ Goto(c, IF requests[request[c]].outcome = "value" THEN "storing" ELSE "idle")
    /\ request' = [request EXCEPT ![c] = 0]
    /\ UNCHANGED <<entries, trie, inFlight, key, hit, doomed, sweeps, sets, calls>>

\* The value is stored, unless the caller's context was cancelled meanwhile.
Store(c) ==
    /\ pc[c] = "storing"
    /\ SetEntry(key[c])
    /\ Goto(c, "idle")
    /\ UNCHANGED <<flights, key, hit, request, doomed, sweeps, calls>>

StoreCancelled(c) ==
    /\ pc[c] = "storing"
    /\ Goto(c, "idle")
    /\ UNCHANGED <<entries, trie, flights, key, hit, request, doomed, sweeps, sets, calls>>

\* A waiter returns what the request holds.
Wake(c) ==
    /\ pc[c] = "waiting"
    /\ requests[request[c]].done
    /\ request' = [request EXCEPT ![c] = 0]
    /\ Goto(c, "idle")
    /\ UNCHANGED <<entries, trie, flights, key, hit, doomed, sweeps, sets, calls>>

----------------------------------------------------------------------------
(* Set, Delete and DeleteByPrefix.                                         *)

Set(c, k) ==
    /\ Start(c, "idle")
    /\ SetEntry(k)
    /\ UNCHANGED <<flights, key, hit, request, doomed, sweeps>>

Delete(c, k) ==
    /\ Start(c, "idle")
    /\ DeleteKey(k)
    /\ UNCHANGED <<flights, key, hit, request, doomed, sweeps, sets>>

\* The index is read without c.mu.  Without a match the call has no effect.
FindPrefix(c) ==
    /\ TrieFindPrefix # {}
    /\ Start(c, "removing")
    /\ doomed' = [doomed EXCEPT ![c] = TrieFindPrefix]
    /\ UNCHANGED <<entries, trie, flights, key, hit, request, sweeps, sets>>

\* Under c.mu the keys that are still cached are removed.
RemoveFound(c) ==
    /\ pc[c] = "removing"
    /\ RemoveKeys(doomed[c])
    /\ doomed' = [doomed EXCEPT ![c] = @ \intersect Cached]
    /\ Goto(c, IF doomed'[c] = {} THEN "idle" ELSE "unindexing")
    /\ UNCHANGED <<trie, flights, key, hit, request, sweeps, sets, calls>>

\* After the unlock they leave the index one by one.
Unindex(c, k) ==
    /\ pc[c] = "unindexing"
    /\ k \in doomed[c]
    /\ trie' = TrieDelete(k)
    /\ doomed' = [doomed EXCEPT ![c] = @ \ {k}]
    /\ Goto(c, IF doomed'[c] = {} THEN "idle" ELSE "unindexing")
    /\ UNCHANGED <<entries, flights, key, hit, request, sweeps, sets, calls>>

----------------------------------------------------------------------------
(* Expiry.                                                                 *)

EntryExpires(k) ==
    /\ Fresh(k)
    /\ cache' = [cache EXCEPT ![k].expired = TRUE]
    /\ UNCHANGED <<lru, counted, trie, flights, locals, sweeps, sets, calls>>

\* The deletion a Get started removes whatever the key holds by then.
Sweep(k) ==
    /\ sweeps[k] > 0
    /\ sweeps' = [sweeps EXCEPT ![k] = @ - 1]
    /\ DeleteKey(k)
    /\ UNCHANGED <<flights, locals, sets, calls>>

\* The ticker's round; the keys stay in the index.
CleanupExpired ==
    /\ \E k \in Keys : cache[k].expired
    /\ RemoveKeys({k \in Keys : cache[k].expired})
    /\ UNCHANGED <<trie, flights, locals, sweeps, sets, calls>>

----------------------------------------------------------------------------
Next ==
    \/ \E c \in Callers, k \in Keys :
        \/ GetHit(c, k)
        \/ \E next \in {"idle", "entering"} : GetMiss(c, k, next)
        \/ Set(c, k) \/ Delete(c, k) \/ Unindex(c, k)
    \/ \E c \in Callers :
        \/ Touch(c) \/ EnterHit(c) \/ EnterJoin(c) \/ EnterLoad(c)
        \/ \E outcome \in {"value", "error"} : FinishLoad(c, outcome)
        \/ Release(c) \/ Store(c) \/ StoreCancelled(c) \/ Wake(c)
        \/ FindPrefix(c) \/ RemoveFound(c)
    \/ \E k \in Keys : EntryExpires(k) \/ Sweep(k)
    \/ CleanupExpired

Spec == Init /\ [][Next]_vars

\* A goroutine that can run does, and a loader returns in the end.
Progress(c) ==
    \/ Touch(c) \/ EnterHit(c) \/ EnterJoin(c) \/ EnterLoad(c)
    \/ \E outcome \in {"value", "error"} : FinishLoad(c, outcome)
    \/ Release(c) \/ Store(c) \/ StoreCancelled(c) \/ Wake(c)

FairSpec == Spec /\ \A c \in Callers : WF_vars(Progress(c))

----------------------------------------------------------------------------
TypeOK ==
    /\ cache \in [Keys -> Entry]
    /\ lru \in Seq([key : Keys, id : Nat])
    /\ counted \in Int
    /\ trie \subseteq Keys
    /\ requests \in Seq(Request)
    /\ inFlight \in [Keys -> 0..Len(requests)]
    /\ pc \in [Callers -> Places]
    /\ key \in [Callers -> Keys]
    /\ hit \in [Callers -> Nat]
    /\ request \in [Callers -> 0..Len(requests)]
    /\ doomed \in [Callers -> SUBSET Keys]
    /\ sweeps \in [Keys -> Nat]
    /\ sets \in Nat /\ calls \in 0..MaxCalls

\* The LRU list holds exactly the entries of the cache, each once.  An entry
\* missing from it could never be evicted, and a stray one would make
\* evictOldest remove a live entry of the same key; it must survive sweeps,
\* purges and an overwrite that evicts the entry it replaces.
ListTracksCache ==
    /\ \A k \in Cached : \E i \in DOMAIN lru : lru[i] = Node(k)
    /\ \A i \in DOMAIN lru : lru[i].key \in Cached /\ lru[i] = Node(lru[i].key)
    /\ Len(lru) = Cardinality(Cached)

\* Stampede protection: no two callers run the loader of one key at once.
OneLoadPerKey ==
    \A c, d \in Callers :
        c # d /\ pc[c] = "loading" /\ pc[d] = "loading" => key[c] # key[d]

\* The table of loads names only requests whose loader is still running: a
\* failed or finished load left there would answer every later call.
InFlightIsLive ==
    \A k \in Keys : inFlight[k] # 0 =>
        \E c \in Callers : pc[c] = "loading" /\ key[c] = k /\ request[c] = inFlight[k]

\* Only DeleteByPrefix, which unindexes after its unlock, can leave a cached
\* key out of the index; every other operation keeps cached keys findable.
OnlyAPurgeUnindexes ==
    [][ \A k \in Keys :
          cache'[k] # NoEntry /\ k \notin trie'
            => \/ cache[k] # NoEntry /\ k \notin trie
               \/ \E c \in Callers : pc[c] = "unindexing" /\ k \in doomed[c] \ doomed'[c] ]_vars

\* Every GetOrLoad returns, the waiters of a failed load included.
GetOrLoadReturns ==
    \A c \in Callers : pc[c] \in {"entering", "waiting", "loading"} ~> pc[c] = "idle"
=============================================================================
