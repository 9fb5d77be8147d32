------------------------------ MODULE DnsCache ------------------------------
(***************************************************************************)
(* The cache of sing-box's DNS client (dns/client.go) under concurrent     *)
(* queries of one question through one transport: queries that wait for    *)
(* the answer another one is fetching, stale answers refreshed in the      *)
(* background, keys that carry the network environment; over the memory    *)
(* cache or over the cache file, whose saves are written behind            *)
(* (experimental/cachefile/dns_cache.go).                                  *)
(*                                                                         *)
(* Answers are numbered in the order the transport gives them. Queries     *)
(* have no response checker and may all be cached.                         *)
(***************************************************************************)
EXTENDS Naturals, FiniteSets

CONSTANTS Query,       \* the queries; each is asked once
          Async,       \* those that are started by ExchangeAsync
          Strict,      \* those with DisableOptimisticCache
          Known,       \* network environments; 0 is one that is not known yet
          Initial,     \* the environments a box may start in
          None,
          MaxChanges,  \* bound: changes of the network
          MaxClears    \* bound: calls of ClearCache

ASSUME KnownAssumption ==
  /\ Known \subseteq Nat \ {0} /\ Known # {} /\ Initial \subseteq Known \cup {0}
  /\ None \notin Known \cup {0}
ASSUME BoundAssumption == MaxChanges \in Nat /\ MaxClears \in Nat
ASSUME QueryAssumption ==
  IsFiniteSet(Query) /\ None \notin Query /\ Async \cup Strict \subseteq Query

Env == Known \cup {0}
Answer == 1..(2 * Cardinality(Query))    \* one of each query and of its refresh
Nothing == 0                             \* no answer, no entry

VARIABLES persistent,  \* the client has a dnsCache
          environment, \* what environmentHash returns
          changes,     \* how often it has changed
          origin,      \* the network an answer came from, None for none yet
          age          \* of an answer: "fresh", "stale", "expired"
VARIABLES pc,          \* of a query
          async,       \* it may not wait: queries in the callback of ExchangeAsync
          key,         \* operation.cacheKey: its environment
          since,       \* changes when key was read
          cond,        \* the query whose channel it found in cacheLock
          response     \* what it returns, Nothing for an error
VARIABLES cacheLock,   \* by environment of the key
          closed,      \* queries that have closed their channel
          refresh      \* backgroundRefresh and its goroutine, by key
VARIABLES cache,       \* the memory cache
          pending,     \* saveDNSCache
          file,        \* the bucket of the cache file
          flush,       \* the flushing goroutine started by an answer
          clear,       \* ClearDNSCache: "no", or "batch" between its two steps
          clears,
          saved,       \* the last answer given to storeCache, by key
          intact       \* no save has failed and no answer was cleared

queryVars == <<pc, async, key, since, cond, response>>
netVars == <<persistent, environment, changes, origin, age>>
lockVars == <<cacheLock, closed, refresh>>
storeVars == <<cache, pending, file, flush, clear, clears, saved, intact>>
vars == <<queryVars, netVars, lockVars, storeVars>>

NoEntry == [answer |-> Nothing, sequence |-> 0]
NoRefresh == [at |-> "none", answer |-> Nothing, since |-> 0]
NoFlush == [at |-> "none", key |-> 0, entry |-> NoEntry]
Entry == [answer : Answer \cup {Nothing}, sequence : Nat]

TypeOK ==
  /\ persistent \in BOOLEAN /\ environment \in Env /\ changes \in 0..MaxChanges
  /\ origin \in [Answer -> Env \cup {None}]
  /\ age \in [Answer -> {"fresh", "stale", "expired"}]
  /\ pc \in [Query -> {"idle", "own", "found", "woken", "wait", "asking", "finish", "release", "done"}]
  /\ async \subseteq Query
  /\ key \in [Query -> Env] /\ since \in [Query -> 0..MaxChanges]
  /\ cond \in [Query -> Query \cup {None}]
  /\ response \in [Query -> Answer \cup {Nothing}]
  /\ cacheLock \in [Env -> Query \cup {None}] /\ closed \subseteq Query
  /\ refresh \in [Env -> [at : {"none", "asking", "answered"}, answer : Answer \cup {Nothing},
                         since : 0..MaxChanges]]
  /\ cache \in [Env -> Answer \cup {Nothing}]
  /\ pending \in [Env -> Entry]
  /\ file \in [Env -> Answer \cup {Nothing}]
  /\ flush \in [Answer -> [at : {"none", "read", "save", "end"}, key : Env, entry : Entry]]
  /\ clear \in {"no", "batch"} /\ clears \in 0..MaxClears
  /\ saved \in [Env -> Answer \cup {Nothing}] /\ intact \in BOOLEAN

Init ==
  /\ persistent \in BOOLEAN /\ environment \in Initial /\ changes = 0
  /\ origin = [n \in Answer |-> None] /\ age = [n \in Answer |-> "fresh"]
  /\ pc = [q \in Query |-> "idle"]
  /\ async = Async
  /\ key = [q \in Query |-> 0] /\ since = [q \in Query |-> 0]
  /\ cond = [q \in Query |-> None]
  /\ response = [q \in Query |-> Nothing]
  /\ cacheLock = [e \in Env |-> None] /\ closed = {}
  /\ refresh = [e \in Env |-> NoRefresh]
  /\ cache = [e \in Env |-> Nothing]
  /\ pending = [e \in Env |-> NoEntry]
  /\ file = [e \in Env |-> Nothing]
  /\ flush = [n \in Answer |-> NoFlush]
  /\ clear = "no" /\ clears = 0
  /\ saved = [e \in Env |-> Nothing] /\ intact = TRUE

-----------------------------------------------------------------------------
(* The stores *)

Cached(e) == IF pending[e] # NoEntry THEN pending[e].answer ELSE file[e]

\* loadResponse, before it looks at the age of the entry.
Stored(e) == IF persistent THEN Cached(e) ELSE cache[e]

\* loadResponse: an entry past its optimistic time is not used. (The memory cache
\* also drops it, which later loads cannot tell.)
loadResponse(e) == IF Stored(e) # Nothing /\ age[Stored(e)] # "expired" THEN Stored(e) ELSE Nothing

\* queueDNSCacheSave: the answer replaces the pending one; a goroutine is started
\* to write it unless one is at work for this key.
queueDNSCacheSave(e, n) ==
  /\ pending' = [pending EXCEPT ![e] = [answer |-> n, sequence |-> @.sequence + 1]]
  /\ flush' = IF pending[e] = NoEntry
              THEN [flush EXCEPT ![n] = [at |-> "read", key |-> e, entry |-> NoEntry]] ELSE flush

storeCache(e, n) ==
  /\ saved' = [saved EXCEPT ![e] = n]
  /\ IF persistent
     THEN queueDNSCacheSave(e, n) /\ UNCHANGED cache
     ELSE cache' = [cache EXCEPT ![e] = n] /\ UNCHANGED <<pending, flush>>
  /\ UNCHANGED <<file, clear, clears, intact>>

\* An answer without a time to live is not stored.
storeOrNot(e, n) == storeCache(e, n) \/ UNCHANGED storeVars

\* Mutant: the network is not looked at again.
finishCacheKey_unchecked(k) == TRUE

\* Whether an answer asked under key k may be stored, under the environment of now.
finishCacheKey(k) == environment = k \/ k = 0

-----------------------------------------------------------------------------
(* A query: Exchange, ExchangeAsync, beginExchange, finishExchange *)

Move(q, s) == pc' = [pc EXCEPT ![q] = s]

newCacheKey(q) ==
  /\ key' = [key EXCEPT ![q] = environment]
  /\ since' = [since EXCEPT ![q] = changes]

\* Mutant: the channel is left in the map, open.
release_never(q) == UNCHANGED <<cacheLock, closed>>

\* operation.release: the one that owns the channel takes it out and closes it.
release(q) ==
  LET mine == {e \in Env : cacheLock[e] = q} IN
    /\ cacheLock' = [e \in Env |-> IF e \in mine THEN None ELSE cacheLock[e]]
    /\ closed' = IF mine # {} THEN closed \cup {q} ELSE closed

\* The key, and the channel of the query that is already asking under it.
Begin(q) ==
  /\ pc[q] = "idle"
  /\ newCacheKey(q)
  /\ LET k == environment IN
       IF cacheLock[k] = None
       THEN cacheLock' = [cacheLock EXCEPT ![k] = q] /\ Move(q, "own") /\ UNCHANGED cond
       ELSE cond' = [cond EXCEPT ![q] = cacheLock[k]] /\ Move(q, "found") /\ UNCHANGED cacheLock
  /\ UNCHANGED <<async, response, netVars, closed, refresh, storeVars>>

Loading(q) == pc[q] \in {"own", "found", "woken"}

\* backgroundRefreshDNS, at most one for each key.
backgroundRefreshDNS(k, read) ==
  refresh' = [refresh EXCEPT ![k] =
    IF @ = NoRefresh THEN [at |-> "asking", answer |-> Nothing, since |-> read] ELSE @]

usable(q, k) == LET n == loadResponse(k) IN n # Nothing /\ (age[n] = "fresh" \/ q \notin Strict)

\* The answer of the cache under key k is returned, a stale one refreshed as well.
serve(q, k, read) ==
  LET n == loadResponse(k) IN
    /\ response' = [response EXCEPT ![q] = n]
    /\ IF age[n] = "stale" THEN backgroundRefreshDNS(k, read) ELSE UNCHANGED refresh

\* Lookup looks into the cache before it calls Exchange.
QuestionCache(q) ==
  /\ pc[q] = "idle"
  /\ usable(q, environment)
  /\ serve(q, environment, changes)
  /\ Move(q, "done")
  /\ UNCHANGED <<async, key, since, cond, netVars, cacheLock, closed, storeVars>>

Hit(q) ==
  /\ Loading(q)
  /\ usable(q, key[q])
  /\ serve(q, key[q], since[q])
  /\ release(q)
  /\ Move(q, "done")
  /\ UNCHANGED <<async, key, since, cond, netVars, storeVars>>

\* Nothing in the cache: the query asks, waits for the one that does, or, started by
\* ExchangeAsync, begins again in a goroutine of its own, which may wait.
Miss(q) ==
  /\ Loading(q)
  /\ ~usable(q, key[q])
  /\ \/ pc[q] # "found" /\ Move(q, "asking") /\ UNCHANGED async
     \/ pc[q] = "found" /\ q \notin async /\ Move(q, "wait") /\ UNCHANGED async
     \/ pc[q] = "found" /\ q \in async /\ Move(q, "idle") /\ async' = async \ {q}
  /\ UNCHANGED <<key, since, cond, response, netVars, lockVars, storeVars>>

\* The channel is closed; the key is read again, and the cache once more.
Woken(q) ==
  /\ pc[q] = "wait"
  /\ cond[q] \in closed
  /\ newCacheKey(q)
  /\ Move(q, "woken")
  /\ UNCHANGED <<async, cond, response, netVars, lockVars, storeVars>>

\* The context of a waiting query ends.
GiveUp(q) ==
  /\ pc[q] = "wait"
  /\ Move(q, "done")
  /\ UNCHANGED <<async, key, since, cond, response, netVars, lockVars, storeVars>>

\* The next answer of the transport. (A query is answered once, and so is the refresh it
\* starts: Answer is never used up.)
nextAnswer(n) == origin[n] = None /\ \A m \in 1..(n - 1) : origin[m] # None

\* The transport answers over the network of that moment.
Answered(q) ==
  /\ pc[q] = "asking"
  /\ \E n \in Answer : /\ nextAnswer(n)
                      /\ response' = [response EXCEPT ![q] = n]
                      /\ origin' = [origin EXCEPT ![n] = environment]
  /\ Move(q, "finish")
  /\ UNCHANGED <<async, key, since, cond, persistent, environment, changes, age,
                 lockVars, storeVars>>

\* Or the query fails, in the end by its timeout.
Failed(q) ==
  /\ pc[q] = "asking"
  /\ Move(q, "release")
  /\ UNCHANGED <<async, key, since, cond, response, netVars, lockVars, storeVars>>

\* finishExchange stores the answer unless the network has changed, then the channel
\* is closed.
Finish(q) ==
  /\ pc[q] = "finish"
  /\ IF finishCacheKey(key[q]) THEN storeOrNot(environment, response[q]) ELSE UNCHANGED storeVars
  /\ Move(q, "release")
  /\ UNCHANGED <<async, key, since, cond, response, netVars, lockVars>>

Release(q) ==
  /\ pc[q] = "release"
  /\ release(q)
  /\ Move(q, "done")
  /\ UNCHANGED <<async, key, since, cond, response, netVars, refresh, storeVars>>

-----------------------------------------------------------------------------
(* The refresh of a stale answer *)

RefreshAnswered(e) ==
  /\ refresh[e].at = "asking"
  /\ \E n \in Answer : /\ nextAnswer(n)
                      /\ refresh' = [refresh EXCEPT ![e].at = "answered", ![e].answer = n]
                      /\ origin' = [origin EXCEPT ![n] = environment]
  /\ UNCHANGED <<queryVars, persistent, environment, changes, age, cacheLock, closed, storeVars>>

RefreshFailed(e) ==
  /\ refresh[e].at = "asking"
  /\ refresh' = [refresh EXCEPT ![e] = NoRefresh]
  /\ UNCHANGED <<queryVars, netVars, cacheLock, closed, storeVars>>

RefreshDone(e) ==
  /\ refresh[e].at = "answered"
  /\ refresh' = [refresh EXCEPT ![e] = NoRefresh]
  /\ IF finishCacheKey(e) THEN storeOrNot(environment, refresh[e].answer) ELSE UNCHANGED storeVars
  /\ UNCHANGED <<queryVars, netVars, cacheLock, closed>>

-----------------------------------------------------------------------------
(* The cache file: flushPendingDNSCacheWith, ClearDNSCache, cleanupDNSCache *)

FlushAt(n, s) == flush[n].at = s
FlushTo(n, s) == flush' = [flush EXCEPT ![n].at = s]

\* The pending entry is read; without one the goroutine ends.
FlushRead(n) ==
  /\ FlushAt(n, "read")
  /\ LET k == flush[n].key IN
       flush' = [flush EXCEPT ![n] =
         IF pending[k] = NoEntry THEN NoFlush
         ELSE [at |-> "save", key |-> k, entry |-> pending[k]]]
  /\ UNCHANGED <<queryVars, netVars, lockVars, cache, pending, file, clear, clears, saved, intact>>

\* It is written to the file, or the transaction fails.
FlushSave(n) ==
  /\ FlushAt(n, "save")
  /\ \/ file' = [file EXCEPT ![flush[n].key] = flush[n].entry.answer] /\ UNCHANGED intact
     \/ intact' = FALSE /\ UNCHANGED file
  /\ FlushTo(n, "end")
  /\ UNCHANGED <<queryVars, netVars, lockVars, cache, pending, clear, clears, saved>>

\* Mutant: the entry is dropped whatever has been queued since.
superseded_never(k, entry) == FALSE

\* A newer answer was queued while this one was being written.
superseded(k, entry) == pending[k].sequence # entry.sequence

\* The entry is no longer pending, unless it has been replaced: then it is written again.
FlushEnd(n) ==
  /\ FlushAt(n, "end")
  /\ LET k == flush[n].key IN
       \/ /\ pending[k] = NoEntry
          /\ FlushTo(n, "none")
          /\ UNCHANGED pending
       \/ /\ pending[k] # NoEntry
          /\ superseded(k, flush[n].entry)
          /\ FlushTo(n, "read")
          /\ UNCHANGED pending
       \/ /\ pending[k] # NoEntry
          /\ ~superseded(k, flush[n].entry)
          /\ pending' = [pending EXCEPT ![k] = NoEntry]
          /\ FlushTo(n, "none")
  /\ UNCHANGED <<queryVars, netVars, lockVars, cache, file, clear, clears, saved, intact>>

\* ClearCache: the memory cache is emptied, the pending entries are dropped, ...
ClearCache ==
  /\ clear = "no"
  /\ clears < MaxClears
  /\ clears' = clears + 1
  /\ intact' = FALSE
  /\ cache' = [e \in Env |-> Nothing]
  /\ IF persistent
     THEN pending' = [e \in Env |-> NoEntry] /\ clear' = "batch"
     ELSE UNCHANGED <<pending, clear>>
  /\ UNCHANGED <<queryVars, netVars, lockVars, file, flush, saved>>

\* ... then the bucket is deleted in a transaction.
ClearFile ==
  /\ clear = "batch"
  /\ clear' = "no"
  /\ file' = [e \in Env |-> Nothing]
  /\ UNCHANGED <<queryVars, netVars, lockVars, cache, pending, flush, clears, saved, intact>>

\* Entries past their optimistic time are deleted from the file.
CleanupDNSCache ==
  /\ persistent
  /\ \E e \in Env : file[e] # Nothing /\ age[file[e]] = "expired"
  /\ file' = [e \in Env |-> IF file[e] # Nothing /\ age[file[e]] = "expired" THEN Nothing ELSE file[e]]
  /\ UNCHANGED <<queryVars, netVars, lockVars, cache, pending, flush, clear, clears, saved, intact>>

-----------------------------------------------------------------------------
(* Around them: the network and the time *)

ChangeEnvironment ==
  /\ changes < MaxChanges
  /\ \E e \in Known \ {environment} : environment' = e
  /\ changes' = changes + 1
  /\ UNCHANGED <<queryVars, persistent, origin, age, lockVars, storeVars>>

Expire(n) ==
  /\ \E e \in Env : n \in {cache[e], pending[e].answer, file[e]}
  /\ age[n] # "expired"
  /\ age' = [age EXCEPT ![n] = IF @ = "fresh" THEN "stale" ELSE "expired"]
  /\ UNCHANGED <<queryVars, persistent, environment, changes, origin, lockVars, storeVars>>

-----------------------------------------------------------------------------

Run(q) ==
  \/ QuestionCache(q) \/ Begin(q) \/ Hit(q) \/ Miss(q) \/ Woken(q)
  \/ Answered(q) \/ Failed(q) \/ Finish(q) \/ Release(q)

Refreshing == \E e \in Env : RefreshAnswered(e) \/ RefreshFailed(e) \/ RefreshDone(e)

Flushing(n) == FlushRead(n) \/ FlushSave(n) \/ FlushEnd(n)

Next ==
  \/ \E q \in Query : Run(q) \/ GiveUp(q)
  \/ Refreshing
  \/ \E n \in Answer : Flushing(n) \/ Expire(n)
  \/ ClearCache \/ ClearFile \/ CleanupDNSCache \/ ChangeEnvironment

\* Goroutines run, and a transport answers or times out. A waiting query need not give up.
Fairness == WF_vars((\E q \in Query : Run(q)) \/ \E n \in Answer : Flushing(n))

Spec == Init /\ [][Next]_vars /\ Fairness

-----------------------------------------------------------------------------
(* Properties *)

\* The write-behind cache behaves like one that writes at once: until something is cleared
\* or a save fails, what is loaded under a key is the last answer stored under it, at
\* every moment of the flush (or nothing, once that answer has expired).
LastStoreIsServed ==
  intact => \A e \in Env :
    \/ Stored(e) = saved[e]
    \/ Stored(e) = Nothing /\ age[saved[e]] = "expired"

\* An answer found under the key of a network came over that network: a query during which
\* the network changed does not store what it got (finishCacheKey), unless the network was
\* not known when it began, or is back by the time it ends.
StoredUnderItsNetwork ==
  [][ \A e \in Env : saved'[e] # saved[e] /\ origin[saved'[e]] # e =>
        \/ \E q \in Query : response[q] = saved'[e] /\ (key[q] = 0 \/ changes >= since[q] + 2)
        \/ \E k \in Env : refresh[k].answer = saved'[e] /\ (k = 0 \/ changes >= refresh[k].since + 2) ]_vars

\* Every query ends without its context having to: the one that owns a channel closes it on
\* every way out. And what waits to be saved is saved: no pending entry is left behind by
\* the goroutine that was to write it.
CallsAndSavesEnd ==
  <>[](/\ \A q \in Query : pc[q] = "done"
       /\ \A e \in Env : pending[e] = NoEntry)
=============================================================================
