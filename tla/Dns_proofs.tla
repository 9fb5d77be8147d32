----------------------------- MODULE Dns_proofs -----------------------------
(***************************************************************************)
(* Proofs about the DNS side of the core: DnsCache for any number of       *)
(* queries, networks, changes and clears (the write-behind cache serves    *)
(* the last answer that was stored, at every moment of its flush, and an   *)
(* answer is stored under the key of the network it came over), and        *)
(* DnsRuleWalk for any lists of valid rules (rules decide in the order     *)
(* they are listed in although their queries run concurrently, each with   *)
(* the options listed before it, and no wake-up is lost). The two modules  *)
(* share no variable: the first part is about the cache, the second about  *)
(* the router.                                                             *)
(***************************************************************************)
EXTENDS DnsCache, DnsRuleWalk, FiniteSetTheorems, SequenceTheorems, TLAPS

-----------------------------------------------------------------------------
(* The cache: the inductive invariant. *)

\* An answer is stored at most once: the query or the refresh that has it keeps it for
\* itself until then, and no goroutine is writing it.
Holds(q) == pc[q] = "finish"
Answers(e) == refresh[e].at = "answered"
Unwritten(n) == n \in Answer /\ origin[n] # None /\ flush[n].at = "none"

AnswerInv ==
  /\ \A q \in Query : Holds(q) => Unwritten(response[q])
  /\ \A e \in Env : Answers(e) => Unwritten(refresh[e].answer)
  /\ \A p, q \in Query : Holds(p) /\ Holds(q) /\ response[p] = response[q] => p = q
  /\ \A d, e \in Env : Answers(d) /\ Answers(e) /\ refresh[d].answer = refresh[e].answer => d = e
  /\ \A q \in Query, e \in Env : Holds(q) /\ Answers(e) => response[q] # refresh[e].answer
  /\ \A n \in Answer : origin[n] = None => flush[n].at = "none"

\* What is known of the network since a key was read: it has changed if it is another
\* one now, ...
Seen(k, read) == read <= changes /\ (environment # k => changes >= read + 1)

\* ... and twice if an answer came over another one and it is the same now.
SeenBy(n, k, read) ==
  origin[n] # k => changes >= read + 1 /\ (environment = k => changes >= read + 2)

NetworkInv ==
  /\ \A q \in Query :
       /\ pc[q] \notin {"idle", "done"} => Seen(key[q], since[q])
       /\ Holds(q) => SeenBy(response[q], key[q], since[q])
  /\ \A e \in Env :
       /\ refresh[e].at # "none" => Seen(e, refresh[e].since)
       /\ Answers(e) => SeenBy(refresh[e].answer, e, refresh[e].since)

\* The file holds an answer under a key, or has dropped it once it had expired.
Written(e, a) == file[e] = a \/ (file[e] = Nothing /\ age[a] = "expired")

Flushes(n, e) == flush[n].at # "none" /\ flush[n].key = e

\* While nothing was cleared and no save has failed. One goroutine writes for a key, as
\* long as an answer is pending under it; what it has read is what is pending, or older.
MemoryInv == intact /\ ~persistent => \A e \in Env : cache[e] = saved[e]

PendingInv ==
  intact /\ persistent => \A e \in Env :
    /\ pending[e] # NoEntry => pending[e].answer = saved[e]
    /\ pending[e] = NoEntry => Written(e, saved[e]) /\ \A n \in Answer : ~Flushes(n, e)

FlushInv ==
  intact /\ persistent => \A n \in Answer :
    /\ \A m \in Answer, e \in Env : Flushes(n, e) /\ Flushes(m, e) => n = m
    /\ flush[n].at \in {"save", "end"} =>
         LET k == flush[n].key IN
           /\ flush[n].entry.sequence <= pending[k].sequence
           /\ flush[n].entry.sequence = pending[k].sequence =>
                flush[n].entry.answer = pending[k].answer
    /\ flush[n].at = "end" => Written(flush[n].key, flush[n].entry.answer)

ClearInv == clear = "batch" => ~intact

StoreInv == MemoryInv /\ PendingInv /\ FlushInv /\ ClearInv

IInv == TypeOK /\ AnswerInv /\ NetworkInv /\ StoreInv

-----------------------------------------------------------------------------
(* What the proofs need to know of the constants. *)

\* Answers are numbers from 1, so Nothing is none of them.
LEMMA AnswerFacts == Answer \subseteq Nat \ {0} /\ Nothing = 0
<1>1. Cardinality(Query) \in Nat
  BY QueryAssumption, FS_CardinalityType
<1> QED BY <1>1 DEF Answer, Nothing

\* Networks are numbers, and None is none of them.
LEMMA EnvFacts ==
  /\ Env \subseteq Nat /\ 0 \in Env /\ Known \subseteq Env /\ Initial \subseteq Env
  /\ None \notin Env /\ None \notin Query /\ Async \subseteq Query
  /\ MaxChanges \in Nat /\ MaxClears \in Nat
BY KnownAssumption, BoundAssumption, QueryAssumption DEF Env

-----------------------------------------------------------------------------
(* Every step preserves the invariant. *)

\* What the cache gives is an answer or Nothing.
LEMMA LoadType ==
  ASSUME TypeOK, NEW e \in Env
  PROVE  loadResponse(e) \in Answer \cup {Nothing}
BY DEF TypeOK, loadResponse, Stored, Cached, Entry

RefreshType == [at : {"none", "asking", "answered"}, answer : Answer \cup {Nothing},
                since : 0..MaxChanges]
FlushType == [at : {"none", "read", "save", "end"}, key : Env, entry : Entry]

\* The records that stand for nothing have the types of the others.
LEMMA NoneType == NoRefresh \in RefreshType /\ NoEntry \in Entry /\ NoFlush \in FlushType
BY EnvFacts, AnswerFacts DEF NoRefresh, NoEntry, NoFlush, RefreshType, FlushType, Entry

\* A query that is served from the cache starts at most the refresh of its key.
LEMMA ServeEffect ==
  ASSUME TypeOK, NEW q \in Query, NEW k \in Env, NEW read \in 0..MaxChanges, serve(q, k, read)
  PROVE  /\ response' \in [Query -> Answer \cup {Nothing}]
         /\ \A p \in Query \ {q} : response'[p] = response[p]
         /\ refresh' \in [Env -> RefreshType]
         /\ \A e \in Env : \/ refresh'[e] = refresh[e]
                          \/ /\ e = k /\ refresh'[e].at = "asking" /\ refresh'[e].since = read
<1>1. /\ response' \in [Query -> Answer \cup {Nothing}]
      /\ \A p \in Query \ {q} : response'[p] = response[p]
  BY LoadType DEF serve, TypeOK
<1>2. refresh \in [Env -> RefreshType]
  BY DEF TypeOK, RefreshType
<1>3. CASE refresh' = refresh
  BY <1>1, <1>2, <1>3
<1>4. CASE refresh' # refresh
  <2> DEFINE r == [at |-> "asking", answer |-> Nothing, since |-> read]
  <2>1. refresh' = [refresh EXCEPT ![k] = IF refresh[k] = NoRefresh THEN r ELSE refresh[k]]
    BY <1>2, <1>4 DEF serve, backgroundRefreshDNS
  <2>2. r \in RefreshType /\ r.at = "asking" /\ r.since = read
    BY DEF RefreshType
  <2> HIDE DEF r
  <2>3. refresh' \in [Env -> RefreshType]
    BY <1>2, <2>1, <2>2
  <2> QED BY <1>1, <1>2, <2>1, <2>2, <2>3
<1> QED BY <1>3, <1>4

\* Storing an answer under a key: what becomes of the two caches and of the goroutines.
LEMMA StoreEffect ==
  ASSUME TypeOK, NEW e \in Env, NEW n \in Answer, storeCache(e, n)
  PROVE  /\ saved' = [saved EXCEPT ![e] = n]
         /\ UNCHANGED <<file, clear, clears, intact>>
         /\ ~persistent => cache' = [cache EXCEPT ![e] = n] /\ UNCHANGED <<pending, flush>>
         /\ persistent =>
              /\ UNCHANGED cache
              /\ pending'[e].answer = n /\ pending'[e].sequence = pending[e].sequence + 1
              /\ \A d \in Env \ {e} : pending'[d] = pending[d]
              /\ \A m \in Answer \ {n} : flush'[m] = flush[m]
              /\ pending[e] # NoEntry => flush' = flush
              /\ pending[e] = NoEntry => flush'[n].at = "read" /\ flush'[n].key = e
         /\ saved' \in [Env -> Answer \cup {Nothing}] /\ cache' \in [Env -> Answer \cup {Nothing}]
         /\ pending' \in [Env -> Entry] /\ flush' \in [Answer -> FlushType]
<1>1. /\ saved \in [Env -> Answer \cup {Nothing}] /\ cache \in [Env -> Answer \cup {Nothing}]
      /\ pending \in [Env -> Entry] /\ flush \in [Answer -> FlushType]
  BY DEF TypeOK, FlushType
<1>2. /\ saved' = [saved EXCEPT ![e] = n] /\ saved' \in [Env -> Answer \cup {Nothing}]
      /\ UNCHANGED <<file, clear, clears, intact>>
  BY <1>1 DEF storeCache
<1>3. CASE ~persistent
  BY <1>1, <1>2, <1>3 DEF storeCache
<1>4. CASE persistent
  <2>1. queueDNSCacheSave(e, n) /\ UNCHANGED cache
    BY <1>4 DEF storeCache
  <2> DEFINE new == [answer |-> n, sequence |-> pending[e].sequence + 1]
             fl == [at |-> "read", key |-> e, entry |-> NoEntry]
  <2>2. new \in Entry /\ new.answer = n /\ new.sequence = pending[e].sequence + 1
    BY <1>1 DEF Entry
  <2>3. fl \in FlushType /\ fl.at = "read" /\ fl.key = e
    BY NoneType DEF FlushType
  <2>4. pending' = [pending EXCEPT ![e] = new]
    BY <1>1, <2>1 DEF queueDNSCacheSave
  <2>5. flush' = IF pending[e] = NoEntry THEN [flush EXCEPT ![n] = fl] ELSE flush
    BY <2>1 DEF queueDNSCacheSave
  <2> HIDE DEF new, fl
  <2>6. pending' \in [Env -> Entry] /\ flush' \in [Answer -> FlushType]
    BY <1>1, <2>2, <2>3, <2>4, <2>5
  <2>7. /\ pending'[e] = new /\ \A d \in Env \ {e} : pending'[d] = pending[d]
        /\ \A m \in Answer \ {n} : flush'[m] = flush[m]
        /\ pending[e] # NoEntry => flush' = flush
        /\ pending[e] = NoEntry => flush'[n] = fl
    BY <1>1, <2>4, <2>5
  <2> QED BY <1>1, <1>2, <1>4, <2>1, <2>2, <2>3, <2>6, <2>7
<1> QED BY <1>3, <1>4

\* Types.
LEMMA TypeOKStep ==
  ASSUME IInv, [Next]_vars
  PROVE  TypeOK'
<1> USE AnswerFacts, EnvFacts DEF TypeOK, AnswerInv, Holds, Answers, Unwritten, Entry, NoEntry,
       NoRefresh, NoFlush, queryVars, netVars, lockVars, storeVars
<1>0. TypeOK /\ AnswerInv
  BY DEF IInv
<1>1. CASE UNCHANGED vars
  BY <1>0, <1>1 DEF vars
<1>2. ASSUME NEW q \in Query, QuestionCache(q) PROVE TypeOK'
  <2>1. environment \in Env /\ changes \in 0..MaxChanges /\ serve(q, environment, changes)
    BY <1>0, <1>2 DEF QuestionCache
  <2>2. /\ response' \in [Query -> Answer \cup {Nothing}]
        /\ \A p \in Query \ {q} : response'[p] = response[p]
        /\ refresh' \in [Env -> RefreshType]
        /\ \A e \in Env : \/ refresh'[e] = refresh[e]
                         \/ /\ e = environment /\ refresh'[e].at = "asking" /\ refresh'[e].since = changes
    BY <1>0, <2>1, ServeEffect
  <2> QED BY <1>0, <1>2, <2>2 DEF QuestionCache, Move, RefreshType
<1>3. ASSUME NEW q \in Query, Begin(q) PROVE TypeOK'
  <2>1. key' \in [Query -> Env] /\ since' \in [Query -> 0..MaxChanges]
    BY <1>0, <1>3 DEF Begin, newCacheKey
  <2>2. /\ cacheLock' \in {cacheLock, [cacheLock EXCEPT ![environment] = q]}
        /\ cond' \in {cond, [cond EXCEPT ![q] = cacheLock[environment]]}
        /\ pc' \in {[pc EXCEPT ![q] = "own"], [pc EXCEPT ![q] = "found"]}
    BY <1>3 DEF Begin, Move
  <2>3. cacheLock' \in [Env -> Query \cup {None}]
    BY <1>0, <2>2
  <2>5. cond' \in [Query -> Query \cup {None}]
    <3>1. cacheLock[environment] \in Query \cup {None}
      BY <1>0
    <3> QED BY <1>0, <2>2, <3>1
  <2>4. pc' \in [Query -> {"idle", "own", "found", "woken", "wait", "asking", "finish", "release", "done"}]
    BY <1>0, <2>2
  <2> QED BY <1>0, <1>3, <2>1, <2>3, <2>4, <2>5 DEF Begin
<1>4. ASSUME NEW q \in Query, Hit(q) PROVE TypeOK'
  <2>a. key[q] \in Env /\ since[q] \in 0..MaxChanges
    BY <1>0
  <2>0. PICK k \in Env, read \in 0..MaxChanges : k = key[q] /\ read = since[q]
    BY <2>a
  <2>1. serve(q, k, read)
    BY <1>4, <2>0 DEF Hit, serve, backgroundRefreshDNS
  <2>2. /\ response' \in [Query -> Answer \cup {Nothing}]
        /\ \A p \in Query \ {q} : response'[p] = response[p]
        /\ refresh' \in [Env -> RefreshType]
        /\ \A e \in Env : \/ refresh'[e] = refresh[e]
                         \/ /\ e = k /\ refresh'[e].at = "asking" /\ refresh'[e].since = read
    BY <1>0, <2>1, ServeEffect
  <2>3. cacheLock' \in [Env -> Query \cup {None}] /\ closed' \subseteq Query
    BY <1>0, <1>4 DEF Hit, release
  <2> QED BY <1>0, <1>4, <2>2, <2>3 DEF Hit, Move, RefreshType
<1>5. ASSUME NEW q \in Query, Miss(q) PROVE TypeOK'
  BY <1>0, <1>5 DEF Miss, Loading, Move
<1>6. ASSUME NEW q \in Query, Woken(q) PROVE TypeOK'
  BY <1>0, <1>6 DEF Woken, newCacheKey, Move
<1>7. ASSUME NEW q \in Query, Answered(q) PROVE TypeOK'
  BY <1>0, <1>7 DEF Answered, nextAnswer, Move
<1>8. ASSUME NEW q \in Query, Failed(q) PROVE TypeOK'
  BY <1>0, <1>8 DEF Failed, Move
<1>9. ASSUME NEW q \in Query, Finish(q) PROVE TypeOK'
  <2>1. PICK n \in Answer : n = response[q] /\ environment \in Env /\ pc[q] = "finish"
    BY <1>0, <1>9 DEF Finish
  <2>2. storeCache(environment, n) \/ UNCHANGED storeVars
    BY <1>9, <2>1 DEF Finish, storeOrNot, storeCache, queueDNSCacheSave
  <2>3. CASE storeCache(environment, n)
    <3>1. /\ saved' \in [Env -> Answer \cup {Nothing}] /\ cache' \in [Env -> Answer \cup {Nothing}]
          /\ pending' \in [Env -> Entry] /\ flush' \in [Answer -> FlushType]
          /\ UNCHANGED <<file, clear, clears, intact>>
      BY <1>0, <2>1, <2>3, StoreEffect
    <3> QED BY <1>0, <1>9, <3>1 DEF Finish, Move, FlushType
  <2>4. CASE UNCHANGED storeVars
    BY <1>0, <1>9, <2>4 DEF Finish, Move
  <2> QED BY <2>2, <2>3, <2>4
<1>10. ASSUME NEW q \in Query, Release(q) PROVE TypeOK'
  BY <1>0, <1>10 DEF Release, release, Move
<1>11. ASSUME NEW q \in Query, GiveUp(q) PROVE TypeOK'
  BY <1>0, <1>11 DEF GiveUp, Move
<1>12. ASSUME NEW e \in Env, RefreshAnswered(e) PROVE TypeOK'
  <2>1. PICK n \in Answer : /\ refresh' = [refresh EXCEPT ![e].at = "answered", ![e].answer = n]
                           /\ origin' = [origin EXCEPT ![n] = environment]
    BY <1>12 DEF RefreshAnswered
  <2>2. origin' \in [Answer -> Env \cup {None}]
    BY <1>0, <2>1
  <2> DEFINE r == [refresh[e] EXCEPT !.at = "answered", !.answer = n]
  <2>3. refresh' = [refresh EXCEPT ![e] = r]
    BY <2>1
  <2>4. r \in RefreshType
    <3>1. refresh[e] \in RefreshType
      BY <1>0 DEF RefreshType
    <3> QED BY <3>1 DEF RefreshType
  <2> HIDE DEF r
  <2>5. refresh' \in [Env -> RefreshType]
    BY <1>0, <2>3, <2>4 DEF RefreshType
  <2> QED BY <1>0, <1>12, <2>2, <2>5 DEF RefreshAnswered, RefreshType
<1>13. ASSUME NEW e \in Env, RefreshFailed(e) PROVE TypeOK'
  BY <1>0, <1>13 DEF RefreshFailed
<1>14. ASSUME NEW e \in Env, RefreshDone(e) PROVE TypeOK'
  <2>1. PICK n \in Answer : n = refresh[e].answer /\ environment \in Env /\ refresh[e].at = "answered"
    BY <1>0, <1>14 DEF RefreshDone
  <2>2. storeCache(environment, n) \/ UNCHANGED storeVars
    BY <1>14, <2>1 DEF RefreshDone, storeOrNot, storeCache, queueDNSCacheSave
  <2>3. refresh' = [refresh EXCEPT ![e] = NoRefresh] /\ NoRefresh \in RefreshType /\ NoRefresh.at = "none"
    BY <1>14, NoneType DEF RefreshDone, NoRefresh
  <2>4. refresh' \in [Env -> RefreshType]
    BY <1>0, <2>3 DEF RefreshType
  <2>5. CASE storeCache(environment, n)
    <3>1. /\ saved' \in [Env -> Answer \cup {Nothing}] /\ cache' \in [Env -> Answer \cup {Nothing}]
          /\ pending' \in [Env -> Entry] /\ flush' \in [Answer -> FlushType]
          /\ UNCHANGED <<file, clear, clears, intact>>
      BY <1>0, <2>1, <2>5, StoreEffect
    <3> QED BY <1>0, <1>14, <2>4, <3>1 DEF RefreshDone, FlushType, RefreshType
  <2>6. CASE UNCHANGED storeVars
    BY <1>0, <1>14, <2>4, <2>6 DEF RefreshDone, RefreshType
  <2> QED BY <2>2, <2>5, <2>6
<1>15. ASSUME NEW n \in Answer, FlushRead(n) PROVE TypeOK'
  <2> DEFINE k == flush[n].key
             f == IF pending[k] = NoEntry THEN NoFlush
                  ELSE [at |-> "save", key |-> k, entry |-> pending[k]]
  <2>1. flush' = [flush EXCEPT ![n] = f]
    BY <1>15 DEF FlushRead
  <2>2. k \in Env /\ pending[k] \in Entry
    BY <1>0
  <2>3. f \in FlushType
    BY <2>2, NoneType DEF FlushType
  <2> HIDE DEF f
  <2>4. flush' \in [Answer -> FlushType]
    BY <1>0, <2>1, <2>3 DEF FlushType
  <2> QED BY <1>0, <1>15, <2>4 DEF FlushRead, FlushType
<1>16. ASSUME NEW n \in Answer, FlushSave(n) PROVE TypeOK'
  <2>1. PICK s \in {"none", "read", "save", "end"} : flush' = [flush EXCEPT ![n].at = s]
    BY <1>16 DEF FlushSave, FlushTo
  <2> DEFINE f == [flush[n] EXCEPT !.at = s]
  <2>2. flush' = [flush EXCEPT ![n] = f]
    BY <1>0, <2>1
  <2>3. f \in FlushType
    <3>1. flush[n] \in FlushType
      BY <1>0 DEF FlushType
    <3> QED BY <3>1 DEF FlushType
  <2> HIDE DEF f
  <2>4. flush' \in [Answer -> FlushType]
    BY <1>0, <2>2, <2>3 DEF FlushType
  <2>5. flush[n].key \in Env /\ flush[n].entry.answer \in Answer \cup {Nothing}
    BY <1>0
  <2>6. file' \in [Env -> Answer \cup {Nothing}]
    <3>1. file' \in {file, [file EXCEPT ![flush[n].key] = flush[n].entry.answer]}
      BY <1>16 DEF FlushSave
    <3> QED BY <1>0, <2>5, <3>1
  <2>7. intact' \in BOOLEAN
    BY <1>0, <1>16 DEF FlushSave
  <2> QED BY <1>0, <1>16, <2>4, <2>6, <2>7 DEF FlushSave, FlushType
<1>17. ASSUME NEW n \in Answer, FlushEnd(n) PROVE TypeOK'
  <2>1. PICK s \in {"none", "read", "save", "end"} : flush' = [flush EXCEPT ![n].at = s]
    BY <1>17 DEF FlushEnd, FlushTo
  <2> DEFINE f == [flush[n] EXCEPT !.at = s]
  <2>2. flush' = [flush EXCEPT ![n] = f]
    BY <1>0, <2>1
  <2>3. f \in FlushType
    <3>1. flush[n] \in FlushType
      BY <1>0 DEF FlushType
    <3> QED BY <3>1 DEF FlushType
  <2> HIDE DEF f
  <2>4. flush' \in [Answer -> FlushType]
    BY <1>0, <2>2, <2>3 DEF FlushType
  <2>5. pending' = pending \/ pending' = [pending EXCEPT ![flush[n].key] = NoEntry]
    BY <1>17 DEF FlushEnd
  <2>6. pending' \in [Env -> Entry]
    BY <1>0, <2>5, NoneType
  <2> QED BY <1>0, <1>17, <2>4, <2>6 DEF FlushEnd, FlushType
<1>18. ASSUME NEW n \in Answer, Expire(n) PROVE TypeOK'
  BY <1>0, <1>18 DEF Expire
<1>19. CASE ClearCache
  <2>1. pending' \in [Env -> Entry]
    BY <1>0, <1>19, NoneType DEF ClearCache
  <2>2. clears' \in 0..MaxClears /\ clear' \in {"no", "batch"}
    BY <1>0, <1>19 DEF ClearCache
  <2>3. cache' \in [Env -> Answer \cup {Nothing}]
    BY <1>19 DEF ClearCache
  <2> QED BY <1>0, <1>19, <2>1, <2>2, <2>3 DEF ClearCache
<1>20. CASE ClearFile
  BY <1>0, <1>20 DEF ClearFile
<1>21. CASE CleanupDNSCache
  BY <1>0, <1>21 DEF CleanupDNSCache
<1>22. CASE ChangeEnvironment
  BY <1>0, <1>22 DEF ChangeEnvironment
<1> QED BY <1>1, <1>2, <1>3, <1>4, <1>5, <1>6, <1>7, <1>8, <1>9, <1>10, <1>11, <1>12, <1>13,
           <1>14, <1>15, <1>16, <1>17, <1>18, <1>19, <1>20, <1>21, <1>22 DEF Next, Run,
           Refreshing, Flushing

\* What keeps the answers apart: only the writing of an answer nobody holds begins or ends.
LEMMA AnswerFrame ==
  ASSUME AnswerInv, NEW n \in Answer, origin[n] # None, origin' = origin,
         \A p \in Query : Holds(p)' => /\ Holds(p) /\ response'[p] = response[p]
                                       /\ response[p] # n,
         \A e \in Env : Answers(e)' => /\ Answers(e) /\ refresh'[e].answer = refresh[e].answer
                                       /\ refresh[e].answer # n,
         \A m \in Answer \ {n} : flush'[m] = flush[m]
  PROVE  AnswerInv'
<1>1. \A m \in Answer : m # n /\ Unwritten(m) => Unwritten(m)'
  BY DEF Unwritten
<1>2. \A q \in Query : Holds(q)' => Unwritten(response[q])'
  <2> SUFFICES ASSUME NEW q \in Query, Holds(q)' PROVE Unwritten(response[q])'
    OBVIOUS
  <2>1. Unwritten(response[q]) /\ response'[q] = response[q] /\ response[q] # n
    BY DEF AnswerInv
  <2> QED BY <2>1 DEF Unwritten
<1>3. \A e \in Env : Answers(e)' => Unwritten(refresh[e].answer)'
  <2> SUFFICES ASSUME NEW e \in Env, Answers(e)' PROVE Unwritten(refresh[e].answer)'
    OBVIOUS
  <2>1. Unwritten(refresh[e].answer) /\ refresh'[e].answer = refresh[e].answer /\ refresh[e].answer # n
    BY DEF AnswerInv
  <2> QED BY <2>1 DEF Unwritten
<1>4. \A m \in Answer : origin'[m] = None => flush'[m].at = "none"
  BY DEF AnswerInv
<1>5. \A p, q \in Query : Holds(p)' /\ Holds(q)' /\ response'[p] = response'[q] => p = q
  BY DEF AnswerInv
<1>6. \A d, e \in Env : Answers(d)' /\ Answers(e)' /\ refresh'[d].answer = refresh'[e].answer => d = e
  BY DEF AnswerInv
<1>7. \A q \in Query, e \in Env : Holds(q)' /\ Answers(e)' => response'[q] # refresh'[e].answer
  BY DEF AnswerInv
<1> QED BY <1>2, <1>3, <1>4, <1>5, <1>6, <1>7 DEF AnswerInv

\* The transport gives a new answer to one query or refresh, which stores it once.
LEMMA AnswerInvStep ==
  ASSUME IInv, [Next]_vars
  PROVE  AnswerInv'
<1> USE AnswerFacts, EnvFacts DEF TypeOK, AnswerInv, Holds, Answers, Unwritten, Entry, NoEntry,
       NoRefresh, NoFlush, queryVars, netVars, lockVars, storeVars
<1>0. TypeOK /\ AnswerInv
  BY DEF IInv
<1>1. CASE UNCHANGED vars
  BY <1>0, <1>1 DEF vars
<1>2. ASSUME NEW q \in Query, QuestionCache(q) PROVE AnswerInv'
  <2>1. environment \in Env /\ changes \in 0..MaxChanges /\ serve(q, environment, changes)
    BY <1>0, <1>2 DEF QuestionCache
  <2>2. /\ response' \in [Query -> Answer \cup {Nothing}]
        /\ \A p \in Query \ {q} : response'[p] = response[p]
        /\ refresh' \in [Env -> RefreshType]
        /\ \A e \in Env : \/ refresh'[e] = refresh[e]
                         \/ /\ e = environment /\ refresh'[e].at = "asking" /\ refresh'[e].since = changes
    BY <1>0, <2>1, ServeEffect
  <2> QED BY <1>0, <1>2, <2>2 DEF QuestionCache, Move
<1>3. ASSUME NEW q \in Query, Begin(q) PROVE AnswerInv'
  <2>1. pc' \in {[pc EXCEPT ![q] = "own"], [pc EXCEPT ![q] = "found"]}
    BY <1>3 DEF Begin, Move
  <2> QED BY <1>0, <1>3, <2>1 DEF Begin
<1>4. ASSUME NEW q \in Query, Hit(q) PROVE AnswerInv'
  <2>a. key[q] \in Env /\ since[q] \in 0..MaxChanges
    BY <1>0
  <2>0. PICK k \in Env, read \in 0..MaxChanges : k = key[q] /\ read = since[q]
    BY <2>a
  <2>1. serve(q, k, read)
    BY <1>4, <2>0 DEF Hit, serve, backgroundRefreshDNS
  <2>2. /\ response' \in [Query -> Answer \cup {Nothing}]
        /\ \A p \in Query \ {q} : response'[p] = response[p]
        /\ refresh' \in [Env -> RefreshType]
        /\ \A e \in Env : \/ refresh'[e] = refresh[e]
                         \/ /\ e = k /\ refresh'[e].at = "asking" /\ refresh'[e].since = read
    BY <1>0, <2>1, ServeEffect
  <2>3. \A p \in Query : Holds(p)' => Holds(p) /\ response'[p] = response[p]
    BY <1>0, <1>4, <2>2 DEF Hit, Move
  <2>4. \A e \in Env : Answers(e)' => refresh'[e] = refresh[e]
    BY <2>2
  <2>5. UNCHANGED <<origin, flush>>
    BY <1>4 DEF Hit
  <2> QED BY <1>0, <2>3, <2>4, <2>5
<1>5. ASSUME NEW q \in Query, Miss(q) PROVE AnswerInv'
  BY <1>0, <1>5 DEF Miss, Loading, Move
<1>6. ASSUME NEW q \in Query, Woken(q) PROVE AnswerInv'
  BY <1>0, <1>6 DEF Woken, newCacheKey, Move
<1>7. ASSUME NEW q \in Query, Answered(q) PROVE AnswerInv'
  BY <1>0, <1>7 DEF Answered, nextAnswer, Move
<1>8. ASSUME NEW q \in Query, Failed(q) PROVE AnswerInv'
  BY <1>0, <1>8 DEF Failed, Move
<1>9. ASSUME NEW q \in Query, Finish(q) PROVE AnswerInv'
  <2>1. PICK n \in Answer : n = response[q] /\ environment \in Env /\ pc[q] = "finish"
    BY <1>0, <1>9 DEF Finish
  <2>2. storeCache(environment, n) \/ UNCHANGED storeVars
    BY <1>9, <2>1 DEF Finish, storeOrNot, storeCache, queueDNSCacheSave
  <2>3. \A m \in Answer \ {n} : flush'[m] = flush[m]
    BY <1>0, <2>1, <2>2, StoreEffect
  <2>4. UNCHANGED <<origin, response, refresh>>
    BY <1>9 DEF Finish
  <2>5. \A p \in Query : Holds(p)' => Holds(p) /\ p # q
    BY <1>0, <1>9 DEF Finish, Move
  <2>6. /\ \A p \in Query : Holds(p)' => response[p] # n
        /\ \A d \in Env : Answers(d) => refresh[d].answer # n
        /\ origin[n] # None
    BY <1>0, <2>1, <2>5
  <2> QED BY <1>0, <2>3, <2>4, <2>5, <2>6, AnswerFrame
<1>10. ASSUME NEW q \in Query, Release(q) PROVE AnswerInv'
  BY <1>0, <1>10 DEF Release, release, Move
<1>11. ASSUME NEW q \in Query, GiveUp(q) PROVE AnswerInv'
  BY <1>0, <1>11 DEF GiveUp, Move
<1>12. ASSUME NEW e \in Env, RefreshAnswered(e) PROVE AnswerInv'
  BY <1>0, <1>12 DEF RefreshAnswered, nextAnswer
<1>13. ASSUME NEW e \in Env, RefreshFailed(e) PROVE AnswerInv'
  BY <1>0, <1>13 DEF RefreshFailed
<1>14. ASSUME NEW e \in Env, RefreshDone(e) PROVE AnswerInv'
  <2>1. PICK n \in Answer : n = refresh[e].answer /\ environment \in Env /\ refresh[e].at = "answered"
    BY <1>0, <1>14 DEF RefreshDone
  <2>2. storeCache(environment, n) \/ UNCHANGED storeVars
    BY <1>14, <2>1 DEF RefreshDone, storeOrNot, storeCache, queueDNSCacheSave
  <2>3. refresh' = [refresh EXCEPT ![e] = NoRefresh] /\ NoRefresh \in RefreshType /\ NoRefresh.at = "none"
    BY <1>14, NoneType DEF RefreshDone, NoRefresh
  <2>4. \A m \in Answer \ {n} : flush'[m] = flush[m]
    BY <1>0, <2>1, <2>2, StoreEffect
  <2>5. UNCHANGED <<origin, response, pc>>
    BY <1>14 DEF RefreshDone
  <2>6. \A d \in Env : Answers(d)' => Answers(d) /\ d # e /\ refresh'[d] = refresh[d]
    BY <1>0, <2>3
  <2>7. Answers(e) /\ origin[n] # None
    BY <1>0, <2>1
  <2>8. \A p \in Query : Holds(p) => response[p] # n
    BY <1>0, <2>1, <2>7
  <2>9. \A d \in Env : Answers(d) /\ d # e => refresh[d].answer # n
    BY <1>0, <2>1, <2>7
  <2> QED BY <1>0, <2>4, <2>5, <2>6, <2>7, <2>8, <2>9, AnswerFrame
<1>15. ASSUME NEW n \in Answer, FlushRead(n) PROVE AnswerInv'
  BY <1>0, <1>15 DEF FlushRead, FlushAt
<1>16. ASSUME NEW n \in Answer, FlushSave(n) PROVE AnswerInv'
  BY <1>0, <1>16 DEF FlushSave, FlushAt, FlushTo
<1>17. ASSUME NEW n \in Answer, FlushEnd(n) PROVE AnswerInv'
  <2>1. PICK s \in {"none", "read"} : flush' = [flush EXCEPT ![n].at = s]
    BY <1>17 DEF FlushEnd, FlushTo
  <2>2. flush[n].at = "end" /\ \A m \in Answer \ {n} : flush'[m] = flush[m]
    BY <1>0, <1>17, <2>1 DEF FlushEnd, FlushAt
  <2>3. /\ \A p \in Query : Holds(p) => response[p] # n
        /\ \A d \in Env : Answers(d) => refresh[d].answer # n
        /\ origin[n] # None
    BY <1>0, <2>2
  <2>4. UNCHANGED <<queryVars, netVars, lockVars>>
    BY <1>17 DEF FlushEnd
  <2> QED BY <1>0, <2>2, <2>3, <2>4, AnswerFrame
<1>18. ASSUME NEW n \in Answer, Expire(n) PROVE AnswerInv'
  BY <1>0, <1>18 DEF Expire
<1>19. CASE ClearCache
  BY <1>0, <1>19 DEF ClearCache
<1>20. CASE ClearFile
  BY <1>0, <1>20 DEF ClearFile
<1>21. CASE CleanupDNSCache
  BY <1>0, <1>21 DEF CleanupDNSCache
<1>22. CASE ChangeEnvironment
  BY <1>0, <1>22 DEF ChangeEnvironment
<1> QED BY <1>1, <1>2, <1>3, <1>4, <1>5, <1>6, <1>7, <1>8, <1>9, <1>10, <1>11, <1>12, <1>13,
           <1>14, <1>15, <1>16, <1>17, <1>18, <1>19, <1>20, <1>21, <1>22 DEF Next, Run,
           Refreshing, Flushing

\* Every change of the network is counted.
LEMMA NetworkInvStep ==
  ASSUME IInv, [Next]_vars
  PROVE  NetworkInv'
<1> USE AnswerFacts, EnvFacts DEF TypeOK, AnswerInv, NetworkInv, Seen, SeenBy, Holds, Answers,
       Unwritten, Entry, NoEntry, NoRefresh, NoFlush, queryVars, netVars, lockVars, storeVars
<1>0. TypeOK /\ AnswerInv /\ NetworkInv
  BY DEF IInv
<1>1. CASE UNCHANGED vars
  BY <1>0, <1>1 DEF vars
<1>2. ASSUME NEW q \in Query, QuestionCache(q) PROVE NetworkInv'
  BY <1>0, <1>2 DEF QuestionCache, usable, serve, backgroundRefreshDNS, Move
<1>3. ASSUME NEW q \in Query, Begin(q) PROVE NetworkInv'
  BY <1>0, <1>3 DEF Begin, newCacheKey, Move
<1>4. ASSUME NEW q \in Query, Hit(q) PROVE NetworkInv'
  <2>a. key[q] \in Env /\ since[q] \in 0..MaxChanges
    BY <1>0
  <2>0. PICK k \in Env, read \in 0..MaxChanges : k = key[q] /\ read = since[q]
    BY <2>a
  <2>1. serve(q, k, read)
    BY <1>4, <2>0 DEF Hit, serve, backgroundRefreshDNS
  <2>2. /\ response' \in [Query -> Answer \cup {Nothing}]
        /\ \A p \in Query \ {q} : response'[p] = response[p]
        /\ refresh' \in [Env -> RefreshType]
        /\ \A e \in Env : \/ refresh'[e] = refresh[e]
                         \/ /\ e = k /\ refresh'[e].at = "asking" /\ refresh'[e].since = read
    BY <1>0, <2>1, ServeEffect
  <2>3. Seen(k, read)
    BY <1>0, <1>4, <2>0 DEF Hit, Loading
  <2>4. \A p \in Query : pc'[p] # "done" => pc'[p] = pc[p] /\ response'[p] = response[p]
    BY <1>0, <1>4, <2>2 DEF Hit, Move
  <2>5. UNCHANGED <<key, since, origin, environment, changes>>
    BY <1>4 DEF Hit
  <2>6. \A p \in Query :
          /\ pc'[p] \notin {"idle", "done"} => Seen(key[p], since[p])'
          /\ Holds(p)' => SeenBy(response[p], key[p], since[p])'
    BY <1>0, <2>4, <2>5
  <2>7. \A e \in Env :
          /\ refresh'[e].at # "none" => Seen(e, refresh[e].since)'
          /\ Answers(e)' => SeenBy(refresh[e].answer, e, refresh[e].since)'
    BY <1>0, <2>2, <2>3, <2>5
  <2> QED BY <2>6, <2>7
<1>5. ASSUME NEW q \in Query, Miss(q) PROVE NetworkInv'
  BY <1>0, <1>5 DEF Miss, Loading, Move
<1>6. ASSUME NEW q \in Query, Woken(q) PROVE NetworkInv'
  BY <1>0, <1>6 DEF Woken, newCacheKey, Move
<1>7. ASSUME NEW q \in Query, Answered(q) PROVE NetworkInv'
  BY <1>0, <1>7 DEF Answered, nextAnswer, Move
<1>8. ASSUME NEW q \in Query, Failed(q) PROVE NetworkInv'
  BY <1>0, <1>8 DEF Failed, Move
<1>9. ASSUME NEW q \in Query, Finish(q) PROVE NetworkInv'
  BY <1>0, <1>9 DEF Finish, Move
<1>10. ASSUME NEW q \in Query, Release(q) PROVE NetworkInv'
  BY <1>0, <1>10 DEF Release, release, Move
<1>11. ASSUME NEW q \in Query, GiveUp(q) PROVE NetworkInv'
  BY <1>0, <1>11 DEF GiveUp, Move
<1>12. ASSUME NEW e \in Env, RefreshAnswered(e) PROVE NetworkInv'
  BY <1>0, <1>12 DEF RefreshAnswered, nextAnswer
<1>13. ASSUME NEW e \in Env, RefreshFailed(e) PROVE NetworkInv'
  BY <1>0, <1>13 DEF RefreshFailed
<1>14. ASSUME NEW e \in Env, RefreshDone(e) PROVE NetworkInv'
  BY <1>0, <1>14 DEF RefreshDone
<1>15. ASSUME NEW n \in Answer, FlushRead(n) PROVE NetworkInv'
  BY <1>0, <1>15 DEF FlushRead, FlushAt
<1>16. ASSUME NEW n \in Answer, FlushSave(n) PROVE NetworkInv'
  BY <1>0, <1>16 DEF FlushSave, FlushAt, FlushTo
<1>17. ASSUME NEW n \in Answer, FlushEnd(n) PROVE NetworkInv'
  BY <1>0, <1>17 DEF FlushEnd, FlushAt, FlushTo, superseded
<1>18. ASSUME NEW n \in Answer, Expire(n) PROVE NetworkInv'
  BY <1>0, <1>18 DEF Expire
<1>19. CASE ClearCache
  BY <1>0, <1>19 DEF ClearCache
<1>20. CASE ClearFile
  BY <1>0, <1>20 DEF ClearFile
<1>21. CASE CleanupDNSCache
  BY <1>0, <1>21 DEF CleanupDNSCache
<1>22. CASE ChangeEnvironment
  BY <1>0, <1>22 DEF ChangeEnvironment
<1> QED BY <1>1, <1>2, <1>3, <1>4, <1>5, <1>6, <1>7, <1>8, <1>9, <1>10, <1>11, <1>12, <1>13,
           <1>14, <1>15, <1>16, <1>17, <1>18, <1>19, <1>20, <1>21, <1>22 DEF Next, Run,
           Refreshing, Flushing

\* A step that leaves the stores and the time alone.
LEMMA StoreFrame ==
  ASSUME StoreInv, UNCHANGED <<persistent, age, storeVars>>
  PROVE  StoreInv'
<1> USE DEF storeVars
<1>1. MemoryInv' /\ ClearInv'
  BY DEF StoreInv, MemoryInv, ClearInv
<1>2. PendingInv'
  BY DEF StoreInv, PendingInv, Written, Flushes
<1>3. FlushInv'
  BY DEF StoreInv, FlushInv, Written, Flushes
<1> QED BY <1>1, <1>2, <1>3 DEF StoreInv

\* A store where something was cleared or a save has failed: nothing is claimed of it.
LEMMA NotIntact ==
  ASSUME intact' = FALSE
  PROVE  StoreInv'
BY DEF StoreInv, MemoryInv, PendingInv, FlushInv, ClearInv

\* The memory cache alone: the same answer in it and in saved.
LEMMA NotPersistent ==
  ASSUME StoreInv, ~persistent, UNCHANGED <<persistent, intact, clear>>,
         intact => \A e \in Env : cache'[e] = saved'[e]
  PROVE  StoreInv'
BY DEF StoreInv, MemoryInv, PendingInv, FlushInv, ClearInv

\* Storing an answer no goroutine is writing.
LEMMA StorePreserves ==
  ASSUME TypeOK, StoreInv, NEW e \in Env, NEW n \in Answer, flush[n].at = "none",
         storeCache(e, n), UNCHANGED <<persistent, age>>
  PROVE  StoreInv'
<1>0. /\ saved' = [saved EXCEPT ![e] = n] /\ saved \in [Env -> Answer \cup {Nothing}]
      /\ UNCHANGED <<file, clear, clears, intact>>
  BY StoreEffect DEF TypeOK
<1>1. CASE ~intact
  BY <1>0, <1>1, NotIntact DEF TypeOK
<1>2. CASE intact /\ ~persistent
  <2>1. cache' = [cache EXCEPT ![e] = n] /\ cache \in [Env -> Answer \cup {Nothing}]
    BY <1>2, StoreEffect DEF TypeOK
  <2> QED BY <1>0, <1>2, <2>1, NotPersistent DEF StoreInv, MemoryInv
<1>3. CASE intact /\ persistent
  <2>1. /\ pending'[e].answer = n /\ pending'[e].sequence = pending[e].sequence + 1
        /\ \A d \in Env \ {e} : pending'[d] = pending[d]
        /\ \A m \in Answer \ {n} : flush'[m] = flush[m]
        /\ pending[e] # NoEntry => flush' = flush
        /\ pending[e] = NoEntry => flush'[n].at = "read" /\ flush'[n].key = e
    BY <1>3, StoreEffect
  <2>2. pending'[e] # NoEntry
    BY <2>1, AnswerFacts DEF NoEntry
  <2>3. \A m \in Answer, d \in Env : Flushes(m, d)' =>
          \/ Flushes(m, d)
          \/ m = n /\ d = e /\ pending[e] = NoEntry
    BY <2>1 DEF Flushes
  <2>4. PendingInv'
    <3> SUFFICES ASSUME NEW d \in Env
                 PROVE  /\ pending'[d] # NoEntry => pending'[d].answer = saved'[d]
                        /\ pending'[d] = NoEntry =>
                             /\ Written(d, saved[d])' /\ \A m \in Answer : ~Flushes(m, d)'
      BY DEF PendingInv
    <3>1. CASE d = e
      BY <1>0, <2>1, <2>2, <3>1
    <3>2. CASE d # e
      <4>1. pending'[d] = pending[d] /\ saved'[d] = saved[d]
        BY <1>0, <2>1, <3>2
      <4>2. \A m \in Answer : Flushes(m, d)' => Flushes(m, d)
        BY <2>3, <3>2
      <4> QED BY <1>0, <1>3, <4>1, <4>2 DEF StoreInv, PendingInv, Written
    <3> QED BY <3>1, <3>2
  <2>5. FlushInv'
    <3> SUFFICES ASSUME NEW m \in Answer
                 PROVE  /\ \A l \in Answer, d \in Env : Flushes(m, d)' /\ Flushes(l, d)' => m = l
                        /\ flush'[m].at \in {"save", "end"} =>
                             /\ flush'[m].entry.sequence <= pending'[flush'[m].key].sequence
                             /\ flush'[m].entry.sequence = pending'[flush'[m].key].sequence =>
                                  flush'[m].entry.answer = pending'[flush'[m].key].answer
                        /\ flush'[m].at = "end" => Written(flush[m].key, flush[m].entry.answer)'
      BY DEF FlushInv
    <3>1. \A l \in Answer, d \in Env : Flushes(m, d)' /\ Flushes(l, d)' => m = l
      <4>1. pending[e] = NoEntry => \A l \in Answer : ~Flushes(l, e)
        BY <1>3 DEF StoreInv, PendingInv
      <4> QED BY <1>3, <2>3, <4>1 DEF StoreInv, FlushInv
    <3>2. CASE flush'[m].at \in {"save", "end"}
      <4>1. flush'[m] = flush[m]
        <5>1. CASE m = n
          BY <2>1, <3>2, <5>1
        <5> QED BY <2>1, <5>1
      <4> DEFINE k == flush[m].key
      <4>2. /\ k \in Env /\ flush[m].entry.sequence \in Nat /\ pending[k].sequence \in Nat
        BY DEF TypeOK, Entry
      <4>3. /\ flush[m].entry.sequence <= pending[k].sequence
            /\ flush[m].entry.sequence = pending[k].sequence => flush[m].entry.answer = pending[k].answer
        BY <1>3, <3>2, <4>1 DEF StoreInv, FlushInv
      <4>4. flush[m].at = "end" => Written(k, flush[m].entry.answer)
        BY <1>3 DEF StoreInv, FlushInv
      <4> HIDE DEF k
      <4>5. \/ pending'[k] = pending[k]
            \/ pending'[k].sequence = pending[k].sequence + 1
        BY <2>1, <4>2
      <4>6. /\ flush[m].entry.sequence <= pending'[k].sequence
            /\ flush[m].entry.sequence = pending'[k].sequence => flush[m].entry.answer = pending'[k].answer
        BY <4>2, <4>3, <4>5
      <4>7. flush[m].at = "end" => file'[k] = flush[m].entry.answer
                                  \/ (file'[k] = Nothing /\ age'[flush[m].entry.answer] = "expired")
        BY <1>0, <4>4 DEF Written
      <4> QED BY <3>1, <4>1, <4>6, <4>7 DEF Written, k
    <3> QED BY <3>1, <3>2
  <2> QED BY <1>0, <1>3, <2>4, <2>5 DEF StoreInv, MemoryInv, ClearInv
<1> QED BY <1>1, <1>2, <1>3

\* The pending answer is read: a goroutine that is at work finds one.
LEMMA FlushReadPreserves ==
  ASSUME TypeOK, StoreInv, NEW n \in Answer, FlushRead(n), intact, persistent
  PROVE  StoreInv'
<1> DEFINE k == flush[n].key
           f == [at |-> "save", key |-> k, entry |-> pending[k]]
<1>1. UNCHANGED <<persistent, age, cache, pending, file, clear, saved, intact>>
  BY DEF FlushRead, netVars
<1>2. Flushes(n, k) /\ k \in Env
  BY DEF FlushRead, FlushAt, Flushes, TypeOK
<1>3. pending[k] # NoEntry
  BY <1>2 DEF StoreInv, PendingInv
<1>4. flush' = [flush EXCEPT ![n] = f]
  BY <1>3 DEF FlushRead
<1>5. f.at = "save" /\ f.key = k /\ f.entry = pending[k]
  OBVIOUS
<1>6. pending[k].sequence \in Nat
  BY <1>2 DEF TypeOK, Entry
<1> HIDE DEF f
<1>7. flush'[n] = f /\ \A m \in Answer \ {n} : flush'[m] = flush[m]
  BY <1>4 DEF TypeOK
<1>8. \A m \in Answer, d \in Env : Flushes(m, d)' => Flushes(m, d)
  BY <1>2, <1>5, <1>7 DEF Flushes
<1> HIDE DEF k
<1>9. PendingInv'
  BY <1>1, <1>8 DEF StoreInv, PendingInv, Written
<1>10. FlushInv'
  <2> SUFFICES ASSUME NEW m \in Answer
               PROVE  /\ \A l \in Answer, d \in Env : Flushes(m, d)' /\ Flushes(l, d)' => m = l
                      /\ flush'[m].at \in {"save", "end"} =>
                           /\ flush'[m].entry.sequence <= pending'[flush'[m].key].sequence
                           /\ flush'[m].entry.sequence = pending'[flush'[m].key].sequence =>
                                flush'[m].entry.answer = pending'[flush'[m].key].answer
                      /\ flush'[m].at = "end" => Written(flush[m].key, flush[m].entry.answer)'
    BY DEF FlushInv
  <2>1. \A l \in Answer, d \in Env : Flushes(m, d)' /\ Flushes(l, d)' => m = l
    BY <1>8 DEF StoreInv, FlushInv
  <2>2. CASE m = n
    BY <1>1, <1>5, <1>6, <1>7, <2>1, <2>2
  <2>3. CASE m # n
    BY <1>1, <1>7, <2>1, <2>3 DEF StoreInv, FlushInv, Written
  <2> QED BY <2>2, <2>3
<1> QED BY <1>1, <1>9, <1>10 DEF StoreInv, MemoryInv, ClearInv

\* The answer is in the file, under a key for which nobody else writes.
LEMMA FlushSavePreserves ==
  ASSUME TypeOK, StoreInv, NEW n \in Answer, FlushSave(n), intact, intact', persistent
  PROVE  StoreInv'
<1> DEFINE k == flush[n].key
           a == flush[n].entry.answer
<1>1. /\ UNCHANGED <<persistent, age, cache, pending, clear, saved, intact>>
      /\ file' = [file EXCEPT ![k] = a]
  BY DEF FlushSave, netVars
<1>2. Flushes(n, k) /\ k \in Env /\ flush[n].at = "save" /\ flush[n] \in FlushType
  BY DEF FlushSave, FlushAt, Flushes, TypeOK, FlushType
<1>3. pending[k] # NoEntry
  BY <1>2 DEF StoreInv, PendingInv
<1>4. /\ \A m \in Answer \ {n} : flush'[m] = flush[m]
      /\ flush'[n] = [flush[n] EXCEPT !.at = "end"]
  BY DEF FlushSave, FlushTo, TypeOK
<1>5. flush'[n].at = "end" /\ flush'[n].key = k /\ flush'[n].entry = flush[n].entry
  BY <1>2, <1>4 DEF FlushType
<1>6. file'[k] = a /\ \A d \in Env \ {k} : file'[d] = file[d]
  BY <1>1, <1>2 DEF TypeOK
<1>7. \A m \in Answer, d \in Env : Flushes(m, d)' <=> Flushes(m, d)
  BY <1>2, <1>4, <1>5 DEF Flushes
<1>8. \A m \in Answer : flush[m].key \in Env
  BY DEF TypeOK
<1>9. \A m \in Answer \ {n} : flush[m].at # "none" => flush[m].key # k
  BY <1>2 DEF StoreInv, FlushInv, Flushes
<1> HIDE DEF k, a
<1>10. PendingInv'
  <2> SUFFICES ASSUME NEW d \in Env
               PROVE  /\ pending'[d] # NoEntry => pending'[d].answer = saved'[d]
                      /\ pending'[d] = NoEntry =>
                           /\ Written(d, saved[d])' /\ \A m \in Answer : ~Flushes(m, d)'
    BY DEF PendingInv
  <2>1. CASE d = k
    BY <1>1, <1>3, <2>1 DEF StoreInv, PendingInv
  <2>2. CASE d # k
    BY <1>1, <1>6, <1>7, <2>2 DEF StoreInv, PendingInv, Written
  <2> QED BY <2>1, <2>2
<1>11. FlushInv'
  <2> SUFFICES ASSUME NEW m \in Answer
               PROVE  /\ \A l \in Answer, d \in Env : Flushes(m, d)' /\ Flushes(l, d)' => m = l
                      /\ flush'[m].at \in {"save", "end"} =>
                           /\ flush'[m].entry.sequence <= pending'[flush'[m].key].sequence
                           /\ flush'[m].entry.sequence = pending'[flush'[m].key].sequence =>
                                flush'[m].entry.answer = pending'[flush'[m].key].answer
                      /\ flush'[m].at = "end" => Written(flush[m].key, flush[m].entry.answer)'
    BY DEF FlushInv
  <2>1. \A l \in Answer, d \in Env : Flushes(m, d)' /\ Flushes(l, d)' => m = l
    BY <1>7 DEF StoreInv, FlushInv
  <2>2. CASE m = n
    <3>1. /\ flush[n].entry.sequence <= pending[k].sequence
          /\ flush[n].entry.sequence = pending[k].sequence => flush[n].entry.answer = pending[k].answer
      BY <1>2 DEF StoreInv, FlushInv, k
    <3>2. file'[k] = flush[n].entry.answer
      BY <1>6 DEF a
    <3> QED BY <1>1, <1>5, <2>1, <2>2, <3>1, <3>2 DEF Written
  <2>3. CASE m # n
    <3>1. flush[m].at = "end" => file'[flush[m].key] = file[flush[m].key]
      BY <1>6, <1>8, <1>9, <2>3
    <3> QED BY <1>1, <1>4, <2>1, <2>3, <3>1 DEF StoreInv, FlushInv, Written
  <2> QED BY <2>2, <2>3
<1> QED BY <1>1, <1>10, <1>11 DEF StoreInv, MemoryInv, ClearInv

\* The goroutine goes round again, or the answer it wrote is the last one stored.
LEMMA FlushEndPreserves ==
  ASSUME TypeOK, StoreInv, NEW n \in Answer, FlushEnd(n), intact, persistent
  PROVE  StoreInv'
<1>0. PICK k \in Env : k = flush[n].key
  BY DEF TypeOK
<1>1. UNCHANGED <<persistent, age, cache, file, clear, saved, intact>>
  BY DEF FlushEnd, netVars
<1>2. Flushes(n, k) /\ k \in Env /\ flush[n].at = "end" /\ flush[n] \in FlushType
  BY <1>0 DEF FlushEnd, FlushAt, Flushes, TypeOK, FlushType
<1>3. pending[k] # NoEntry /\ pending[k].answer = saved[k]
  BY <1>2 DEF StoreInv, PendingInv
<1>4. \/ FlushTo(n, "read") /\ pending' = pending
      \/ /\ FlushTo(n, "none") /\ pending' = [pending EXCEPT ![k] = NoEntry]
         /\ pending[k].sequence = flush[n].entry.sequence
  BY <1>0, <1>3 DEF FlushEnd, superseded
<1>5. PICK s \in {"read", "none"} : flush' = [flush EXCEPT ![n].at = s]
  BY <1>4 DEF FlushTo
<1>6. /\ \A m \in Answer \ {n} : flush'[m] = flush[m]
      /\ flush'[n] = [flush[n] EXCEPT !.at = s]
  BY <1>5 DEF TypeOK
<1>7. flush'[n].at = s /\ flush'[n].key = k
  BY <1>0, <1>2, <1>6 DEF FlushType
<1>8. \A m \in Answer, d \in Env : Flushes(m, d)' => Flushes(m, d)
  BY <1>2, <1>6, <1>7 DEF Flushes
<1>9. \A m \in Answer : flush[m].key \in Env
  BY DEF TypeOK
<1>10. \A m \in Answer \ {n} : flush[m].at # "none" => flush[m].key # k
  BY <1>2 DEF StoreInv, FlushInv, Flushes
<1>11. \A d \in Env \ {k} : pending'[d] = pending[d]
  BY <1>2, <1>4 DEF TypeOK
<1>12. PendingInv'
  <2>1. CASE pending' = pending
    BY <1>1, <1>8, <2>1 DEF StoreInv, PendingInv, Written
  <2>2. CASE pending' # pending
    <3>1. FlushTo(n, "none") /\ pending'[k] = NoEntry /\ pending[k].sequence = flush[n].entry.sequence
      BY <1>2, <1>4, <2>2 DEF TypeOK
    <3>2. Written(k, saved[k])'
      BY <1>0, <1>1, <1>2, <1>3, <3>1 DEF StoreInv, FlushInv, Written
    <3>3. flush'[n].at = "none"
      BY <1>2, <3>1 DEF FlushTo, FlushType, TypeOK
    <3>4. \A m \in Answer : ~Flushes(m, k)'
      BY <1>6, <1>10, <3>3 DEF Flushes
    <3>5. ASSUME NEW d \in Env \ {k}
          PROVE  /\ pending'[d] # NoEntry => pending'[d].answer = saved'[d]
                 /\ pending'[d] = NoEntry =>
                      /\ Written(d, saved[d])' /\ \A m \in Answer : ~Flushes(m, d)'
      BY <1>1, <1>8, <1>11, <3>5 DEF StoreInv, PendingInv, Written
    <3> QED BY <1>2, <3>1, <3>2, <3>4, <3>5 DEF PendingInv
  <2> QED BY <2>1, <2>2
<1>13. FlushInv'
  <2> SUFFICES ASSUME NEW m \in Answer
               PROVE  /\ \A l \in Answer, d \in Env : Flushes(m, d)' /\ Flushes(l, d)' => m = l
                      /\ flush'[m].at \in {"save", "end"} =>
                           /\ flush'[m].entry.sequence <= pending'[flush'[m].key].sequence
                           /\ flush'[m].entry.sequence = pending'[flush'[m].key].sequence =>
                                flush'[m].entry.answer = pending'[flush'[m].key].answer
                      /\ flush'[m].at = "end" => Written(flush[m].key, flush[m].entry.answer)'
    BY DEF FlushInv
  <2>1. \A l \in Answer, d \in Env : Flushes(m, d)' /\ Flushes(l, d)' => m = l
    BY <1>8 DEF StoreInv, FlushInv
  <2>2. CASE m = n
    BY <1>7, <2>1, <2>2
  <2>3. CASE m # n
    <3>1. flush[m].at # "none" => pending'[flush[m].key] = pending[flush[m].key]
      BY <1>9, <1>10, <1>11, <2>3
    <3> QED BY <1>1, <1>6, <2>1, <2>3, <3>1 DEF StoreInv, FlushInv, Written
  <2> QED BY <2>2, <2>3
<1> QED BY <1>1, <1>12, <1>13 DEF StoreInv, MemoryInv, ClearInv

\* Only what has expired leaves the file, and no answer becomes younger: what was written
\* stays written.
LEMMA AgePreserves ==
  ASSUME TypeOK, StoreInv, CleanupDNSCache \/ \E n \in Answer : Expire(n)
  PROVE  StoreInv'
<1>1. UNCHANGED <<persistent, cache, pending, flush, clear, saved, intact>>
  BY DEF CleanupDNSCache, Expire, netVars, storeVars
<1>2. ASSUME NEW e \in Env, NEW a \in Answer \cup {Nothing}, Written(e, a)
      PROVE  Written(e, a)'
  <2>1. CASE CleanupDNSCache
    <3>1. file'[e] = IF file[e] # Nothing /\ age[file[e]] = "expired" THEN Nothing ELSE file[e]
      BY <2>1 DEF CleanupDNSCache
    <3>2. age' = age
      BY <2>1 DEF CleanupDNSCache, netVars
    <3> QED BY <1>2, <3>1, <3>2 DEF Written
  <2>2. ASSUME NEW n \in Answer, Expire(n)
        PROVE  Written(e, a)'
    <3>1. file' = file
      BY <2>2 DEF Expire, storeVars
    <3>2. CASE a = Nothing
      BY <1>2, <3>1, <3>2 DEF Written
    <3>3. CASE a \in Answer
      <4>1. age[a] = "expired" => age'[a] = "expired"
        BY <2>2, <3>3 DEF Expire, TypeOK
      <4> QED BY <1>2, <3>1, <4>1 DEF Written
    <3> QED BY <3>2, <3>3
  <2> QED BY <2>1, <2>2
<1>3. /\ \A e \in Env : saved[e] \in Answer \cup {Nothing}
      /\ \A n \in Answer : flush[n].key \in Env /\ flush[n].entry.answer \in Answer \cup {Nothing}
  BY DEF TypeOK, Entry
<1>4. \A m \in Answer, d \in Env : Flushes(m, d)' <=> Flushes(m, d)
  BY <1>1 DEF Flushes
<1>5. PendingInv'
  <2>1. \A e \in Env : Written(e, saved[e]) =>
          file'[e] = saved[e] \/ (file'[e] = Nothing /\ age'[saved[e]] = "expired")
    BY <1>2, <1>3 DEF Written
  <2> QED BY <1>1, <1>4, <2>1 DEF StoreInv, PendingInv, Written
<1>6. FlushInv'
  <2>1. \A n \in Answer : Written(flush[n].key, flush[n].entry.answer) =>
          \/ file'[flush[n].key] = flush[n].entry.answer
          \/ file'[flush[n].key] = Nothing /\ age'[flush[n].entry.answer] = "expired"
    BY <1>2, <1>3 DEF Written
  <2> QED BY <1>1, <1>4, <2>1 DEF StoreInv, FlushInv, Written
<1> QED BY <1>1, <1>5, <1>6 DEF StoreInv, MemoryInv, ClearInv

\* The steps of a flush, whatever has happened to the store.
LEMMA FlushPreserves ==
  ASSUME TypeOK, StoreInv, NEW n \in Answer, Flushing(n)
  PROVE  StoreInv'
<1>1. UNCHANGED <<persistent, cache, clear, saved>> /\ intact' \in {intact, FALSE}
  BY DEF Flushing, FlushRead, FlushSave, FlushEnd, netVars
<1>2. CASE intact' = FALSE
  BY <1>2, NotIntact
<1>3. CASE intact' = intact /\ intact /\ ~persistent
  BY <1>1, <1>3, NotPersistent DEF StoreInv, MemoryInv
<1>4. CASE intact' = intact /\ intact /\ persistent
  BY <1>4, FlushReadPreserves, FlushSavePreserves, FlushEndPreserves DEF Flushing
<1>5. intact \in BOOLEAN
  BY DEF TypeOK
<1> QED BY <1>1, <1>2, <1>3, <1>4, <1>5

\* The write-behind cache is a cache.
LEMMA StoreInvStep ==
  ASSUME IInv, [Next]_vars
  PROVE  StoreInv'
<1> USE DEF queryVars, netVars, lockVars
<1>0. TypeOK /\ AnswerInv /\ StoreInv
  BY DEF IInv
<1>1. CASE UNCHANGED <<persistent, age, storeVars>>
  BY <1>0, <1>1, StoreFrame
<1>2. ASSUME NEW q \in Query, Finish(q) PROVE StoreInv'
  <2>1. PICK n \in Answer : n = response[q] /\ flush[n].at = "none"
    BY <1>0, <1>2 DEF Finish, AnswerInv, Holds, Unwritten
  <2>2. storeCache(environment, n) \/ UNCHANGED storeVars
    BY <1>2, <2>1 DEF Finish, storeOrNot, storeCache, queueDNSCacheSave
  <2>3. environment \in Env /\ UNCHANGED <<persistent, age>>
    BY <1>0, <1>2 DEF Finish, TypeOK
  <2> QED BY <1>0, <1>1, <2>1, <2>2, <2>3, StorePreserves
<1>3. ASSUME NEW e \in Env, RefreshDone(e) PROVE StoreInv'
  <2>1. PICK n \in Answer : n = refresh[e].answer /\ flush[n].at = "none"
    BY <1>0, <1>3 DEF RefreshDone, AnswerInv, Answers, Unwritten
  <2>2. storeCache(environment, n) \/ UNCHANGED storeVars
    BY <1>3, <2>1 DEF RefreshDone, storeOrNot, storeCache, queueDNSCacheSave
  <2>3. environment \in Env /\ UNCHANGED <<persistent, age>>
    BY <1>0, <1>3 DEF RefreshDone, TypeOK
  <2> QED BY <1>0, <1>1, <2>1, <2>2, <2>3, StorePreserves
<1>4. ASSUME NEW n \in Answer, Flushing(n) PROVE StoreInv'
  BY <1>0, <1>4, FlushPreserves
<1>5. CASE CleanupDNSCache \/ \E n \in Answer : Expire(n)
  BY <1>0, <1>5, AgePreserves
<1>6. CASE ClearCache
  BY <1>6, NotIntact DEF ClearCache
<1>7. CASE ClearFile
  <2>1. intact' = FALSE
    BY <1>0, <1>7 DEF ClearFile, StoreInv, ClearInv, TypeOK
  <2> QED BY <2>1, NotIntact
<1>8. ASSUME NEW q \in Query, Run(q) \/ GiveUp(q) PROVE StoreInv'
  <2>1. Finish(q) \/ UNCHANGED <<persistent, age, storeVars>>
    BY <1>8 DEF Run, QuestionCache, Begin, Hit, Miss, Woken, Answered, Failed, Release, GiveUp
  <2> QED BY <1>1, <1>2, <2>1
<1>9. CASE Refreshing
  <2>1. (\E e \in Env : RefreshDone(e)) \/ UNCHANGED <<persistent, age, storeVars>>
    BY <1>9 DEF Refreshing, RefreshAnswered, RefreshFailed
  <2> QED BY <1>1, <1>3, <2>1
<1>10. CASE ChangeEnvironment \/ UNCHANGED vars
  BY <1>1, <1>10 DEF ChangeEnvironment, vars
<1> QED BY <1>4, <1>5, <1>6, <1>7, <1>8, <1>9, <1>10 DEF Next

-----------------------------------------------------------------------------
(* The theorems. *)

\* At the start nothing is asked, stored or written.
LEMMA InitIInv == Init => IInv
<1> SUFFICES ASSUME Init PROVE IInv
  OBVIOUS
<1> USE AnswerFacts, EnvFacts
<1>1. TypeOK
  <2>1. /\ refresh \in [Env -> RefreshType] /\ pending \in [Env -> Entry]
        /\ flush \in [Answer -> FlushType]
    BY NoneType DEF Init
  <2>2. /\ persistent \in BOOLEAN /\ environment \in Env /\ changes \in 0..MaxChanges
        /\ async \subseteq Query /\ closed \subseteq Query
        /\ clear \in {"no", "batch"} /\ clears \in 0..MaxClears /\ intact \in BOOLEAN
    BY DEF Init
  <2>3. /\ origin \in [Answer -> Env \cup {None}]
        /\ age \in [Answer -> {"fresh", "stale", "expired"}]
        /\ key \in [Query -> Env] /\ since \in [Query -> 0..MaxChanges]
        /\ cond \in [Query -> Query \cup {None}] /\ cacheLock \in [Env -> Query \cup {None}]
    BY DEF Init
  <2>4. /\ response \in [Query -> Answer \cup {Nothing}] /\ cache \in [Env -> Answer \cup {Nothing}]
        /\ file \in [Env -> Answer \cup {Nothing}] /\ saved \in [Env -> Answer \cup {Nothing}]
        /\ pc \in [Query -> {"idle", "own", "found", "woken", "wait", "asking", "finish", "release", "done"}]
    BY DEF Init
  <2> QED BY <2>1, <2>2, <2>3, <2>4 DEF TypeOK, RefreshType, FlushType
<1>2. AnswerInv
  BY DEF Init, AnswerInv, Holds, Answers, NoRefresh, NoFlush
<1>3. NetworkInv
  BY DEF Init, NetworkInv, Holds, Answers, NoRefresh
<1>4. StoreInv
  BY DEF Init, StoreInv, MemoryInv, PendingInv, FlushInv, ClearInv, Written, Flushes, NoFlush
<1> QED BY <1>1, <1>2, <1>3, <1>4 DEF IInv

\* The invariant holds in every state of the DNS client and its cache.
THEOREM Invariance == Spec => []IInv
<1>1. IInv /\ [Next]_vars => IInv'
  BY TypeOKStep, AnswerInvStep, NetworkInvStep, StoreInvStep DEF IInv
<1> QED BY InitIInv, <1>1, PTL DEF Spec

\* Every variable of the DNS client and its cache keeps its type.
THEOREM TypeCorrect == Spec => []TypeOK
<1>1. IInv => TypeOK
  BY DEF IInv
<1> QED BY <1>1, Invariance, PTL

\* What loadResponse finds under a key is the last answer storeCache was given for it, at
\* every moment of the flush, or nothing once that answer has expired; until something is
\* cleared or a save fails.
THEOREM WriteBehindIsInvisible == Spec => []LastStoreIsServed
<1>1. IInv => LastStoreIsServed
  <2> SUFFICES ASSUME IInv, intact, NEW e \in Env
               PROVE  Stored(e) = saved[e] \/ (Stored(e) = Nothing /\ age[saved[e]] = "expired")
    BY DEF LastStoreIsServed
  <2>1. CASE ~persistent
    BY <2>1 DEF IInv, StoreInv, MemoryInv, Stored
  <2>2. CASE persistent
    BY <2>2 DEF IInv, StoreInv, PendingInv, Stored, Cached, Written
  <2> QED BY <2>1, <2>2
<1> QED BY <1>1, Invariance, PTL

\* The property of a step, without the box.
NetworkStep ==
  \A e \in Env : saved'[e] # saved[e] /\ origin[saved'[e]] # e =>
    \/ \E q \in Query : response[q] = saved'[e] /\ (key[q] = 0 \/ changes >= since[q] + 2)
    \/ \E k \in Env : refresh[k].answer = saved'[e] /\ (k = 0 \/ changes >= refresh[k].since + 2)

\* An answer is stored under the key of the network it came over, unless the network was
\* unknown when the query began, or has changed and is back again: finishCacheKey refuses
\* every other one.
THEOREM KeysNameTheNetwork == Spec => StoredUnderItsNetwork
<1>1. ASSUME IInv, Next PROVE NetworkStep
  <2> USE DEF queryVars, netVars, lockVars
  <2>0. TypeOK /\ AnswerInv /\ NetworkInv
    BY <1>1 DEF IInv
  <2>1. CASE saved' = saved
    BY <2>1 DEF NetworkStep
  <2>2. ASSUME NEW q \in Query, Finish(q), saved' # saved PROVE NetworkStep
    <3>1. PICK n \in Answer : n = response[q]
      BY <2>0, <2>2 DEF Finish, AnswerInv, Holds, Unwritten
    <3>2. storeCache(environment, n) /\ finishCacheKey(key[q])
      BY <2>2, <3>1 DEF Finish, storeOrNot, storeCache, queueDNSCacheSave, storeVars
    <3>3. saved' = [saved EXCEPT ![environment] = n]
      BY <3>2 DEF storeCache
    <3>4. origin[n] # environment => key[q] = 0 \/ changes >= since[q] + 2
      BY <2>0, <2>2, <3>1, <3>2 DEF Finish, NetworkInv, Holds, SeenBy, finishCacheKey
    <3> QED BY <2>0, <3>1, <3>3, <3>4 DEF NetworkStep, TypeOK
  <2>3. ASSUME NEW k \in Env, RefreshDone(k), saved' # saved PROVE NetworkStep
    <3>1. PICK n \in Answer : n = refresh[k].answer
      BY <2>0, <2>3 DEF RefreshDone, AnswerInv, Answers, Unwritten
    <3>2. storeCache(environment, n) /\ finishCacheKey(k)
      BY <2>3, <3>1 DEF RefreshDone, storeOrNot, storeCache, queueDNSCacheSave, storeVars
    <3>3. saved' = [saved EXCEPT ![environment] = n]
      BY <3>2 DEF storeCache
    <3>4. origin[n] # environment => k = 0 \/ changes >= refresh[k].since + 2
      BY <2>0, <2>3, <3>1, <3>2 DEF RefreshDone, NetworkInv, Answers, SeenBy, finishCacheKey
    <3> QED BY <2>0, <3>1, <3>3, <3>4 DEF NetworkStep, TypeOK
  <2>4. \/ saved' = saved
        \/ \E q \in Query : Finish(q)
        \/ \E k \in Env : RefreshDone(k)
    BY <1>1 DEF Next, Run, Refreshing, Flushing, QuestionCache, Begin, Hit, Miss, Woken, Answered,
                Failed, Release, GiveUp, RefreshAnswered, RefreshFailed, FlushRead, FlushSave,
                FlushEnd, Expire, ClearCache, ClearFile, CleanupDNSCache, ChangeEnvironment,
                storeVars
  <2> QED BY <2>1, <2>2, <2>3, <2>4
<1>2. IInv /\ [Next]_vars => [NetworkStep]_vars
  BY <1>1
<1>3. [][NetworkStep]_vars => StoredUnderItsNetwork
  BY DEF StoredUnderItsNetwork, NetworkStep
<1> QED BY <1>2, <1>3, Invariance, PTL DEF Spec

-----------------------------------------------------------------------------
(* The rule walk: the inductive invariant. *)

\* The options of the rules listed before rule i.
OptionsBefore(i) == {j \in 1..(i - 1) : rules[j].act = "options" /\ j \notin missed}

\* Why a terminal rule does not decide a query although it is listed first.
PassedOver(i) ==
  \/ i \in missed
  \/ rules[i].act = "route" /\ ~rules[i].loaded
  \/ failed(answer[i]) /\ (rules[i].fallback \/ rules[i].limit)

\* The rules listed before rule n that could have decided, and wait for no response.
JudgedBefore(n) ==
  \A i \in 1..(n - 1) : rules[i].act \in Terminal /\ ~rules[i].race => PassedOver(i)

\* The walk is over when it has returned something, and only then.
DoneInv == outcome.result # "none" <=> stage = "done"

\* The rule at ruleIndex is still to be judged.
AtRule ==
  \/ stage \in {"rule", "bound", "act"}
  \/ /\ stage \in {"loop", "hold", "wait"} \/ (stage = "sweep" /\ sweepFrom = "loop")
     /\ suspension.kind # "pending"

\* Where the walk is in the list: what it is doing fits the rule it is at.
PlaceInv ==
  /\ stage # "match"
  /\ ruleIndex \in 1..Default
  /\ stage \in {"rule", "bound"} => ruleIndex \in Index
  /\ stage = "act" /\ ruleIndex \in Index => ~rules[ruleIndex].race
  /\ stage = "sweep" /\ sweepFrom = "walk" => ruleIndex \in Index /\ rules[ruleIndex].race

\* Only rules that were passed have been found not to match.
MissedInv == \A i \in missed : i <= ruleIndex /\ (AtRule => i < ruleIndex)

\* Every rule before the one of the turn was passed over for a reason.
JudgedInv == JudgedBefore(ruleIndex)

\* The armed rules are race rules that were passed; a rule is armed once.
ArmedInv ==
  \A a \in DOMAIN armed :
    /\ a <= armed[a].rule /\ armed[a].rule <= ruleIndex
    /\ AtRule => armed[a].rule < ruleIndex
    /\ rules[armed[a].rule].race

\* The options in force are those of the rules before the one of the turn, and an
\* armed rule has kept those of the rules before it.
OptionsInv ==
  /\ options = OptionsBefore(ruleIndex)
  /\ \A a \in DOMAIN armed : armed[a].options = OptionsBefore(armed[a].rule)

\* A rule launches its query as it is passed, or ahead of its turn; the responses the
\* rules have seen have come.
LaunchInv ==
  /\ \A k \in Index : future[k] # "none" => k < ruleIndex \/ k = ahead
  /\ ahead <= ruleIndex
  /\ ahead # 0 => rules[ahead].act = "route" /\ rules[ahead].speculative

\* A response is noted only once it has come.
SettledInv == \A k \in settled : resolved(k)

\* A race rule is armed after what was asked before it, and holds what comes after.
HeldInv ==
  \A k \in Index, a \in DOMAIN armed :
    future[k] # "none" /\ ~rules[k].speculative => k < armed[a].rule

\* A last query that waits to be asked, and one that is asked.
Parked == suspension.kind = "pending" /\ stage # "done"
\* A terminal query is asked, or is about to be.
Asked == stage = "exchange" \/ (Parked /\ suspension.on = 0)

\* It is the query of a race rule that was hit by a sweep, ...
RaceQuery == query.rule \in Index /\ rules[query.rule].race /\ ~query.fallback

\* ... or that of the rule of the turn, and then no race rule is armed.
TurnQuery ==
  /\ query.rule = ruleIndex
  /\ armed = <<>>
  /\ IF ruleIndex = Default THEN ~query.fallback
     ELSE rules[ruleIndex].act = "route" /\ query.fallback = rules[ruleIndex].fallback

\* A query is parked only once no rule is armed; one that waits for the query its own
\* rule has launched ahead is not asked again.
ParkedInv ==
  /\ Parked => /\ armed = <<>>
               /\ stage \in {"loop", "sweep", "hold", "exchange", "ahead"}
               /\ stage = "sweep" => sweepFrom = "loop"
               /\ suspension.on # 0 =>
                    stage # "exchange" /\ ahead = ruleIndex /\ ruleIndex \in Index
  /\ stage = "ahead" => Parked /\ suspension.on # 0

\* The query has the options of the rules listed before the one that asks it.
AskedInv == Asked => query.options = OptionsBefore(query.rule) /\ (RaceQuery \/ TurnQuery)

\* The loop will hear of a response: there is a token, or a callback still has to leave one.
Heard == wake \/ unsent # {}

\* A loop that will hear of nothing has seen everything that has come.
WakeInv ==
  Heard \/
  /\ stage = "sweep" /\ sweepFrom = "loop" =>
       \A a \in DOMAIN armed : a < sweepAt => ~ready(armed[a])
  /\ stage \in {"hold", "wait"} => \A a \in DOMAIN armed : ~ready(armed[a])
  /\ stage = "wait" /\ suspension.kind = "await" => ~resolved(suspension.on)

\* A rule that decides past an armed one is a race rule itself.
DecidedInv ==
  Done /\ outcome.by # 0 =>
    \A a \in DOMAIN armed :
      armed[a].rule < outcome.by => outcome.by # Default /\ rules[outcome.by].race

\* The invariant of the walk, ...
WalkInv ==
  /\ PlaceInv /\ MissedInv /\ JudgedInv /\ ArmedInv /\ OptionsInv /\ LaunchInv
  /\ SettledInv /\ HeldInv /\ ParkedInv /\ AskedInv /\ WakeInv /\ DecidedInv

\* ... of the two loops around matchDNS, which ask one query at a time, ...
LegacyInv ==
  /\ stage \in {"match", "exchange", "done"}
  /\ future = [i \in Index |-> "none"]
  /\ unsent = {}
  /\ ruleIndex # Default
  /\ stage = "match" => JudgedBefore(ruleIndex + 1)
  /\ stage = "exchange" =>
       /\ query.rule # 0
       /\ JudgedBefore(query.rule)
       /\ query.rule # Default => ruleIndex = query.rule /\ rules[query.rule].act = "route"

\* ... and of the router.
RouterInv ==
  /\ RouterTypeOK /\ DoneInv /\ ListedOrder
  /\ mode = "walk" => rules \in WalkLists /\ WalkInv
  /\ mode # "walk" => rules \in LegacyLists /\ LegacyInv

\* What validateLegacyDNSModeDisabledRules grants of the rules of a walk.
RuleFacts ==
  \A i \in Index :
    /\ rules[i] \in RuleRecord
    /\ rules[i].race => rules[i].bind # {} /\ rules[i].act \in Terminal
    /\ rules[i].fallback => rules[i].act = "route"

\* Type correctness, by groups of variables.
ControlType ==
  /\ mode \in {"walk", "legacy", "lookup"}
  /\ rules \in Seq(Rule)
  /\ ctx \in {"live", "done"}
  /\ stage \in {"rule", "bound", "act", "sweep", "loop", "hold", "wait",
                "exchange", "ahead", "match", "done"}
  /\ wake \in BOOLEAN
  /\ sweepFrom \in {"walk", "loop"}
  /\ ahead \in 0..Last
SweepType == sweepAt \in 1..Default
SetType ==
  /\ options \subseteq Index /\ cancelled \subseteq Index /\ unsent \subseteq Index
  /\ settled \subseteq Index /\ missed \subseteq Index
SuspensionType == suspension \in [kind : {"none", "await", "drain", "pending"}, on : 0..Last]
QueryType == query \in [rule : 0..Default, options : SUBSET Index, fallback : BOOLEAN]
OutcomeType == outcome \in [result : Result \cup {"none", "drop"}, by : 0..Default]
AnswerType == answer \in [1..Default -> Result \cup {"none"}]
FutureType == future \in [Index -> Result \cup {"none", "running"}]
LatestType == latest \in [Tag -> 0..Last]
ArmedType == armed \in Seq(ArmedRule)

\* The groups make up the type invariant.
LEMMA TypeGroups ==
  RouterTypeOK <=> /\ ControlType /\ SweepType /\ SetType /\ SuspensionType /\ QueryType
                   /\ OutcomeType /\ AnswerType /\ FutureType /\ LatestType /\ ArmedType
                   /\ ruleIndex \in 0..Default
BY DEF RouterTypeOK, ControlType, SweepType, SetType, SuspensionType, QueryType, OutcomeType,
       AnswerType, FutureType, LatestType, ArmedType

\* The list of rules is the same in every state.
LEMMA SameRules ==
  ASSUME rules' = rules
  PROVE  /\ Last' = Last /\ Default' = Default /\ Index' = Index /\ ArmedRule' = ArmedRule
BY DEF Last, Default, Index, ArmedRule

\* The ranges of the indices.
LEMMA Numbers ==
  ASSUME RouterTypeOK
  PROVE  /\ Last \in Nat /\ Default = Last + 1
         /\ Index = 1..Last
         /\ ruleIndex \in 0..Default /\ missed \subseteq Index /\ ahead \in 0..Last
         /\ sweepFrom \in {"walk", "loop"} /\ sweepAt \in 1..Default
         /\ future \in [Index -> {"good", "bad", "err", "rejected", "none", "running"}]
         /\ settled \subseteq Index /\ unsent \subseteq Index
BY DEF RouterTypeOK, Last, Default, Index, Result

\* What is left of a sequence without its i-th element.
LEMMA WithoutOne ==
  ASSUME NEW S, NEW s \in Seq(S), NEW i \in 1..Len(s)
  PROVE  LET w == SubSeq(s, 1, i - 1) \o SubSeq(s, i + 1, Len(s)) IN
           /\ w \in Seq(S)
           /\ Len(w) = Len(s) - 1
           /\ \A b \in 1..Len(w) : w[b] = IF b < i THEN s[b] ELSE s[b + 1]
<1> DEFINE p == SubSeq(s, 1, i - 1)
           q == SubSeq(s, i + 1, Len(s))
           w == p \o q
<1>1. p \in Seq(S) /\ Len(p) = i - 1 /\ \A b \in 1..(i - 1) : p[b] = s[b]
  OBVIOUS
<1>2. q \in Seq(S) /\ Len(q) = Len(s) - i /\ \A b \in 1..(Len(s) - i) : q[b] = s[i + b]
  OBVIOUS
<1> HIDE DEF p, q
<1>3. /\ w \in Seq(S)
      /\ Len(w) = Len(p) + Len(q)
      /\ \A b \in 1..(Len(p) + Len(q)) :
           w[b] = IF b <= Len(p) THEN p[b] ELSE q[b - Len(p)]
  BY <1>1, <1>2, ConcatProperties
<1> HIDE DEF w
<1>4. ASSUME NEW b \in 1..Len(w) PROVE w[b] = IF b < i THEN s[b] ELSE s[b + 1]
  <2>1. CASE b < i
    <3>1. b \in 1..(i - 1) /\ b \in 1..(Len(p) + Len(q)) /\ b <= Len(p)
      BY <2>1, <1>1, <1>2, <1>3
    <3>2. w[b] = p[b]
      BY <3>1, <1>3
    <3> QED BY <3>1, <3>2, <2>1, <1>1
  <2>2. CASE ~(b < i)
    <3>1. b - (i - 1) \in 1..(Len(s) - i) /\ i + (b - (i - 1)) = b + 1
      BY <2>2, <1>1, <1>2, <1>3
    <3>2. w[b] = q[b - (i - 1)]
      BY <2>2, <1>1, <1>2, <1>3
    <3> QED BY <2>2, <3>1, <3>2, <1>2
  <2> QED BY <2>1, <2>2
<1>5. Len(w) = Len(s) - 1
  BY <1>1, <1>2, <1>3
<1> QED BY <1>3, <1>4, <1>5 DEF w, p, q

\* The armed rules that stay when the one of the sweep is judged.
LEMMA OthersFacts ==
  ASSUME RouterTypeOK, Sweeping
  PROVE  /\ Others \in Seq(ArmedRule)
         /\ Len(Others) = Len(armed) - 1
         /\ \A b \in 1..Len(Others) : Others[b] = IF b < sweepAt THEN armed[b] ELSE armed[b + 1]
<1>1. armed \in Seq(ArmedRule) /\ sweepAt \in 1..Len(armed)
  BY DEF RouterTypeOK, Sweeping, Default
<1> QED BY <1>1, WithoutOne DEF Others

\* The armed rules are rules of the list.
LEMMA ArmedNumbers ==
  ASSUME RouterTypeOK
  PROVE  /\ Len(armed) \in Nat /\ DOMAIN armed = 1..Len(armed)
         /\ \A a \in DOMAIN armed : armed[a] \in ArmedRule /\ armed[a].rule \in Index
<1>1. armed \in Seq(ArmedRule)
  BY DEF RouterTypeOK
<1>2. Len(armed) \in Nat /\ DOMAIN armed = 1..Len(armed)
  BY <1>1
<1>3. \A a \in DOMAIN armed : armed[a] \in ArmedRule
  BY <1>1, <1>2
<1> QED BY <1>2, <1>3 DEF ArmedRule

\* Each of them is one that was armed before, at its place or the next.
LEMMA OthersKeep ==
  ASSUME RouterTypeOK, Sweeping
  PROVE  \A b \in DOMAIN Others : \E a \in DOMAIN armed : Others[b] = armed[a] /\ b <= a
<1> SUFFICES ASSUME NEW b \in DOMAIN Others
             PROVE  \E a \in DOMAIN armed : Others[b] = armed[a] /\ b <= a
  OBVIOUS
<1>1. b \in 1..Len(Others) /\ Len(Others) = Len(armed) - 1
  BY OthersFacts
<1>2. b \in DOMAIN armed /\ b + 1 \in DOMAIN armed
  BY <1>1, ArmedNumbers
<1> QED BY <1>1, <1>2, OthersFacts

\* A rule is armed with the options of its turn.
LEMMA ArmEntry ==
  ASSUME RouterTypeOK, PlaceInv, Arm
  PROVE  \E e \in ArmedRule : /\ armed' = Append(armed, e)
                              /\ e.rule = ruleIndex /\ e.options = options
<1> DEFINE e == [rule |-> ruleIndex, waits |-> pendingOf(ruleIndex), options |-> options,
                 anonymous |-> IF Anon \in rules[ruleIndex].bind THEN latest[Anon] ELSE 0]
<1>1. armed' = Append(armed, e)
  BY DEF Arm
<1>2. ruleIndex \in Index
  BY DEF Arm, PlaceInv
<1>3. rules[ruleIndex] \in RuleRecord
  BY <1>2, RuleAssumption DEF RouterTypeOK, Index, Last
<1>4. pendingOf(ruleIndex) \subseteq Index
  <2>1. \A t \in rules[ruleIndex].bind : latest[t] \in 0..Last
    BY <1>3 DEF RouterTypeOK, RuleRecord
  <2> QED BY <2>1, Numbers DEF pendingOf
<1>5. latest[Anon] \in 0..Last
  BY RuleAssumption DEF RouterTypeOK
<1>6. options \subseteq Index
  BY DEF RouterTypeOK
<1>7. e \in ArmedRule
  BY <1>2, <1>4, <1>5, <1>6, Numbers DEF ArmedRule
<1> QED BY <1>1, <1>7

\* The rule a sweep looks at.
LEMMA SweptFacts ==
  ASSUME RouterTypeOK, ArmedInv, Sweeping
  PROVE  /\ Swept.rule \in Index /\ Swept.waits \subseteq Index /\ Swept.anonymous \in 0..Last
         /\ Swept.options \subseteq Index
         /\ Swept.rule <= ruleIndex
         /\ AtRule => Swept.rule < ruleIndex
         /\ rules[Swept.rule].race
<1>1. armed \in Seq(ArmedRule) /\ sweepAt \in 1..Len(armed)
  BY DEF RouterTypeOK, Sweeping, Default
<1>2. Swept \in ArmedRule
  BY <1>1 DEF Swept
<1> QED BY <1>1, <1>2 DEF ArmedInv, Swept, ArmedRule

\* Judging one armed rule disturbs nothing about the others.
LEMMA OthersStay ==
  ASSUME RouterTypeOK, Sweeping, ArmedInv, armed' = Others, rules' = rules,
         ruleIndex' = ruleIndex, AtRule' => AtRule
  PROVE  ArmedInv'
<1> SUFFICES ASSUME NEW b \in DOMAIN Others
             PROVE  /\ b <= Others[b].rule /\ Others[b].rule <= ruleIndex
                    /\ AtRule => Others[b].rule < ruleIndex
                    /\ rules[Others[b].rule].race
  BY DEF ArmedInv
<1>1. PICK a \in DOMAIN armed : Others[b] = armed[a] /\ b <= a
  BY OthersKeep
<1>2. b \in Nat /\ a \in Nat /\ armed[a].rule \in Nat
  BY OthersFacts, ArmedNumbers, Numbers
<1> QED BY <1>1, <1>2 DEF ArmedInv

\* A sweep finds an armed rule only while no query is parked.
LEMMA SweptNotParked ==
  ASSUME RouterTypeOK, ParkedInv, Sweeping
  PROVE  ~Parked
<1>1. sweepAt \in 1..Len(armed) /\ Len(<<>>) = 0
  BY DEF RouterTypeOK, Sweeping, Default
<1> QED BY <1>1 DEF ParkedInv

\* A step that leaves the query alone.
LEMMA AskedQuiet ==
  ASSUME AskedInv, UNCHANGED <<rules, query, armed, missed>>,
         Asked' => Asked /\ ruleIndex' = ruleIndex
  PROVE  AskedInv'
<1> SUFFICES ASSUME Asked, ruleIndex' = ruleIndex
             PROVE  (query.options = OptionsBefore(query.rule) /\ (RaceQuery \/ TurnQuery))'
  BY DEF AskedInv
<1>1. query.options = OptionsBefore(query.rule) /\ (RaceQuery \/ TurnQuery)
  BY DEF AskedInv
<1>2. OptionsBefore(query.rule)' = OptionsBefore(query.rule)
  BY DEF OptionsBefore
<1>3. RaceQuery' = RaceQuery /\ TurnQuery' = TurnQuery
  BY SameRules DEF RaceQuery, TurnQuery
<1> QED BY <1>1, <1>2, <1>3

\* Where the walk is after it has gone to a rule.
Landed ==
  /\ ruleIndex' \in 1..Default
  /\ stage' \in {"rule", "act"}
  /\ stage' = "rule" => ruleIndex' \in Index
  /\ stage' = "act" /\ ruleIndex' \in Index => ~rules[ruleIndex'].race

\* Going to the next rule, or staying at one.
LEMMA GotoNext ==
  ASSUME RouterTypeOK, RuleFacts, ruleIndex \in Index, Goto(ruleIndex + 1)
  PROVE  Landed /\ ruleIndex' = ruleIndex + 1
<1>1. ruleIndex + 1 \in 1..Default
  BY Numbers
<1>2. ruleIndex + 1 \in Index => (rules[ruleIndex + 1].race => rules[ruleIndex + 1].bind # {})
  BY DEF RuleFacts
<1> QED BY <1>1, <1>2 DEF Landed, Goto

LEMMA GotoSame ==
  ASSUME RouterTypeOK, RuleFacts, ruleIndex \in 1..Default, Goto(ruleIndex)
  PROVE  Landed /\ ruleIndex' = ruleIndex
<1>2. ruleIndex \in Index => (rules[ruleIndex].race => rules[ruleIndex].bind # {})
  BY DEF RuleFacts
<1> QED BY <1>2 DEF Landed, Goto

\* A step judges no rule anew but the one it passes.
JudgedOn ==
  /\ rules' = rules /\ missed \subseteq missed'
  /\ \A i \in Index : i < ruleIndex /\ ~rules[i].race => answer'[i] = answer[i]
  /\ \/ ruleIndex' = ruleIndex
     \/ /\ ruleIndex \in Index
        /\ ruleIndex' = ruleIndex + 1
        /\ \A i \in Index :
             i = ruleIndex /\ rules[i].act \in Terminal /\ ~rules[i].race => PassedOver(i)'

\* What such a step preserves.
LEMMA JudgedKept ==
  ASSUME RouterTypeOK, JudgedInv, JudgedOn
  PROVE  JudgedInv'
<1> USE DEF JudgedOn
<1> SUFFICES ASSUME NEW i \in 1..(ruleIndex' - 1), rules[i].act \in Terminal, ~rules[i].race
             PROVE  PassedOver(i)'
  BY DEF JudgedInv, JudgedBefore
<1>1. CASE i \in 1..(ruleIndex - 1)
  <2>1. i \in Index /\ i < ruleIndex
    BY <1>1, Numbers
  <2>2. PassedOver(i)
    BY <1>1 DEF JudgedInv, JudgedBefore
  <2> QED BY <2>1, <2>2 DEF PassedOver, failed
<1>2. CASE i \notin 1..(ruleIndex - 1)
  <2>1. ruleIndex \in Index /\ ruleIndex' = ruleIndex + 1 /\ i = ruleIndex
    BY <1>2, Numbers
  <2> QED BY <2>1
<1> QED BY <1>1, <1>2

\* No option that was passed is taken back, a rule that is passed adds its own, and
\* a rule is armed with the options of the moment.
SameBefore == \A j \in Index : j < ruleIndex /\ rules[j].act = "options" =>
                (j \in missed' <=> j \in missed)

OptionsOn ==
  /\ rules' = rules
  /\ SameBefore
  /\ \/ ruleIndex' = ruleIndex /\ options' = options
     \/ /\ ruleIndex \in Index /\ ruleIndex' = ruleIndex + 1
        /\ options' = IF rules[ruleIndex].act = "options" /\ ruleIndex \notin missed'
                      THEN options \cup {ruleIndex} ELSE options
  /\ \A b \in DOMAIN armed' :
       \/ \E a \in DOMAIN armed : armed'[b] = armed[a]
       \/ armed'[b].rule = ruleIndex /\ armed'[b].options = options

\* The options before a rule that was passed do not change any more.
LEMMA SameOptions ==
  ASSUME RouterTypeOK, rules' = rules, SameBefore, NEW i \in 0..Default, i <= ruleIndex
  PROVE  OptionsBefore(i)' = OptionsBefore(i)
<1>1. ASSUME NEW j \in 1..(i - 1), rules[j].act = "options"
      PROVE  j \in missed' <=> j \in missed
  <2>1. j \in Index /\ j < ruleIndex
    BY Numbers
  <2> QED BY <1>1, <2>1 DEF SameBefore
<1> QED BY <1>1 DEF OptionsBefore

\* What such a step preserves.
LEMMA OptionsKept ==
  ASSUME RouterTypeOK, ArmedInv, OptionsInv, OptionsOn
  PROVE  OptionsInv'
<1> USE DEF OptionsOn
<1>1. PICK n \in 0..Default : n = ruleIndex
  BY Numbers
<1>2. OptionsBefore(n)' = OptionsBefore(n)
  BY <1>1, SameOptions
<1>3. options = OptionsBefore(n)
  BY <1>1 DEF OptionsInv
<1>4. (options = OptionsBefore(ruleIndex))'
  <2>1. CASE ruleIndex' = ruleIndex /\ options' = options
    BY <2>1, <1>1, <1>2, <1>3 DEF OptionsBefore
  <2>2. CASE /\ ruleIndex \in Index /\ ruleIndex' = ruleIndex + 1
             /\ options' = IF rules[ruleIndex].act = "options" /\ ruleIndex \notin missed'
                           THEN options \cup {ruleIndex} ELSE options
    <3>1. 1..(ruleIndex' - 1) = 1..(n - 1) \cup {n} /\ n \notin 1..(n - 1)
      BY <2>2, <1>1, Numbers
    <3>2. options' = {j \in 1..(n - 1) : rules[j].act = "options" /\ j \notin missed'}
                     \cup {j \in {n} : rules[j].act = "options" /\ j \notin missed'}
      BY <2>2, <1>1, <1>2, <1>3 DEF OptionsBefore
    <3> QED BY <3>1, <3>2, <2>2 DEF OptionsBefore
  <2> QED BY <2>1, <2>2
<1>5. ASSUME NEW b \in DOMAIN armed'
      PROVE  (armed[b].options = OptionsBefore(armed[b].rule))'
  <2>1. CASE \E a \in DOMAIN armed : armed'[b] = armed[a]
    <3>1. PICK a \in DOMAIN armed : armed'[b] = armed[a]
      BY <2>1
    <3>2. PICK i \in 0..Default : i = armed[a].rule
      BY ArmedNumbers, Numbers
    <3>3. i <= ruleIndex
      BY <3>2 DEF ArmedInv
    <3>4. OptionsBefore(i)' = OptionsBefore(i)
      BY <3>3, SameOptions
    <3>5. armed[a].options = OptionsBefore(i)
      BY <3>2 DEF OptionsInv
    <3> QED BY <3>1, <3>2, <3>4, <3>5 DEF OptionsBefore
  <2>2. CASE armed'[b].rule = ruleIndex /\ armed'[b].options = options
    BY <2>2, <1>1, <1>2, <1>3 DEF OptionsBefore
  <2> QED BY <2>1, <2>2
<1> QED BY <1>4, <1>5 DEF OptionsInv

\* Which steps of the walk change a variable.
LEMMA Changes ==
  ASSUME mode = "walk", PlaceInv, [RouterNext]_routerVars
  PROVE  /\ answer' # answer => TakeAhead \/ FinishExchange
         /\ latest' # latest => Evaluate
         /\ future' # future => Evaluate \/ Route \/ (\E i \in Index : Resolve(i))
         /\ armed' # armed => Arm \/ SweepMiss \/ SweepHit
         /\ query' # query => Route \/ EndOfRules \/ SweepHit
         /\ outcome' # outcome =>
              Respond \/ RejectOrPredefined \/ SweepHit \/ Abandon \/ TakeAhead \/ FinishExchange
         /\ missed' # missed => Bind \/ SweepMiss
         /\ options' # options => RouteOptions
         /\ settled' # settled => SettleAtRule \/ Settle
         /\ unsent' # unsent => \E i \in Index : Resolve(i) \/ SendWake(i)
         /\ cancelled' # cancelled => cancelled' \subseteq cancelled \cup Launched
         /\ suspension' # suspension =>
              \/ Bind \/ Evaluate \/ Respond \/ Route \/ RejectOrPredefined
              \/ EndOfRules \/ SweepHit \/ FinishExchange
         /\ sweepAt' # sweepAt => Arm \/ Settle \/ SweepPast
<1> USE DEF RouterNext, Step, Deliver, SettleAtRule, Arm, Bind, RouteOptions, Evaluate, Respond,
       Route, RejectOrPredefined, EndOfRules, Settle, SweepPast, SweepMiss, SweepHit, SweepEnd,
       Hold, Wake, Abandon, TakeAhead, FinishExchange, MatchDNS, FinishLegacy, Resolve,
       SendWake, Cancel, walkVars, routerVars, PlaceInv
<1>1. answer' # answer => TakeAhead \/ FinishExchange
  OBVIOUS
<1>2. latest' # latest => Evaluate
  OBVIOUS
<1>3. future' # future => Evaluate \/ Route \/ (\E i \in Index : Resolve(i))
  OBVIOUS
<1>4. armed' # armed => Arm \/ SweepMiss \/ SweepHit
  OBVIOUS
<1>5. query' # query => Route \/ EndOfRules \/ SweepHit
  OBVIOUS
<1>6. outcome' # outcome =>
        Respond \/ RejectOrPredefined \/ SweepHit \/ Abandon \/ TakeAhead \/ FinishExchange
  OBVIOUS
<1>7. missed' # missed => Bind \/ SweepMiss
  OBVIOUS
<1>8. options' # options => RouteOptions
  OBVIOUS
<1>9. settled' # settled => SettleAtRule \/ Settle
  OBVIOUS
<1>10. sweepAt' # sweepAt => Arm \/ Settle \/ SweepPast
  OBVIOUS
<1>11. unsent' # unsent => \E i \in Index : Resolve(i) \/ SendWake(i)
  OBVIOUS
<1>12. suspension' # suspension =>
         \/ Bind \/ Evaluate \/ Respond \/ Route \/ RejectOrPredefined \/ EndOfRules \/ SweepHit
         \/ FinishExchange
  OBVIOUS
<1>13. cancelled' # cancelled => cancelled' \subseteq cancelled \cup Launched
  BY DEF Return, finishPending, cancelDNSFutures
<1> QED BY <1>1, <1>2, <1>3, <1>4, <1>5, <1>6, <1>7, <1>8, <1>9, <1>10, <1>11, <1>12, <1>13

\* A response that a rule returns has come, or is an error.
LEMMA ResponseResult ==
  ASSUME RouterTypeOK, SettledInv, NEW i, NEW anonymous \in 0..Last
  PROVE  responseOf(i, anonymous) \in {"good", "bad", "err", "rejected"}
<1>1. \A k \in Index : resolved(k) => future[k] \in {"good", "bad", "err", "rejected"}
  BY Numbers DEF resolved
<1>2. anonymous # 0 => anonymous \in Index
  BY Numbers
<1> DEFINE k == latest[CHOOSE t \in rules[i].bind : TRUE]
<1>3. k \in settled => k \in Index /\ resolved(k)
  BY Numbers DEF SettledInv
<1> HIDE DEF k
<1>4. responseOf(i, anonymous) =
        IF rules[i].bind \in {{}, {Anon}}
        THEN IF anonymous # 0 /\ resolved(anonymous) THEN future[anonymous] ELSE "err"
        ELSE IF k \in settled THEN future[k] ELSE "err"
  BY DEF responseOf, k
<1> QED BY <1>1, <1>2, <1>3, <1>4

\* A step of the walk preserves the types of the variables, group by group.
LEMMA SweepTypeStep ==
  ASSUME RouterTypeOK, RuleFacts, mode = "walk", DoneInv, WalkInv, [RouterNext]_routerVars,
         rules' = rules
  PROVE  SweepType'
<1> USE SameRules, Numbers, TypeGroups DEF SweepType, WalkInv
<1>1. CASE sweepAt' = sweepAt
  BY <1>1
<1>2. CASE Arm
  BY <1>2 DEF Arm
<1>3. CASE Settle
  BY <1>3 DEF Settle
<1>4. CASE SweepPast
  <2>1. sweepAt' = sweepAt + 1 /\ sweepAt \in 1..Len(armed)
    BY <1>4 DEF SweepPast, Sweeping
  <2>2. sweepAt \in DOMAIN armed
    BY <2>1, ArmedNumbers
  <2>3. sweepAt <= armed[sweepAt].rule /\ armed[sweepAt].rule \in Index
    BY <2>2, ArmedNumbers DEF ArmedInv
  <2> QED BY <2>1, <2>3
<1> QED BY <1>1, <1>2, <1>3, <1>4, Changes

LEMMA QueryTypeStep ==
  ASSUME RouterTypeOK, RuleFacts, mode = "walk", DoneInv, WalkInv, [RouterNext]_routerVars,
         rules' = rules
  PROVE  QueryType'
<1> USE SameRules, Numbers, TypeGroups DEF QueryType, WalkInv
<1>1. CASE query' = query
  BY <1>1
<1>2. CASE Route
  <2>1. PICK f \in BOOLEAN : query' = query \/ query' = queryOf(ruleIndex, options, f)
    <3>1. Acting("route") /\ ruleIndex \in Index
      BY <1>2 DEF Route, Acting
    <3>2. rules[ruleIndex].fallback \in BOOLEAN
      BY <3>1 DEF RuleFacts, RuleRecord
    <3> QED BY <1>2, <3>2 DEF Route
  <2> QED BY <2>1 DEF queryOf, SetType
<1>3. CASE EndOfRules
  <2>1. PICK f \in BOOLEAN : query' = query \/ query' = queryOf(Default, options, f)
    BY <1>3 DEF EndOfRules
  <2> QED BY <2>1 DEF queryOf, SetType
<1>4. CASE SweepHit
  <2>1. Sweeping
    BY <1>4 DEF SweepHit
  <2>3. PICK f \in BOOLEAN : query' = query \/ query' = queryOf(Swept.rule, Swept.options, f)
    BY <1>4 DEF SweepHit, armedOptions
  <2>2. Swept.rule \in Index /\ Swept.options \subseteq Index
    BY <2>1, SweptFacts
  <2> QED BY <2>2, <2>3 DEF queryOf
<1> QED BY <1>1, <1>2, <1>3, <1>4, Changes

LEMMA OutcomeTypeStep ==
  ASSUME RouterTypeOK, RuleFacts, mode = "walk", DoneInv, WalkInv, [RouterNext]_routerVars,
         rules' = rules
  PROVE  OutcomeType'
<1> USE SameRules, Numbers, TypeGroups DEF OutcomeType, WalkInv
<1>1. CASE outcome' = outcome
  BY <1>1
<1>2. CASE Respond
  <2>1. PICK k \in 0..Last : k = latest[Anon]
    BY RuleAssumption DEF LatestType
  <2>2. PICK i \in Index : i = ruleIndex
    BY <1>2 DEF Respond, Acting
  <2>3. outcome' = outcome \/ outcome' = [result |-> responseOf(i, k), by |-> i]
    BY <1>2, <2>1, <2>2 DEF Respond, Return
  <2>4. responseOf(i, k) \in Result
    BY ResponseResult DEF Result
  <2> QED BY <2>2, <2>3, <2>4
<1>3. CASE RejectOrPredefined
  <2>1. /\ ruleIndex \in Index
        /\ outcome' = outcome \/ outcome' = [result |-> resultOf(ruleIndex), by |-> ruleIndex]
    BY <1>3 DEF RejectOrPredefined, Acting, Return
  <2>2. resultOf(ruleIndex) \in {"drop", "good"}
    BY DEF resultOf
  <2> QED BY <2>1, <2>2 DEF Result
<1>4. CASE SweepHit
  <2>1. Sweeping /\ Swept.rule \in Index /\ Swept.anonymous \in 0..Last
    BY <1>4, SweptFacts DEF SweepHit
  <2>2. PICK i \in Index : i = Swept.rule
    BY <2>1
  <2>3. PICK k \in 0..Last : k = Swept.anonymous
    BY <2>1
  <2>4. \/ outcome' = outcome
        \/ outcome' = [result |-> responseOf(i, k), by |-> i]
        \/ outcome' = [result |-> resultOf(i), by |-> i]
    BY <1>4, <2>2, <2>3 DEF SweepHit, Return
  <2>5. responseOf(i, k) \in Result /\ resultOf(i) \in Result \cup {"drop"}
    BY ResponseResult DEF Result, resultOf
  <2> QED BY <2>4, <2>5
<1>5. CASE Abandon
  <2>1. outcome' = [result |-> "err", by |-> 0]
    BY <1>5 DEF Abandon, Return
  <2> QED BY <2>1 DEF Result
<1>6. CASE TakeAhead
  <2>1. /\ outcome' = [result |-> future[ahead], by |-> ahead]
        /\ ahead = ruleIndex /\ ruleIndex \in Index
    BY <1>6 DEF TakeAhead, Return, ParkedInv
  <2>2. future[ahead] \in Result
    BY <1>6, <2>1 DEF TakeAhead, resolved, Result
  <2> QED BY <2>1, <2>2
<1>7. CASE FinishExchange
  <2>1. PICK r \in {"good", "bad", "err"} :
          outcome' = outcome \/ outcome' = [result |-> r, by |-> query.rule]
    BY <1>7 DEF FinishExchange, Return
  <2>2. query.rule \in 0..Default
    BY DEF QueryType
  <2> QED BY <2>1, <2>2 DEF Result
<1> QED BY <1>1, <1>2, <1>3, <1>4, <1>5, <1>6, <1>7, Changes

LEMMA AnswerTypeStep ==
  ASSUME RouterTypeOK, RuleFacts, mode = "walk", DoneInv, WalkInv, [RouterNext]_routerVars,
         rules' = rules
  PROVE  AnswerType'
<1> USE SameRules, Numbers, TypeGroups DEF AnswerType, WalkInv
<1>1. CASE answer' = answer
  BY <1>1
<1>2. CASE TakeAhead
  <2>1. /\ answer' = [answer EXCEPT ![ahead] = future[ahead]]
        /\ ahead = ruleIndex /\ ruleIndex \in Index
    BY <1>2 DEF TakeAhead, ParkedInv
  <2>2. future[ahead] \in Result
    BY <1>2, <2>1 DEF TakeAhead, resolved, Result
  <2> QED BY <2>1, <2>2
<1>3. CASE FinishExchange
  <2>1. PICK r \in {"good", "bad", "err"} : answer' = [answer EXCEPT ![query.rule] = r]
    BY <1>3 DEF FinishExchange
  <2> QED BY <2>1 DEF Result
<1> QED BY <1>1, <1>2, <1>3, Changes

LEMMA FutureTypeStep ==
  ASSUME RouterTypeOK, RuleFacts, mode = "walk", DoneInv, WalkInv, [RouterNext]_routerVars,
         rules' = rules
  PROVE  FutureType'
<1> USE SameRules, Numbers, TypeGroups DEF FutureType, WalkInv
<1>1. CASE future' = future
  BY <1>1
<1>2. CASE Evaluate
  BY <1>2 DEF Evaluate, launch
<1>3. CASE Route
  BY <1>3 DEF Route, launch
<1>4. ASSUME NEW i \in Index, Resolve(i) PROVE FutureType'
  <2>1. PICK r \in {"good", "bad", "err"} : future' = [future EXCEPT ![i] = r]
    BY <1>4 DEF Resolve
  <2> QED BY <2>1 DEF Result
<1> QED BY <1>1, <1>2, <1>3, <1>4, Changes

LEMMA LatestTypeStep ==
  ASSUME RouterTypeOK, RuleFacts, mode = "walk", DoneInv, WalkInv, [RouterNext]_routerVars,
         rules' = rules
  PROVE  LatestType'
<1> USE SameRules, Numbers, TypeGroups DEF LatestType, WalkInv
<1>1. CASE latest' = latest
  BY <1>1
<1>2. CASE Evaluate
  <2>1. ruleIndex \in Index
    BY <1>2 DEF Evaluate, Acting
  <2> QED BY <1>2, <2>1 DEF Evaluate
<1> QED BY <1>1, <1>2, Changes

LEMMA ArmedTypeStep ==
  ASSUME RouterTypeOK, RuleFacts, mode = "walk", DoneInv, WalkInv, [RouterNext]_routerVars,
         rules' = rules
  PROVE  ArmedType'
<1> USE SameRules, Numbers, TypeGroups DEF ArmedType, WalkInv
<1>1. CASE armed' = armed
  BY <1>1
<1>2. CASE Arm
  <2>1. PICK e \in ArmedRule : armed' = Append(armed, e)
    BY <1>2, ArmEntry
  <2> QED BY <2>1
<1>3. CASE SweepMiss
  BY <1>3, OthersFacts DEF SweepMiss
<1>4. CASE SweepHit
  <2>1. Sweeping /\ (armed' = Others \/ armed' = <<>>)
    BY <1>4 DEF SweepHit
  <2>2. <<>> \in Seq(ArmedRule)
    OBVIOUS
  <2>3. Others \in Seq(ArmedRule)
    BY <2>1, OthersFacts
  <2> QED BY <2>1, <2>2, <2>3
<1> QED BY <1>1, <1>2, <1>3, <1>4, Changes

\* The responses that were noted have come.
LEMMA SettledStep ==
  ASSUME RouterTypeOK, RuleFacts, mode = "walk", DoneInv, WalkInv, [RouterNext]_routerVars,
         rules' = rules
  PROVE  SettledInv'
<1> USE SameRules, Numbers, TypeGroups DEF SettledInv, WalkInv
<1>1. CASE settled' = settled /\ future' = future
  BY <1>1 DEF resolved
<1>2. CASE SettleAtRule
  BY <1>2 DEF SettleAtRule, settleDNSFutures, resolved
<1>3. CASE Settle
  BY <1>3 DEF Settle, settleDNSFutures, resolved
<1>4. CASE Evaluate
  <2>1. ruleIndex \in Index /\ future[ruleIndex] = "none"
    BY <1>4 DEF Evaluate, Acting, LaunchInv
  <2>2. /\ settled' = settled
        /\ future' = future \/ future' = [future EXCEPT ![ruleIndex] = "running"]
    BY <1>4 DEF Evaluate, launch
  <2> QED BY <2>1, <2>2 DEF resolved
<1>5. CASE Route
  <2>1. ruleIndex \in Index /\ (ahead = 0 => future[ruleIndex] = "none")
    BY <1>5 DEF Route, Acting, LaunchInv
  <2>2. /\ settled' = settled
        /\ \/ future' = future
           \/ ahead = 0 /\ future' = [future EXCEPT ![ruleIndex] = "running"]
    BY <1>5 DEF Route, launch
  <2> QED BY <2>1, <2>2 DEF resolved
<1>6. ASSUME NEW i \in Index, Resolve(i) PROVE SettledInv'
  BY <1>6 DEF Resolve, resolved
<1> QED BY <1>1, <1>2, <1>3, <1>4, <1>5, <1>6, Changes

\* Nothing is launched behind an armed race rule.
LEMMA HeldStep ==
  ASSUME RouterTypeOK, RuleFacts, mode = "walk", DoneInv, WalkInv, [RouterNext]_routerVars,
         rules' = rules
  PROVE  HeldInv'
<1> USE SameRules, Numbers, TypeGroups DEF HeldInv, WalkInv
<1> USE ArmedNumbers
<1>1. CASE armed' = armed /\ future' = future
  BY <1>1
<1>2. CASE Evaluate
  BY <1>2 DEF Evaluate, mustHold, launch
<1>3. CASE Route
  BY <1>3 DEF Route, mustHold, launch
<1>4. ASSUME NEW i \in Index, Resolve(i) PROVE HeldInv'
  BY <1>4 DEF Resolve
<1>5. CASE Arm
  <2>1. PICK e \in ArmedRule : armed' = Append(armed, e) /\ e.rule = ruleIndex
    BY <1>5, ArmEntry
  <2>2. /\ DOMAIN armed' = 1..(Len(armed) + 1)
        /\ \A a \in 1..(Len(armed) + 1) : armed'[a] = IF a = Len(armed) + 1 THEN e ELSE armed[a]
    BY <2>1 DEF RouterTypeOK
  <2>3. \A k \in Index : future[k] # "none" /\ ~rules[k].speculative => k < ruleIndex
    BY DEF LaunchInv
  <2>4. rules' = rules /\ future' = future
    BY <1>5 DEF Arm
  <2> QED BY <2>1, <2>2, <2>3, <2>4
<1>6. CASE SweepMiss
  <2>1. Sweeping /\ armed' = Others /\ rules' = rules /\ future' = future
    BY <1>6 DEF SweepMiss
  <2>2. \A b \in DOMAIN armed' : \E a \in DOMAIN armed : armed'[b] = armed[a]
    BY <2>1, OthersKeep
  <2> QED BY <2>1, <2>2
<1>7. CASE SweepHit
  <2>1. Sweeping /\ (armed' = Others \/ armed' = <<>>) /\ rules' = rules /\ future' = future
    BY <1>7 DEF SweepHit
  <2>2. \A b \in DOMAIN armed' : \E a \in DOMAIN armed : armed'[b] = armed[a]
    BY <2>1, OthersKeep
  <2> QED BY <2>1, <2>2
<1> QED BY <1>1, <1>2, <1>3, <1>4, <1>5, <1>6, <1>7, Changes

\* Types of the sets of rules.
LEMMA SetTypeStep ==
  ASSUME RouterTypeOK, RuleFacts, mode = "walk", DoneInv, WalkInv, [RouterNext]_routerVars,
         rules' = rules
  PROVE  SetType'
<1> USE SameRules, Numbers, TypeGroups DEF SetType, WalkInv
<1>1. options' \subseteq Index
  <2>1. CASE RouteOptions
    BY <2>1 DEF RouteOptions, Acting
  <2> QED BY <2>1, Changes
<1>2. cancelled' \subseteq Index
  <2>1. Launched \subseteq Index
    BY DEF Launched
  <2> QED BY <2>1, Changes
<1>3. unsent' \subseteq Index
  <2>1. ASSUME NEW i \in Index, Resolve(i) \/ SendWake(i) PROVE unsent' \subseteq Index
    BY <2>1 DEF Resolve, SendWake
  <2> QED BY <2>1, Changes
<1>4. settled' \subseteq Index
  <2>1. CASE SettleAtRule \/ Settle
    BY <2>1 DEF SettleAtRule, Settle, settleDNSFutures
  <2> QED BY <2>1, Changes
<1>5. missed' \subseteq Index
  <2>1. CASE Bind
    BY <2>1 DEF Bind, PlaceInv
  <2>2. CASE SweepMiss
    BY <2>2, SweptFacts DEF SweepMiss
  <2> QED BY <2>1, <2>2, Changes
<1> QED BY <1>1, <1>2, <1>3, <1>4, <1>5

\* A rule waits for rules of the list.
LEMMA PendingInIndex ==
  ASSUME RouterTypeOK, NEW i \in Index
  PROVE  pendingOf(i) \subseteq Index
<1>1. rules[i] \in RuleRecord
  BY RuleAssumption DEF RouterTypeOK, Index, Last
<1>2. \A t \in rules[i].bind : latest[t] \in 0..Last
  BY <1>1 DEF RouterTypeOK, RuleRecord
<1> QED BY <1>2, Numbers DEF pendingOf

\* Type of the suspension.
LEMMA SuspensionTypeStep ==
  ASSUME RouterTypeOK, RuleFacts, mode = "walk", DoneInv, WalkInv, [RouterNext]_routerVars,
         rules' = rules
  PROVE  SuspensionType'
<1> USE SameRules, Numbers, TypeGroups DEF SuspensionType, WalkInv
<1>1. CASE suspension' = suspension
  BY <1>1
<1>2. CASE Bind
  <2>1. PICK i \in Index : i = ruleIndex
    BY <1>2 DEF Bind, PlaceInv
  <2>2. pendingOf(i) \subseteq Index
    BY <2>1, PendingInIndex
  <2>3. suspension' = suspension \/ \E k \in Index : suspension' = [kind |-> "await", on |-> k]
    BY <1>2, <2>1, <2>2 DEF Bind, Suspend
  <2> QED BY <2>3
<1>3. CASE Respond
  <2>1. latest[Anon] \in 0..Last
    BY RuleAssumption DEF LatestType
  <2>2. \E k \in {"await", "drain"}, n \in 0..Last :
          suspension' = suspension \/ suspension' = [kind |-> k, on |-> n]
    BY <1>3, <2>1 DEF Respond, Suspend
  <2> QED BY <2>2
<1>4. CASE Evaluate
  <2>1. \E k \in {"none", "await", "drain", "pending"}, n \in 0..Last :
          suspension' = suspension \/ suspension' = [kind |-> k, on |-> n]
    BY <1>4 DEF Evaluate, Suspend, NoSuspension
  <2> QED BY <2>1
<1>5. CASE Route
  <2>1. \/ suspension' = suspension
        \/ suspension' = [kind |-> "drain", on |-> 0]
        \/ suspension' = [kind |-> "pending", on |-> 0]
        \/ suspension' = [kind |-> "pending", on |-> ahead]
    BY <1>5 DEF Route, Suspend
  <2> QED BY <2>1
<1>6. CASE RejectOrPredefined
  <2>1. \E k \in {"none", "await", "drain", "pending"}, n \in 0..Last :
          suspension' = suspension \/ suspension' = [kind |-> k, on |-> n]
    BY <1>6 DEF RejectOrPredefined, Suspend, NoSuspension
  <2> QED BY <2>1
<1>7. CASE EndOfRules
  <2>1. \/ suspension' = suspension
        \/ suspension' = [kind |-> "drain", on |-> 0]
        \/ suspension' = [kind |-> "pending", on |-> 0]
    BY <1>7 DEF EndOfRules, Suspend
  <2> QED BY <2>1
<1>8. CASE SweepHit
  <2>1. \/ suspension' = suspension
        \/ suspension' = [kind |-> "pending", on |-> 0]
    BY <1>8 DEF SweepHit, Suspend
  <2> QED BY <2>1
<1>9. CASE FinishExchange
  <2>1. \E k \in {"none", "await", "drain", "pending"}, n \in 0..Last :
          suspension' = suspension \/ suspension' = [kind |-> k, on |-> n]
    BY <1>9 DEF FinishExchange, Suspend, NoSuspension
  <2> QED BY <2>1
<1> QED BY <1>1, <1>2, <1>3, <1>4, <1>5, <1>6, <1>7, <1>8, <1>9, Changes

\* Nothing follows once the query is decided.
LEMMA DoneStops ==
  ASSUME DoneInv, stage = "done", [RouterNext]_routerVars
  PROVE  UNCHANGED routerVars
BY DEF DoneInv, RouterNext, Step, Deliver, SettleAtRule, Arm, Bind, RouteOptions, Evaluate,
       Respond, Route, RejectOrPredefined, Acting, EndOfRules, Settle, SweepPast, SweepMiss,
       SweepHit, Sweeping, SweepEnd, Hold, Wake, Abandon, TakeAhead, FinishExchange, MatchDNS,
       FinishLegacy, Cancel

\* The rule of the turn may decide.
LEMMA ListedByTurn ==
  ASSUME JudgedInv', rules' = rules, outcome'.by = ruleIndex',
         outcome'.by # Default /\ rules[outcome'.by].fallback /\ failed(outcome'.result)
           => ctx' = "done" \/ ahead' = outcome'.by
  PROVE  ListedOrder'
<1>1. JudgedBefore(ruleIndex)'
  BY DEF JudgedInv
<1> QED BY <1>1, SameRules DEF ListedOrder, JudgedBefore, PassedOver, failed

\* A step of the walk lets no rule decide before its turn.
LEMMA ListedStep ==
  ASSUME RouterTypeOK, RuleFacts, mode = "walk", DoneInv, WalkInv, [RouterNext]_routerVars,
         rules' = rules,
         ListedOrder, JudgedInv'
  PROVE  ListedOrder'
<1> USE SameRules, Numbers, TypeGroups DEF ListedOrder, WalkInv
<1>1. CASE outcome' = outcome
  <2>1. CASE stage = "done"
    <3>1. UNCHANGED routerVars
      BY <2>1, DoneStops
    <3> QED BY <3>1 DEF routerVars, walkVars, Done, failed
  <2>2. CASE stage # "done"
    BY <1>1, <2>2 DEF DoneInv, Done
  <2> QED BY <2>1, <2>2
<1>2. CASE Respond
  <2>1. CASE outcome' # outcome
    <3>1. /\ outcome'.by = ruleIndex' /\ ruleIndex' = ruleIndex /\ ruleIndex \in Index
          /\ rules[ruleIndex].act = "respond"
      BY <1>2, <2>1 DEF Respond, Acting, Return
    <3>2. ~rules[ruleIndex].fallback
      BY <3>1 DEF RuleFacts
    <3> QED BY <3>1, <3>2, ListedByTurn
  <2> QED BY <2>1, <1>1
<1>3. CASE RejectOrPredefined
  <2>1. CASE outcome' # outcome
    <3>1. /\ outcome'.by = ruleIndex' /\ ruleIndex' = ruleIndex /\ ruleIndex \in Index
          /\ rules[ruleIndex].act \in {"answer", "drop"}
      BY <1>3, <2>1 DEF RejectOrPredefined, Acting, Return
    <3>2. ~rules[ruleIndex].fallback
      BY <3>1 DEF RuleFacts
    <3> QED BY <3>1, <3>2, ListedByTurn
  <2> QED BY <2>1, <1>1
<1>4. CASE SweepHit
  <2>1. CASE outcome' # outcome
    <3>1. outcome'.by = Swept.rule /\ Sweeping
      <4>1. \E r : outcome' = [result |-> r, by |-> Swept.rule]
        BY <1>4, <2>1 DEF SweepHit, Return
      <4> QED BY <4>1, <1>4 DEF SweepHit
    <3>2. outcome'.by # Default /\ rules[outcome'.by].race
      BY <3>1, SweptFacts
    <3> QED BY <3>2
  <2> QED BY <2>1, <1>1
<1>5. CASE Abandon
  BY <1>5 DEF Abandon, Return
<1>6. CASE TakeAhead
  <2>1. outcome'.by = ruleIndex' /\ ahead' = outcome'.by
    BY <1>6 DEF TakeAhead, Return, ParkedInv
  <2> QED BY <2>1, ListedByTurn
<1>7. CASE FinishExchange
  <2>1. CASE outcome' # outcome
    <3>1. RaceQuery \/ TurnQuery
      BY <1>7 DEF FinishExchange, AskedInv, Asked
    <3>2. PICK r \in {"good", "bad", "err"} :
            /\ outcome' = [result |-> r, by |-> query.rule]
            /\ ~(query.fallback /\ ctx = "live" /\ failed(r))
            /\ ruleIndex' = ruleIndex /\ ctx' = ctx
      BY <1>7, <2>1 DEF FinishExchange, Return
    <3>3. CASE RaceQuery
      BY <3>2, <3>3 DEF RaceQuery
    <3>4. CASE TurnQuery
      <4>1. outcome'.by = ruleIndex' /\ outcome'.result = r
        BY <3>2, <3>4 DEF TurnQuery
      <4>2. ASSUME ruleIndex # Default, rules[ruleIndex].fallback, failed(r) PROVE ctx' = "done"
        <5>1. query.fallback
          BY <3>4, <4>2 DEF TurnQuery
        <5>2. ctx # "live"
          BY <3>2, <4>2, <5>1
        <5> QED BY <5>2, <3>2 DEF ControlType
      <4> QED BY <4>1, <4>2, <3>2, ListedByTurn
    <3> QED BY <3>1, <3>3, <3>4
  <2> QED BY <2>1, <1>1
<1> QED BY <1>1, <1>2, <1>3, <1>4, <1>5, <1>6, <1>7, Changes

\* Types of what controls the walk.
LEMMA ControlTypeStep ==
  ASSUME RouterTypeOK, RuleFacts, mode = "walk", DoneInv, WalkInv, [RouterNext]_routerVars
  PROVE  ControlType'
<1> USE SameRules, Numbers, TypeGroups DEF WalkInv
<1> USE DEF ControlType
<1>1. CASE SettleAtRule
  BY <1>1 DEF SettleAtRule, settleDNSFutures
<1>2. CASE Arm
  BY <1>2 DEF Arm, pendingOf, Goto
<1>3. CASE Bind
  BY <1>3 DEF Bind, Suspend, Goto
<1>4. CASE RouteOptions
  BY <1>4 DEF RouteOptions, Acting, Goto, walkVars
<1>5. CASE Evaluate
  BY <1>5 DEF Evaluate, Acting, Goto, Suspend, launch, mustHold
<1>6. CASE Respond
  BY <1>6 DEF Respond, Acting, Suspend, Return, mustHold, cancelDNSFutures
<1>7. CASE Route
  BY <1>7 DEF Route, Acting, Goto, Suspend, launch, mustHold, queryOf
<1>8. CASE RejectOrPredefined
  BY <1>8 DEF RejectOrPredefined, Acting, Suspend, Return, mustHold, cancelDNSFutures, resultOf
<1>9. CASE EndOfRules
  BY <1>9 DEF EndOfRules, Suspend, mustHold, queryOf
<1>10. CASE Settle
  BY <1>10 DEF Settle, settleDNSFutures
<1>11. CASE SweepPast
  BY <1>11 DEF SweepPast, Sweeping
<1>12. CASE SweepMiss
  BY <1>12 DEF SweepMiss, Sweeping, Swept
<1>13. CASE SweepHit
  BY <1>13 DEF SweepHit, Sweeping, Swept, Return, Suspend, finishPending, cancelDNSFutures,
     queryOf, armedOptions, resultOf
<1>14. CASE SweepEnd
  BY <1>14 DEF SweepEnd, Goto, walkVars
<1>15. CASE Hold
  BY <1>15 DEF Hold, Goto, finishPending, cancelDNSFutures, mustHold
<1>16. CASE Wake
  BY <1>16 DEF Wake
<1>17. CASE Abandon
  BY <1>17 DEF Abandon, Return, cancelDNSFutures
<1>18. CASE TakeAhead
  BY <1>18 DEF TakeAhead, Return, cancelDNSFutures
<1>19. CASE FinishExchange
  BY <1>19 DEF FinishExchange, Return, cancelDNSFutures, nextAfter, NoSuspension, failed
<1>20. CASE Cancel
  BY <1>20 DEF Cancel, walkVars
<1>21. ASSUME NEW i \in Index, Resolve(i), stage # "done" PROVE ControlType'
  BY <1>21 DEF Resolve, wakeUp
<1>22. ASSUME NEW i \in Index, SendWake(i), stage # "done" PROVE ControlType'
  BY <1>22 DEF SendWake, wakeUp
<1>23. CASE UNCHANGED routerVars
  BY <1>23 DEF routerVars, walkVars
<1> QED BY <1>1, <1>2, <1>3, <1>4, <1>5, <1>6, <1>7, <1>8, <1>9, <1>10, <1>11, <1>12, <1>13,
           <1>14, <1>15, <1>16, <1>17, <1>18, <1>19, <1>20, <1>21, <1>22, <1>23 DEF RouterNext,
           Step, Deliver, MatchDNS, FinishLegacy, PlaceInv

\* The walk stays in the list.
LEMMA PlaceStep ==
  ASSUME RouterTypeOK, RuleFacts, mode = "walk", DoneInv, WalkInv, [RouterNext]_routerVars
  PROVE  PlaceInv'
<1> USE SameRules, Numbers DEF WalkInv
<1> USE DEF PlaceInv
<1>1. CASE SettleAtRule
  BY <1>1 DEF SettleAtRule, settleDNSFutures
<1>2. CASE Arm
  <2>1. ruleIndex \in Index /\ rules' = rules /\ stage = "bound" /\ rules[ruleIndex].race
    BY <1>2 DEF Arm
  <2>2. \/ Goto(ruleIndex + 1)
        \/ stage' = "sweep" /\ sweepFrom' = "walk" /\ ruleIndex' = ruleIndex
    BY <1>2 DEF Arm
  <2>3. CASE Goto(ruleIndex + 1)
    BY <2>1, <2>3, GotoNext DEF Landed
  <2> QED BY <2>1, <2>2, <2>3
<1>3. CASE Bind
  <2>1. ruleIndex \in Index /\ rules' = rules /\ ~rules[ruleIndex].race
    BY <1>3 DEF Bind
  <2>2. \/ Goto(ruleIndex + 1)
        \/ stage' \in {"loop", "act"} /\ ruleIndex' = ruleIndex
    BY <1>3 DEF Bind, Suspend
  <2>3. CASE Goto(ruleIndex + 1)
    BY <2>1, <2>3, GotoNext DEF Landed
  <2> QED BY <2>1, <2>2, <2>3
<1>4. CASE RouteOptions
  <2>1. ruleIndex \in Index /\ rules' = rules
    BY <1>4 DEF RouteOptions, Acting
  <2>2. \/ Goto(ruleIndex + 1)
        \/ stage' = "loop" /\ ruleIndex' = ruleIndex
    BY <1>4 DEF RouteOptions, Suspend
  <2>3. CASE Goto(ruleIndex + 1)
    BY <2>1, <2>3, GotoNext DEF Landed
  <2> QED BY <2>1, <2>2, <2>3
<1>5. CASE Evaluate
  <2>1. ruleIndex \in Index /\ rules' = rules
    BY <1>5 DEF Evaluate, Acting
  <2>2. \/ Goto(ruleIndex + 1)
        \/ stage' = "loop" /\ ruleIndex' = ruleIndex
    BY <1>5 DEF Evaluate, Suspend
  <2>3. CASE Goto(ruleIndex + 1)
    BY <2>1, <2>3, GotoNext DEF Landed
  <2> QED BY <2>1, <2>2, <2>3
<1>6. CASE Respond
  BY <1>6 DEF Respond, Acting, Suspend, Return, mustHold, cancelDNSFutures
<1>7. CASE Route
  <2>1. ruleIndex \in Index /\ rules' = rules
    BY <1>7 DEF Route, Acting
  <2>2. \/ Goto(ruleIndex + 1)
        \/ stage' = "loop" /\ ruleIndex' = ruleIndex
    BY <1>7 DEF Route, Suspend
  <2>3. CASE Goto(ruleIndex + 1)
    BY <2>1, <2>3, GotoNext DEF Landed
  <2> QED BY <2>1, <2>2, <2>3
<1>8. CASE RejectOrPredefined
  BY <1>8 DEF RejectOrPredefined, Acting, Suspend, Return, mustHold, cancelDNSFutures, resultOf
<1>9. CASE EndOfRules
  BY <1>9 DEF EndOfRules, Suspend, mustHold, queryOf
<1>10. CASE Settle
  BY <1>10 DEF Settle, settleDNSFutures
<1>11. CASE SweepPast
  BY <1>11 DEF SweepPast, Sweeping
<1>12. CASE SweepMiss
  BY <1>12 DEF SweepMiss, Sweeping, Swept
<1>13. CASE SweepHit
  BY <1>13 DEF SweepHit, Sweeping, Swept, Return, Suspend, finishPending, cancelDNSFutures,
     queryOf, armedOptions, resultOf
<1>14. CASE SweepEnd
  <2>1. stage = "sweep" /\ rules' = rules
    BY <1>14 DEF SweepEnd
  <2>2. \/ Goto(ruleIndex + 1) /\ sweepFrom = "walk"
        \/ stage' = "hold" /\ ruleIndex' = ruleIndex
    BY <1>14 DEF SweepEnd
  <2>3. CASE Goto(ruleIndex + 1) /\ sweepFrom = "walk"
    BY <2>1, <2>3, GotoNext DEF Landed
  <2> QED BY <2>1, <2>2, <2>3
<1>15. CASE Hold
  <2>1. stage = "hold" /\ rules' = rules
    BY <1>15 DEF Hold
  <2>2. \/ Goto(ruleIndex)
        \/ stage' \in {"exchange", "ahead", "wait"} /\ ruleIndex' = ruleIndex
    BY <1>15 DEF Hold, finishPending
  <2>3. CASE Goto(ruleIndex)
    BY <2>1, <2>3, GotoSame DEF Landed
  <2> QED BY <2>1, <2>2, <2>3
<1>16. CASE Wake
  BY <1>16 DEF Wake
<1>17. CASE Abandon
  BY <1>17 DEF Abandon, Return, cancelDNSFutures
<1>18. CASE TakeAhead
  BY <1>18 DEF TakeAhead, Return, cancelDNSFutures
<1>19. CASE FinishExchange
  <2>1. stage = "exchange" /\ rules' = rules
    BY <1>19 DEF FinishExchange
  <2>2. \/ query.fallback /\ ruleIndex' = ruleIndex + 1 /\ stage' = "loop"
        \/ stage' = "done" /\ ruleIndex' = ruleIndex
    BY <1>19 DEF FinishExchange, Return, nextAfter
  <2>3. query.fallback => ruleIndex \in Index
    <3>1. RaceQuery \/ TurnQuery
      BY <2>1 DEF AskedInv, Asked
    <3>2. ruleIndex \in Index \/ ruleIndex = Default
      OBVIOUS
    <3> QED BY <3>1, <3>2 DEF RaceQuery, TurnQuery
  <2> QED BY <2>1, <2>2, <2>3
<1>20. CASE Cancel
  BY <1>20 DEF Cancel, walkVars
<1>21. ASSUME NEW i \in Index, Resolve(i), stage # "done" PROVE PlaceInv'
  BY <1>21 DEF Resolve, wakeUp
<1>22. ASSUME NEW i \in Index, SendWake(i), stage # "done" PROVE PlaceInv'
  BY <1>22 DEF SendWake, wakeUp
<1>23. CASE UNCHANGED routerVars
  BY <1>23 DEF routerVars, walkVars
<1> QED BY <1>1, <1>2, <1>3, <1>4, <1>5, <1>6, <1>7, <1>8, <1>9, <1>10, <1>11, <1>12, <1>13,
           <1>14, <1>15, <1>16, <1>17, <1>18, <1>19, <1>20, <1>21, <1>22, <1>23 DEF RouterNext,
           Step, Deliver, MatchDNS, FinishLegacy, PlaceInv

\* Only rules that were passed are missed.
LEMMA MissedStep ==
  ASSUME RouterTypeOK, RuleFacts, mode = "walk", DoneInv, WalkInv, [RouterNext]_routerVars
  PROVE  MissedInv'
<1> USE SameRules, Numbers DEF WalkInv
<1> USE DEF MissedInv, AtRule, PlaceInv
<1>1. CASE SettleAtRule
  BY <1>1 DEF SettleAtRule, settleDNSFutures
<1>2. CASE Arm
  BY <1>2 DEF Arm, pendingOf, Goto
<1>3. CASE Bind
  BY <1>3 DEF Bind, Suspend, Goto
<1>4. CASE RouteOptions
  BY <1>4 DEF RouteOptions, Acting, Goto, walkVars
<1>5. CASE Evaluate
  BY <1>5 DEF Evaluate, Acting, Goto, Suspend, launch, mustHold
<1>6. CASE Respond
  BY <1>6 DEF Respond, Acting, Suspend, Return, mustHold, cancelDNSFutures
<1>7. CASE Route
  BY <1>7 DEF Route, Acting, Goto, Suspend, launch, mustHold, queryOf
<1>8. CASE RejectOrPredefined
  BY <1>8 DEF RejectOrPredefined, Acting, Suspend, Return, mustHold, cancelDNSFutures, resultOf
<1>9. CASE EndOfRules
  BY <1>9 DEF EndOfRules, Suspend, mustHold, queryOf
<1>10. CASE Settle
  BY <1>10 DEF Settle, settleDNSFutures
<1>11. CASE SweepPast
  BY <1>11 DEF SweepPast, Sweeping
<1>12. CASE SweepMiss
  BY <1>12, SweptFacts DEF SweepMiss, Sweeping
<1>13. CASE SweepHit
  BY <1>13 DEF SweepHit, Sweeping, Swept, Return, Suspend, finishPending, cancelDNSFutures,
     queryOf, armedOptions, resultOf
<1>14. CASE SweepEnd
  BY <1>14 DEF SweepEnd, Goto, walkVars
<1>15. CASE Hold
  BY <1>15 DEF Hold, Goto, finishPending, cancelDNSFutures, mustHold
<1>16. CASE Wake
  BY <1>16 DEF Wake
<1>17. CASE Abandon
  BY <1>17 DEF Abandon, Return, cancelDNSFutures
<1>18. CASE TakeAhead
  BY <1>18 DEF TakeAhead, Return, cancelDNSFutures
<1>19. CASE FinishExchange
  BY <1>19 DEF FinishExchange, Return, cancelDNSFutures, nextAfter, NoSuspension, failed
<1>20. CASE Cancel
  BY <1>20 DEF Cancel, walkVars
<1>21. ASSUME NEW i \in Index, Resolve(i), stage # "done" PROVE MissedInv'
  BY <1>21 DEF Resolve, wakeUp
<1>22. ASSUME NEW i \in Index, SendWake(i), stage # "done" PROVE MissedInv'
  BY <1>22 DEF SendWake, wakeUp
<1>23. CASE UNCHANGED routerVars
  BY <1>23 DEF routerVars, walkVars
<1> QED BY <1>1, <1>2, <1>3, <1>4, <1>5, <1>6, <1>7, <1>8, <1>9, <1>10, <1>11, <1>12, <1>13,
           <1>14, <1>15, <1>16, <1>17, <1>18, <1>19, <1>20, <1>21, <1>22, <1>23 DEF RouterNext,
           Step, Deliver, MatchDNS, FinishLegacy, PlaceInv

\* A step passes over a rule only for a reason.
LEMMA JudgedStep ==
  ASSUME RouterTypeOK, RuleFacts, mode = "walk", DoneInv, WalkInv, [RouterNext]_routerVars
  PROVE  JudgedOn
<1> USE SameRules, Numbers DEF WalkInv
<1> USE DEF JudgedOn, PlaceInv
<1>1. CASE SettleAtRule
  BY <1>1 DEF SettleAtRule, settleDNSFutures
<1>2. CASE Arm
  BY <1>2 DEF Arm, pendingOf, Goto
<1>3. CASE Bind
  BY <1>3 DEF Bind, Suspend, Goto, PassedOver
<1>4. CASE RouteOptions
  BY <1>4 DEF RouteOptions, Acting, Goto, walkVars, Terminal
<1>5. CASE Evaluate
  BY <1>5 DEF Evaluate, Acting, Goto, Suspend, Terminal
<1>6. CASE Respond
  BY <1>6 DEF Respond, Acting, Suspend, Return, mustHold, cancelDNSFutures
<1>7. CASE Route
  BY <1>7 DEF Route, Acting, Goto, Suspend, PassedOver
<1>8. CASE RejectOrPredefined
  BY <1>8 DEF RejectOrPredefined, Acting, Suspend, Return, mustHold, cancelDNSFutures, resultOf
<1>9. CASE EndOfRules
  BY <1>9 DEF EndOfRules, Suspend, mustHold, queryOf
<1>10. CASE Settle
  BY <1>10 DEF Settle, settleDNSFutures
<1>11. CASE SweepPast
  BY <1>11 DEF SweepPast, Sweeping
<1>12. CASE SweepMiss
  BY <1>12 DEF SweepMiss, Sweeping, Swept
<1>13. CASE SweepHit
  BY <1>13 DEF SweepHit, Sweeping, Swept, Return, Suspend, finishPending, cancelDNSFutures,
     queryOf, armedOptions, resultOf
<1>14. CASE SweepEnd
  BY <1>14 DEF SweepEnd, Goto, walkVars
<1>15. CASE Hold
  BY <1>15 DEF Hold, Goto, finishPending, cancelDNSFutures, mustHold
<1>16. CASE Wake
  BY <1>16 DEF Wake
<1>17. CASE Abandon
  BY <1>17 DEF Abandon, Return, cancelDNSFutures
<1>18. CASE TakeAhead
  <2>1. ahead = ruleIndex
    BY <1>18 DEF TakeAhead, ParkedInv, Parked
  <2> QED BY <1>18, <2>1 DEF TakeAhead, RouterTypeOK
<1>19. CASE FinishExchange
  <2> USE DEF FinishExchange
  <2>1. RaceQuery \/ TurnQuery
    BY <1>19 DEF AskedInv, Asked
  <2>2. \A i \in Index : i < ruleIndex /\ ~rules[i].race => answer'[i] = answer[i]
    BY <1>19, <2>1 DEF RaceQuery, TurnQuery, RouterTypeOK
  <2>3. CASE ruleIndex' = ruleIndex
    BY <1>19, <2>2, <2>3
  <2>4. CASE ruleIndex' # ruleIndex
    <3>1. query.fallback /\ ruleIndex' = ruleIndex + 1
      BY <1>19, <2>4 DEF nextAfter
    <3>2. ruleIndex \in Index /\ query.rule = ruleIndex /\ rules[ruleIndex].fallback
      <4>1. TurnQuery
        BY <2>1, <3>1 DEF RaceQuery
      <4>2. ruleIndex # Default
        BY <4>1, <3>1 DEF TurnQuery
      <4>3. ruleIndex \in Index /\ query.rule = ruleIndex
        BY <4>1, <4>2 DEF TurnQuery
      <4>4. query.fallback = rules[ruleIndex].fallback
        BY <4>1, <4>2 DEF TurnQuery
      <4> QED BY <4>3, <4>4, <3>1
    <3>3. failed(answer'[ruleIndex])
      BY <1>19, <2>4, <3>2 DEF RouterTypeOK
    <3> QED BY <1>19, <2>2, <3>1, <3>2, <3>3 DEF PassedOver
  <2> QED BY <2>3, <2>4
<1>20. CASE Cancel
  BY <1>20 DEF Cancel, walkVars
<1>21. ASSUME NEW i \in Index, Resolve(i), stage # "done" PROVE JudgedOn
  BY <1>21 DEF Resolve, wakeUp
<1>22. ASSUME NEW i \in Index, SendWake(i), stage # "done" PROVE JudgedOn
  BY <1>22 DEF SendWake, wakeUp
<1>23. CASE UNCHANGED routerVars
  BY <1>23 DEF routerVars, walkVars
<1> QED BY <1>1, <1>2, <1>3, <1>4, <1>5, <1>6, <1>7, <1>8, <1>9, <1>10, <1>11, <1>12, <1>13,
           <1>14, <1>15, <1>16, <1>17, <1>18, <1>19, <1>20, <1>21, <1>22, <1>23 DEF RouterNext,
           Step, Deliver, MatchDNS, FinishLegacy, PlaceInv

\* Arming, judging and passing keep the armed rules in order.
LEMMA ArmedStep ==
  ASSUME RouterTypeOK, RuleFacts, mode = "walk", DoneInv, WalkInv, [RouterNext]_routerVars
  PROVE  ArmedInv'
<1> USE SameRules, Numbers, ArmedNumbers DEF WalkInv
<1> USE DEF ArmedInv, AtRule, PlaceInv
<1>1. CASE SettleAtRule
  BY <1>1 DEF SettleAtRule, settleDNSFutures
<1>2. CASE Arm
  <2>1. \E e \in ArmedRule : armed' = Append(armed, e) /\ e.rule = ruleIndex
    BY <1>2, ArmEntry
  <2>2. PICK e \in ArmedRule : armed' = Append(armed, e) /\ e.rule = ruleIndex
    BY <2>1
  <2>3. /\ \A a \in DOMAIN armed : armed[a].rule < ruleIndex
        /\ ruleIndex \in Index /\ rules[ruleIndex].race /\ rules' = rules
    BY <1>2 DEF Arm
  <2>4. Len(armed) + 1 <= ruleIndex
    <3>1. CASE Len(armed) = 0
      BY <2>3, <3>1
    <3>2. CASE Len(armed) # 0
      <4>1. Len(armed) \in DOMAIN armed
        BY <3>2
      <4> QED BY <4>1, <2>3
    <3> QED BY <3>1, <3>2
  <2>5. /\ Len(armed') = Len(armed) + 1
        /\ \A a \in 1..(Len(armed) + 1) : armed'[a] = IF a = Len(armed) + 1 THEN e ELSE armed[a]
    BY <2>2
  <2>6. \/ ruleIndex' = ruleIndex /\ stage' = "sweep" /\ sweepFrom' = "walk"
        \/ ruleIndex' = ruleIndex + 1
    BY <1>2 DEF Arm, Goto
  <2>7. AtRule' => ruleIndex' = ruleIndex + 1
    BY <2>6
  <2>8. DOMAIN armed' = 1..(Len(armed) + 1)
    BY <2>2
  <2> QED
    <3> SUFFICES ASSUME NEW a \in 1..(Len(armed) + 1)
                 PROVE  /\ a <= armed'[a].rule /\ armed'[a].rule <= ruleIndex'
                        /\ AtRule' => armed'[a].rule < ruleIndex'
                        /\ rules[armed'[a].rule].race
      BY <2>3, <2>8
    <3> HIDE DEF AtRule
    <3>1. CASE a = Len(armed) + 1
      BY <2>2, <2>3, <2>4, <2>5, <2>6, <2>7, <3>1
    <3>2. CASE a \in DOMAIN armed
      BY <2>3, <2>5, <2>6, <2>7, <3>2
    <3> QED BY <3>1, <3>2
<1>3. CASE Bind
  BY <1>3 DEF Bind, Suspend, Goto
<1>4. CASE RouteOptions
  BY <1>4 DEF RouteOptions, Acting, Goto, walkVars
<1>5. CASE Evaluate
  BY <1>5 DEF Evaluate, Acting, Goto, Suspend, launch, mustHold
<1>6. CASE Respond
  BY <1>6 DEF Respond, Acting, Suspend, Return, mustHold, cancelDNSFutures
<1>7. CASE Route
  BY <1>7 DEF Route, Acting, Goto, Suspend, launch, mustHold, queryOf
<1>8. CASE RejectOrPredefined
  BY <1>8 DEF RejectOrPredefined, Acting, Suspend, Return, mustHold, cancelDNSFutures, resultOf
<1>9. CASE EndOfRules
  BY <1>9 DEF EndOfRules, Suspend, mustHold, queryOf
<1>10. CASE Settle
  BY <1>10 DEF Settle, settleDNSFutures
<1>11. CASE SweepPast
  BY <1>11 DEF SweepPast, Sweeping
<1>12. CASE SweepMiss
  <2>1. /\ Sweeping /\ armed' = Others /\ rules' = rules /\ ruleIndex' = ruleIndex
        /\ AtRule' => AtRule
    BY <1>12 DEF SweepMiss
  <2> QED BY <2>1, OthersStay
<1>13. CASE SweepHit
  <2>1. Sweeping /\ (armed' = Others \/ armed' = <<>>) /\ rules' = rules /\ ruleIndex' = ruleIndex
    BY <1>13 DEF SweepHit
  <2>2. CASE armed' = Others
    <3>1. AtRule' => AtRule \/ armed' = <<>>
      BY <1>13 DEF SweepHit, Return, Suspend, finishPending
    <3>2. CASE armed' = <<>>
      BY <3>2
    <3> QED BY <2>1, <2>2, <3>1, <3>2, OthersStay
  <2>3. CASE armed' = <<>>
    BY <2>3
  <2> QED BY <2>1, <2>2, <2>3
<1>14. CASE SweepEnd
  BY <1>14 DEF SweepEnd, Goto, walkVars
<1>15. CASE Hold
  BY <1>15 DEF Hold, Goto, finishPending, cancelDNSFutures, mustHold
<1>16. CASE Wake
  BY <1>16 DEF Wake
<1>17. CASE Abandon
  BY <1>17 DEF Abandon, Return, cancelDNSFutures
<1>18. CASE TakeAhead
  BY <1>18 DEF TakeAhead, Return, cancelDNSFutures
<1>19. CASE FinishExchange
  BY <1>19 DEF FinishExchange, Return, cancelDNSFutures, nextAfter, NoSuspension, failed
<1>20. CASE Cancel
  BY <1>20 DEF Cancel, walkVars
<1>21. ASSUME NEW i \in Index, Resolve(i), stage # "done" PROVE ArmedInv'
  BY <1>21 DEF Resolve, wakeUp
<1>22. ASSUME NEW i \in Index, SendWake(i), stage # "done" PROVE ArmedInv'
  BY <1>22 DEF SendWake, wakeUp
<1>23. CASE UNCHANGED routerVars
  BY <1>23 DEF routerVars, walkVars
<1> QED BY <1>1, <1>2, <1>3, <1>4, <1>5, <1>6, <1>7, <1>8, <1>9, <1>10, <1>11, <1>12, <1>13,
           <1>14, <1>15, <1>16, <1>17, <1>18, <1>19, <1>20, <1>21, <1>22, <1>23 DEF RouterNext,
           Step, Deliver, MatchDNS, FinishLegacy, PlaceInv

\* A step adds the options of the rule it passes and no others.
LEMMA OptionsStep ==
  ASSUME RouterTypeOK, RuleFacts, mode = "walk", DoneInv, WalkInv, [RouterNext]_routerVars
  PROVE  OptionsOn
<1> USE SameRules, Numbers, ArmedNumbers DEF WalkInv
<1> USE DEF OptionsOn, PlaceInv, SameBefore
<1>1. CASE SettleAtRule
  BY <1>1 DEF SettleAtRule, settleDNSFutures
<1>2. CASE Arm
  <2>1. PICK e \in ArmedRule :
          armed' = Append(armed, e) /\ e.rule = ruleIndex /\ e.options = options
    BY <1>2, ArmEntry
  <2>2. /\ DOMAIN armed' = 1..(Len(armed) + 1)
        /\ \A a \in 1..(Len(armed) + 1) : armed'[a] = IF a = Len(armed) + 1 THEN e ELSE armed[a]
    BY <2>1 DEF RouterTypeOK
  <2>3. ruleIndex \in Index /\ rules[ruleIndex].act # "options" /\ missed' = missed
    BY <1>2 DEF Arm, RuleFacts, Terminal
  <2>4. \A b \in DOMAIN armed' :
          \/ \E a \in DOMAIN armed : armed'[b] = armed[a]
          \/ armed'[b].rule = ruleIndex /\ armed'[b].options = options
    BY <2>1, <2>2
  <2>5. /\ rules' = rules /\ options' = options
        /\ ruleIndex' = ruleIndex \/ ruleIndex' = ruleIndex + 1
    BY <1>2 DEF Arm, Goto
  <2> QED BY <2>3, <2>4, <2>5
<1>3. CASE Bind
  BY <1>3 DEF Bind, Suspend, Goto
<1>4. CASE RouteOptions
  <2>1. ruleIndex \notin missed
    BY <1>4 DEF RouteOptions, Acting, MissedInv, AtRule
  <2> QED BY <1>4, <2>1 DEF RouteOptions, Acting, Goto, walkVars
<1>5. CASE Evaluate
  BY <1>5 DEF Evaluate, Acting, Goto, Suspend, launch, mustHold
<1>6. CASE Respond
  BY <1>6 DEF Respond, Acting, Suspend, Return, mustHold, cancelDNSFutures
<1>7. CASE Route
  BY <1>7 DEF Route, Acting, Goto, Suspend, launch, mustHold, queryOf
<1>8. CASE RejectOrPredefined
  BY <1>8 DEF RejectOrPredefined, Acting, Suspend, Return, mustHold, cancelDNSFutures, resultOf
<1>9. CASE EndOfRules
  BY <1>9 DEF EndOfRules, Suspend, mustHold, queryOf
<1>10. CASE Settle
  BY <1>10 DEF Settle, settleDNSFutures
<1>11. CASE SweepPast
  BY <1>11 DEF SweepPast, Sweeping
<1>12. CASE SweepMiss
  <2>1. Sweeping /\ armed' = Others
    BY <1>12 DEF SweepMiss
  <2>2. rules[Swept.rule].act # "options"
    BY <2>1, SweptFacts DEF RuleFacts, Terminal
  <2>3. \A b \in DOMAIN armed' : \E a \in DOMAIN armed : armed'[b] = armed[a]
    BY <2>1, OthersKeep
  <2> QED BY <1>12, <2>2, <2>3 DEF SweepMiss
<1>13. CASE SweepHit
  <2>1. Sweeping /\ (armed' = Others \/ armed' = <<>>)
    BY <1>13 DEF SweepHit
  <2>2. \A b \in DOMAIN armed' : \E a \in DOMAIN armed : armed'[b] = armed[a]
    BY <2>1, OthersKeep
  <2> QED BY <1>13, <2>2 DEF SweepHit
<1>14. CASE SweepEnd
  <2>1. sweepFrom = "walk" => ruleIndex \in Index /\ rules[ruleIndex].act # "options"
    BY <1>14 DEF SweepEnd, RuleFacts, Terminal
  <2> QED BY <1>14, <2>1 DEF SweepEnd, Goto, walkVars
<1>15. CASE Hold
  BY <1>15 DEF Hold, Goto, finishPending, cancelDNSFutures, mustHold
<1>16. CASE Wake
  BY <1>16 DEF Wake
<1>17. CASE Abandon
  BY <1>17 DEF Abandon, Return, cancelDNSFutures
<1>18. CASE TakeAhead
  BY <1>18 DEF TakeAhead, Return, cancelDNSFutures
<1>19. CASE FinishExchange
  <2>1. RaceQuery \/ TurnQuery
    BY <1>19 DEF FinishExchange, AskedInv, Asked
  <2>2. query.fallback => ruleIndex \in Index /\ rules[ruleIndex].act = "route"
    <3>1. ruleIndex \in Index \/ ruleIndex = Default
      OBVIOUS
    <3> QED BY <2>1, <3>1 DEF RaceQuery, TurnQuery
  <2>3. \/ ruleIndex' = ruleIndex
        \/ query.fallback /\ ruleIndex' = ruleIndex + 1
    BY <1>19 DEF FinishExchange, nextAfter
  <2> QED BY <1>19, <2>2, <2>3 DEF FinishExchange
<1>20. CASE Cancel
  BY <1>20 DEF Cancel, walkVars
<1>21. ASSUME NEW i \in Index, Resolve(i), stage # "done" PROVE OptionsOn
  BY <1>21 DEF Resolve, wakeUp
<1>22. ASSUME NEW i \in Index, SendWake(i), stage # "done" PROVE OptionsOn
  BY <1>22 DEF SendWake, wakeUp
<1>23. CASE UNCHANGED routerVars
  BY <1>23 DEF routerVars, walkVars
<1> QED BY <1>1, <1>2, <1>3, <1>4, <1>5, <1>6, <1>7, <1>8, <1>9, <1>10, <1>11, <1>12, <1>13,
           <1>14, <1>15, <1>16, <1>17, <1>18, <1>19, <1>20, <1>21, <1>22, <1>23 DEF RouterNext,
           Step, Deliver, MatchDNS, FinishLegacy, PlaceInv

\* A rule launches its query in its turn or ahead of it.
LEMMA LaunchStep ==
  ASSUME RouterTypeOK, RuleFacts, mode = "walk", DoneInv, WalkInv, [RouterNext]_routerVars
  PROVE  LaunchInv'
<1> USE SameRules, Numbers DEF WalkInv
<1> USE DEF LaunchInv, PlaceInv
<1>1. CASE SettleAtRule
  BY <1>1 DEF SettleAtRule, settleDNSFutures
<1>2. CASE Arm
  BY <1>2 DEF Arm, pendingOf, Goto
<1>3. CASE Bind
  BY <1>3 DEF Bind, Suspend, Goto
<1>4. CASE RouteOptions
  BY <1>4 DEF RouteOptions, Acting, Goto, walkVars
<1>5. CASE Evaluate
  BY <1>5 DEF Evaluate, Acting, Goto, Suspend, launch, mustHold
<1>6. CASE Respond
  BY <1>6 DEF Respond, Acting, Suspend, Return, mustHold, cancelDNSFutures
<1>7. CASE Route
  BY <1>7 DEF Route, Acting, Goto, Suspend, launch, mustHold, queryOf
<1>8. CASE RejectOrPredefined
  BY <1>8 DEF RejectOrPredefined, Acting, Suspend, Return, mustHold, cancelDNSFutures, resultOf
<1>9. CASE EndOfRules
  BY <1>9 DEF EndOfRules, Suspend, mustHold, queryOf
<1>10. CASE Settle
  BY <1>10 DEF Settle, settleDNSFutures
<1>11. CASE SweepPast
  BY <1>11 DEF SweepPast, Sweeping
<1>12. CASE SweepMiss
  BY <1>12 DEF SweepMiss, Sweeping, Swept
<1>13. CASE SweepHit
  BY <1>13 DEF SweepHit, Sweeping, Swept, Return, Suspend, finishPending, cancelDNSFutures,
     queryOf, armedOptions, resultOf
<1>14. CASE SweepEnd
  BY <1>14 DEF SweepEnd, Goto, walkVars
<1>15. CASE Hold
  BY <1>15 DEF Hold, Goto, finishPending, cancelDNSFutures, mustHold
<1>16. CASE Wake
  BY <1>16 DEF Wake
<1>17. CASE Abandon
  BY <1>17 DEF Abandon, Return, cancelDNSFutures
<1>18. CASE TakeAhead
  BY <1>18 DEF TakeAhead, Return, cancelDNSFutures
<1>19. CASE FinishExchange
  BY <1>19 DEF FinishExchange, Return, cancelDNSFutures, nextAfter, NoSuspension, failed
<1>20. CASE Cancel
  BY <1>20 DEF Cancel, walkVars
<1>21. ASSUME NEW i \in Index, Resolve(i), stage # "done" PROVE LaunchInv'
  BY <1>21 DEF Resolve, wakeUp
<1>22. ASSUME NEW i \in Index, SendWake(i), stage # "done" PROVE LaunchInv'
  BY <1>22 DEF SendWake, wakeUp
<1>23. CASE UNCHANGED routerVars
  BY <1>23 DEF routerVars, walkVars
<1> QED BY <1>1, <1>2, <1>3, <1>4, <1>5, <1>6, <1>7, <1>8, <1>9, <1>10, <1>11, <1>12, <1>13,
           <1>14, <1>15, <1>16, <1>17, <1>18, <1>19, <1>20, <1>21, <1>22, <1>23 DEF RouterNext,
           Step, Deliver, MatchDNS, FinishLegacy, PlaceInv

\* Nothing is armed while a query is parked.
LEMMA ParkedStep ==
  ASSUME RouterTypeOK, RuleFacts, mode = "walk", DoneInv, WalkInv, [RouterNext]_routerVars
  PROVE  ParkedInv'
<1> USE SameRules, Numbers DEF WalkInv
<1> USE DEF ParkedInv, Parked
<1>1. CASE SettleAtRule
  BY <1>1 DEF SettleAtRule, settleDNSFutures
<1>2. CASE Arm
  BY <1>2 DEF Arm, pendingOf, Goto
<1>3. CASE Bind
  BY <1>3 DEF Bind, Suspend, Goto
<1>4. CASE RouteOptions
  BY <1>4 DEF RouteOptions, Acting, Goto, walkVars
<1>5. CASE Evaluate
  BY <1>5 DEF Evaluate, Acting, Goto, Suspend, launch, mustHold
<1>6. CASE Respond
  BY <1>6 DEF Respond, Acting, Suspend, Return, mustHold, cancelDNSFutures
<1>7. CASE Route
  BY <1>7 DEF Route, Acting, Goto, Suspend, launch, mustHold, queryOf
<1>8. CASE RejectOrPredefined
  BY <1>8 DEF RejectOrPredefined, Acting, Suspend, Return, mustHold, cancelDNSFutures, resultOf
<1>9. CASE EndOfRules
  BY <1>9 DEF EndOfRules, Suspend, mustHold, queryOf
<1>10. CASE Settle
  BY <1>10 DEF Settle, settleDNSFutures
<1>11. CASE SweepPast
  BY <1>11 DEF SweepPast, Sweeping
<1>12. CASE SweepMiss
  <2>1. ~Parked
    BY <1>12, SweptNotParked DEF SweepMiss
  <2> QED BY <1>12, <2>1 DEF SweepMiss, Sweeping
<1>13. CASE SweepHit
  <2>1. Sweeping /\ ~Parked
    BY <1>13, SweptNotParked DEF SweepHit
  <2>2. CASE stage' = "loop"
    BY <1>13, <2>1, <2>2 DEF SweepHit, Return, Suspend, finishPending
  <2>3. CASE stage' # "loop"
    <3>1. stage' \in {"done", "exchange"} /\ suspension' = suspension /\ stage = "sweep"
      BY <1>13, <2>3 DEF SweepHit, Sweeping, Return, Suspend, finishPending
    <3> QED BY <2>1, <3>1
  <2> QED BY <2>2, <2>3
<1>14. CASE SweepEnd
  BY <1>14 DEF SweepEnd, Goto, walkVars
<1>15. CASE Hold
  BY <1>15 DEF Hold, Goto, finishPending, cancelDNSFutures, mustHold
<1>16. CASE Wake
  BY <1>16 DEF Wake
<1>17. CASE Abandon
  BY <1>17 DEF Abandon, Return, cancelDNSFutures
<1>18. CASE TakeAhead
  BY <1>18 DEF TakeAhead, Return, cancelDNSFutures
<1>19. CASE FinishExchange
  BY <1>19 DEF FinishExchange, Return, cancelDNSFutures, nextAfter, NoSuspension, failed
<1>20. CASE Cancel
  BY <1>20 DEF Cancel, walkVars
<1>21. ASSUME NEW i \in Index, Resolve(i), stage # "done" PROVE ParkedInv'
  BY <1>21 DEF Resolve, wakeUp
<1>22. ASSUME NEW i \in Index, SendWake(i), stage # "done" PROVE ParkedInv'
  BY <1>22 DEF SendWake, wakeUp
<1>23. CASE UNCHANGED routerVars
  BY <1>23 DEF routerVars, walkVars
<1> QED BY <1>1, <1>2, <1>3, <1>4, <1>5, <1>6, <1>7, <1>8, <1>9, <1>10, <1>11, <1>12, <1>13,
           <1>14, <1>15, <1>16, <1>17, <1>18, <1>19, <1>20, <1>21, <1>22, <1>23 DEF RouterNext,
           Step, Deliver, MatchDNS, FinishLegacy, PlaceInv

\* The query that is asked keeps its options.
LEMMA AskedStep ==
  ASSUME RouterTypeOK, RuleFacts, mode = "walk", DoneInv, WalkInv, [RouterNext]_routerVars
  PROVE  AskedInv'
<1> USE SameRules, Numbers DEF WalkInv
<1> USE DEF PlaceInv
<1>1. CASE SettleAtRule
  <2>1. UNCHANGED <<rules, query, armed, missed>> /\ (Asked' => Asked /\ ruleIndex' = ruleIndex)
    BY <1>1 DEF SettleAtRule, Asked, Parked, Return, Goto, finishPending, walkVars, PlaceInv,
       ParkedInv
  <2> QED BY <2>1, AskedQuiet
<1>2. CASE Arm
  <2>1. ~Asked'
    BY <1>2 DEF Arm, pendingOf, Goto, Asked, Parked, ParkedInv
  <2> QED BY <2>1 DEF AskedInv
<1>3. CASE Bind
  <2>1. ~Asked'
    BY <1>3 DEF Bind, Suspend, Goto, Asked, Parked, ParkedInv
  <2> QED BY <2>1 DEF AskedInv
<1>4. CASE RouteOptions
  <2>1. ~Asked'
    BY <1>4 DEF RouteOptions, Acting, Goto, walkVars, Asked, Parked, ParkedInv
  <2> QED BY <2>1 DEF AskedInv
<1>5. CASE Evaluate
  <2>1. ~Asked'
    BY <1>5 DEF Evaluate, Acting, Goto, Suspend, launch, mustHold, Asked, Parked, ParkedInv
  <2> QED BY <2>1 DEF AskedInv
<1>6. CASE Respond
  <2>1. ~Asked'
    BY <1>6 DEF Respond, Acting, Suspend, Return, mustHold, cancelDNSFutures, Asked, Parked,
       ParkedInv
  <2> QED BY <2>1 DEF AskedInv
<1>7. CASE Route
  <2>1. ruleIndex \in Index /\ rules' = rules /\ missed' = missed /\ armed' = armed
    BY <1>7 DEF Route, Acting
  <2>2. CASE Asked'
    <3>1. /\ armed = <<>> /\ ruleIndex' = ruleIndex /\ rules[ruleIndex].act = "route"
          /\ query' = queryOf(ruleIndex, options, rules[ruleIndex].fallback)
      <4>1. stage = "act" /\ rules[ruleIndex].act = "route"
        BY <1>7 DEF Route, Acting
      <4>2. ~Parked
        BY <4>1 DEF ParkedInv
      <4>3. CASE Goto(ruleIndex + 1) /\ suspension' = suspension
        BY <4>1, <4>2, <4>3, <2>2 DEF Goto, Asked, Parked
      <4>4. CASE Suspend("drain", 0)
        BY <4>4, <2>2 DEF Suspend, Asked, Parked
      <4>5. CASE ahead = ruleIndex /\ Suspend("pending", ahead)
        BY <4>5, <2>1, <2>2 DEF Suspend, Asked, Parked
      <4>6. CASE /\ ~mustHold /\ ruleIndex' = ruleIndex
                 /\ query' = queryOf(ruleIndex, options, rules[ruleIndex].fallback)
        BY <4>1, <4>6 DEF mustHold
      <4> QED BY <1>7, <4>3, <4>4, <4>5, <4>6 DEF Route
    <3>2. (query.options = OptionsBefore(query.rule))'
      BY <2>1, <3>1 DEF queryOf, OptionsBefore, OptionsInv
    <3>3. TurnQuery'
      BY <2>1, <3>1 DEF TurnQuery, queryOf
    <3> QED BY <3>2, <3>3 DEF AskedInv
  <2> QED BY <2>2 DEF AskedInv
<1>8. CASE RejectOrPredefined
  <2>1. ~Asked'
    BY <1>8 DEF RejectOrPredefined, Acting, Suspend, Return, mustHold, cancelDNSFutures,
       resultOf, Asked, Parked, ParkedInv
  <2> QED BY <2>1 DEF AskedInv
<1>9. CASE EndOfRules
  <2>1. ruleIndex = Default /\ UNCHANGED <<rules, missed, armed, ruleIndex>>
    BY <1>9 DEF EndOfRules
  <2>2. CASE Asked'
    <3>1. armed = <<>> /\ query' = queryOf(Default, options, FALSE)
      <4>1. CASE Suspend("drain", 0)
        BY <4>1, <2>2 DEF Suspend, Asked, Parked
      <4> QED BY <1>9, <4>1 DEF EndOfRules, mustHold
    <3>2. (query.options = OptionsBefore(query.rule))'
      BY <2>1, <3>1 DEF queryOf, OptionsBefore, OptionsInv
    <3>3. TurnQuery'
      BY <2>1, <3>1 DEF TurnQuery, queryOf
    <3> QED BY <3>2, <3>3 DEF AskedInv
  <2> QED BY <2>2 DEF AskedInv
<1>10. CASE Settle
  <2>1. UNCHANGED <<rules, query, armed, missed>> /\ (Asked' => Asked /\ ruleIndex' = ruleIndex)
    BY <1>10 DEF Settle, Asked, Parked, Return, Goto, finishPending, walkVars, PlaceInv,
       ParkedInv
  <2> QED BY <2>1, AskedQuiet
<1>11. CASE SweepPast
  <2>1. UNCHANGED <<rules, query, armed, missed>> /\ (Asked' => Asked /\ ruleIndex' = ruleIndex)
    BY <1>11 DEF SweepPast, Asked, Parked, Return, Goto, finishPending, walkVars, PlaceInv,
       ParkedInv
  <2> QED BY <2>1, AskedQuiet
<1>12. CASE SweepMiss
  <2>1. ~Asked'
    BY <1>12, SweptNotParked DEF SweepMiss, Sweeping, Asked, Parked
  <2> QED BY <2>1 DEF AskedInv
<1>13. CASE SweepHit
  <2>1. Sweeping /\ ~Parked /\ rules' = rules /\ missed' = missed
    BY <1>13, SweptNotParked DEF SweepHit
  <2>2. CASE stage' = "done"
    BY <2>2 DEF AskedInv, Asked, Parked
  <2>3. CASE stage' # "done"
    <3>1. query' = queryOf(Swept.rule, Swept.options, FALSE)
      BY <1>13, <2>3 DEF SweepHit, Return, armedOptions
    <3>2. Swept.options = OptionsBefore(Swept.rule)
      <4>1. sweepAt \in DOMAIN armed
        BY <2>1, ArmedNumbers DEF Sweeping, RouterTypeOK
      <4> QED BY <4>1 DEF OptionsInv, Swept
    <3>3. (query.options = OptionsBefore(query.rule))'
      BY <2>1, <3>1, <3>2 DEF queryOf, OptionsBefore
    <3>4. RaceQuery'
      BY <2>1, <3>1, SweptFacts DEF RaceQuery, queryOf
    <3> QED BY <3>3, <3>4 DEF AskedInv
  <2> QED BY <2>2, <2>3
<1>14. CASE SweepEnd
  <2>1. UNCHANGED <<rules, query, armed, missed>> /\ (Asked' => Asked /\ ruleIndex' = ruleIndex)
    BY <1>14 DEF SweepEnd, Asked, Parked, Goto, walkVars, ParkedInv
  <2> QED BY <2>1, AskedQuiet
<1>15. CASE Hold
  <2>1. UNCHANGED <<rules, query, armed, missed>> /\ (Asked' => Asked /\ ruleIndex' = ruleIndex)
    BY <1>15 DEF Hold, Asked, Parked, Return, Goto, finishPending, walkVars, PlaceInv, ParkedInv
  <2> QED BY <2>1, AskedQuiet
<1>16. CASE Wake
  <2>1. UNCHANGED <<rules, query, armed, missed>> /\ (Asked' => Asked /\ ruleIndex' = ruleIndex)
    BY <1>16 DEF Wake, Asked, Parked, Return, Goto, finishPending, walkVars, PlaceInv, ParkedInv
  <2> QED BY <2>1, AskedQuiet
<1>17. CASE Abandon
  <2>1. UNCHANGED <<rules, query, armed, missed>> /\ (Asked' => Asked /\ ruleIndex' = ruleIndex)
    BY <1>17 DEF Abandon, Asked, Parked, Return, Goto, finishPending, walkVars, PlaceInv,
       ParkedInv
  <2> QED BY <2>1, AskedQuiet
<1>18. CASE TakeAhead
  <2>1. UNCHANGED <<rules, query, armed, missed>> /\ (Asked' => Asked /\ ruleIndex' = ruleIndex)
    BY <1>18 DEF TakeAhead, Asked, Parked, Return, Goto, finishPending, walkVars, PlaceInv,
       ParkedInv
  <2> QED BY <2>1, AskedQuiet
<1>19. CASE FinishExchange
  <2>1. ~Asked'
    BY <1>19 DEF FinishExchange, Return, cancelDNSFutures, nextAfter, NoSuspension, failed,
       Asked, Parked, ParkedInv
  <2> QED BY <2>1 DEF AskedInv
<1>20. CASE Cancel
  <2>1. UNCHANGED <<rules, query, armed, missed>> /\ (Asked' => Asked /\ ruleIndex' = ruleIndex)
    BY <1>20 DEF Cancel, Asked, Parked, Return, Goto, finishPending, walkVars, PlaceInv,
       ParkedInv
  <2> QED BY <2>1, AskedQuiet
<1>21. ASSUME NEW i \in Index, Resolve(i), stage # "done" PROVE AskedInv'
  <2>1. UNCHANGED <<rules, query, armed, missed>> /\ (Asked' => Asked /\ ruleIndex' = ruleIndex)
    BY <1>21 DEF Resolve, Asked, Parked
  <2> QED BY <2>1, AskedQuiet
<1>22. ASSUME NEW i \in Index, SendWake(i), stage # "done" PROVE AskedInv'
  <2>1. UNCHANGED <<rules, query, armed, missed>> /\ (Asked' => Asked /\ ruleIndex' = ruleIndex)
    BY <1>22 DEF SendWake, Asked, Parked
  <2> QED BY <2>1, AskedQuiet
<1>23. CASE UNCHANGED routerVars
  <2>1. UNCHANGED <<rules, query, armed, missed>> /\ (Asked' => Asked /\ ruleIndex' = ruleIndex)
    BY <1>23 DEF routerVars, walkVars, Asked, Parked
  <2> QED BY <2>1, AskedQuiet
<1> QED BY <1>1, <1>2, <1>3, <1>4, <1>5, <1>6, <1>7, <1>8, <1>9, <1>10, <1>11, <1>12, <1>13,
           <1>14, <1>15, <1>16, <1>17, <1>18, <1>19, <1>20, <1>21, <1>22, <1>23 DEF RouterNext,
           Step, Deliver, MatchDNS, FinishLegacy, PlaceInv

\* No step forgets a response: it leaves a token or a callback that will leave one.
LEMMA WakeStep ==
  ASSUME RouterTypeOK, RuleFacts, mode = "walk", DoneInv, WalkInv, [RouterNext]_routerVars
  PROVE  WakeInv'
<1> USE SameRules, Numbers, ArmedNumbers DEF WalkInv
<1> USE DEF WakeInv, Heard, ready, resolved
<1>1. CASE SettleAtRule
  BY <1>1 DEF SettleAtRule, settleDNSFutures
<1>2. CASE Arm
  BY <1>2 DEF Arm, pendingOf, Goto
<1>3. CASE Bind
  BY <1>3 DEF Bind, Suspend, Goto
<1>4. CASE RouteOptions
  BY <1>4 DEF RouteOptions, Acting, Goto, walkVars
<1>5. CASE Evaluate
  BY <1>5 DEF Evaluate, Acting, Goto, Suspend, launch, mustHold
<1>6. CASE Respond
  BY <1>6 DEF Respond, Acting, Suspend, Return, mustHold, cancelDNSFutures
<1>7. CASE Route
  BY <1>7 DEF Route, Acting, Goto, Suspend, launch, mustHold, queryOf
<1>8. CASE RejectOrPredefined
  BY <1>8 DEF RejectOrPredefined, Acting, Suspend, Return, mustHold, cancelDNSFutures, resultOf
<1>9. CASE EndOfRules
  BY <1>9 DEF EndOfRules, Suspend, mustHold, queryOf
<1>10. CASE Settle
  BY <1>10 DEF Settle, settleDNSFutures
<1>11. CASE SweepPast
  BY <1>11 DEF SweepPast, Sweeping, Swept
<1>12. CASE SweepMiss
  <2>1. /\ Sweeping /\ armed' = Others
        /\ UNCHANGED <<stage, sweepFrom, sweepAt, future, wake, unsent, suspension>>
    BY <1>12 DEF SweepMiss
  <2>2. ASSUME NEW b \in DOMAIN Others, b < sweepAt
        PROVE  b \in DOMAIN armed /\ Others[b] = armed[b]
    BY <2>1, <2>2, OthersFacts
  <2> QED BY <2>1, <2>2 DEF Sweeping
<1>13. CASE SweepHit
  BY <1>13 DEF SweepHit, Sweeping, Swept, Return, Suspend, finishPending, cancelDNSFutures,
     queryOf, armedOptions, resultOf
<1>14. CASE SweepEnd
  BY <1>14 DEF SweepEnd, Goto, walkVars
<1>15. CASE Hold
  BY <1>15 DEF Hold, Goto, finishPending, cancelDNSFutures, mustHold
<1>16. CASE Wake
  BY <1>16 DEF Wake
<1>17. CASE Abandon
  BY <1>17 DEF Abandon, Return, cancelDNSFutures
<1>18. CASE TakeAhead
  BY <1>18 DEF TakeAhead, Return, cancelDNSFutures
<1>19. CASE FinishExchange
  BY <1>19 DEF FinishExchange, Return, cancelDNSFutures, nextAfter, NoSuspension, failed
<1>20. CASE Cancel
  BY <1>20 DEF Cancel, walkVars
<1>21. ASSUME NEW i \in Index, Resolve(i), stage # "done" PROVE WakeInv'
  BY <1>21 DEF Resolve, wakeUp
<1>22. ASSUME NEW i \in Index, SendWake(i), stage # "done" PROVE WakeInv'
  BY <1>22 DEF SendWake, wakeUp
<1>23. CASE UNCHANGED routerVars
  BY <1>23 DEF routerVars, walkVars
<1> QED BY <1>1, <1>2, <1>3, <1>4, <1>5, <1>6, <1>7, <1>8, <1>9, <1>10, <1>11, <1>12, <1>13,
           <1>14, <1>15, <1>16, <1>17, <1>18, <1>19, <1>20, <1>21, <1>22, <1>23 DEF RouterNext,
           Step, Deliver, MatchDNS, FinishLegacy, PlaceInv

\* Only a race rule decides past an armed one.
LEMMA DecidedStep ==
  ASSUME RouterTypeOK, RuleFacts, mode = "walk", DoneInv, WalkInv, [RouterNext]_routerVars
  PROVE  DecidedInv'
<1> USE SameRules, Numbers, ArmedNumbers DEF WalkInv
<1> USE DEF DecidedInv, Done, DoneInv
<1>1. CASE SettleAtRule
  BY <1>1 DEF SettleAtRule, settleDNSFutures
<1>2. CASE Arm
  BY <1>2 DEF Arm, pendingOf, Goto
<1>3. CASE Bind
  BY <1>3 DEF Bind, Suspend, Goto
<1>4. CASE RouteOptions
  BY <1>4 DEF RouteOptions, Acting, Goto, walkVars
<1>5. CASE Evaluate
  BY <1>5 DEF Evaluate, Acting, Goto, Suspend, launch, mustHold
<1>6. CASE Respond
  BY <1>6 DEF Respond, Acting, Suspend, Return, mustHold, cancelDNSFutures
<1>7. CASE Route
  BY <1>7 DEF Route, Acting, Goto, Suspend, launch, mustHold, queryOf
<1>8. CASE RejectOrPredefined
  BY <1>8 DEF RejectOrPredefined, Acting, Suspend, Return, mustHold, cancelDNSFutures, resultOf
<1>9. CASE EndOfRules
  BY <1>9 DEF EndOfRules, Suspend, mustHold, queryOf
<1>10. CASE Settle
  BY <1>10 DEF Settle, settleDNSFutures
<1>11. CASE SweepPast
  BY <1>11 DEF SweepPast, Sweeping
<1>12. CASE SweepMiss
  BY <1>12 DEF SweepMiss, Sweeping, Swept
<1>13. CASE SweepHit
  <2>1. CASE stage' = "done"
    <3>1. outcome'.by = Swept.rule /\ Sweeping /\ rules' = rules
      BY <1>13, <2>1 DEF SweepHit, Return, Suspend, finishPending
    <3>2. outcome'.by # Default /\ rules[outcome'.by].race
      BY <3>1, SweptFacts
    <3> QED BY <3>1, <3>2
  <2>2. CASE stage' # "done"
    <3>1. outcome' = outcome /\ stage # "done"
      BY <1>13, <2>2 DEF SweepHit, Sweeping, Return
    <3> QED BY <3>1
  <2> QED BY <2>1, <2>2
<1>14. CASE SweepEnd
  BY <1>14 DEF SweepEnd, Goto, walkVars
<1>15. CASE Hold
  BY <1>15 DEF Hold, Goto, finishPending, cancelDNSFutures, mustHold
<1>16. CASE Wake
  BY <1>16 DEF Wake
<1>17. CASE Abandon
  BY <1>17 DEF Abandon, Return, cancelDNSFutures
<1>18. CASE TakeAhead
  <2>1. armed = <<>>
    BY <1>18 DEF TakeAhead, ParkedInv
  <2> QED BY <1>18, <2>1 DEF TakeAhead
<1>19. CASE FinishExchange
  <2>1. RaceQuery \/ TurnQuery
    BY <1>19 DEF FinishExchange, AskedInv, Asked
  <2>2. stage = "exchange" /\ armed' = armed /\ rules' = rules
    BY <1>19 DEF FinishExchange
  <2>3. \/ outcome' = outcome
        \/ outcome'.by = query.rule
    BY <1>19 DEF FinishExchange, Return
  <2>4. CASE TurnQuery
    BY <2>2, <2>4 DEF TurnQuery
  <2>5. CASE RaceQuery
    BY <2>2, <2>3, <2>5 DEF RaceQuery
  <2> QED BY <2>1, <2>4, <2>5
<1>20. CASE Cancel
  BY <1>20 DEF Cancel, walkVars
<1>21. ASSUME NEW i \in Index, Resolve(i), stage # "done" PROVE DecidedInv'
  BY <1>21 DEF Resolve, wakeUp
<1>22. ASSUME NEW i \in Index, SendWake(i), stage # "done" PROVE DecidedInv'
  BY <1>22 DEF SendWake, wakeUp
<1>23. CASE UNCHANGED routerVars
  BY <1>23 DEF routerVars, walkVars
<1> QED BY <1>1, <1>2, <1>3, <1>4, <1>5, <1>6, <1>7, <1>8, <1>9, <1>10, <1>11, <1>12, <1>13,
           <1>14, <1>15, <1>16, <1>17, <1>18, <1>19, <1>20, <1>21, <1>22, <1>23 DEF RouterNext,
           Step, Deliver, MatchDNS, FinishLegacy, PlaceInv

\* The walk ends by returning something.
LEMMA DoneStep ==
  ASSUME RouterTypeOK, RuleFacts, mode = "walk", DoneInv, WalkInv, [RouterNext]_routerVars
  PROVE  DoneInv'
<1> USE SameRules, Numbers DEF WalkInv
<1> USE DEF DoneInv
<1>1. CASE SettleAtRule
  BY <1>1 DEF SettleAtRule, settleDNSFutures
<1>2. CASE Arm
  BY <1>2 DEF Arm, pendingOf, Goto
<1>3. CASE Bind
  BY <1>3 DEF Bind, Suspend, Goto
<1>4. CASE RouteOptions
  BY <1>4 DEF RouteOptions, Acting, Goto, walkVars
<1>5. CASE Evaluate
  BY <1>5 DEF Evaluate, Acting, Goto, Suspend, launch, mustHold
<1>6. CASE Respond
  <2>1. PICK k \in 0..Last : k = latest[Anon]
    BY RuleAssumption, TypeGroups DEF LatestType
  <2>2. PICK i \in Index : i = ruleIndex
    BY <1>6 DEF Respond, Acting
  <2>3. responseOf(i, k) # "none"
    BY ResponseResult
  <2> QED BY <1>6, <2>1, <2>2, <2>3 DEF Respond, Acting, Suspend, Return
<1>7. CASE Route
  BY <1>7 DEF Route, Acting, Goto, Suspend, launch, mustHold, queryOf
<1>8. CASE RejectOrPredefined
  BY <1>8 DEF RejectOrPredefined, Acting, Suspend, Return, mustHold, cancelDNSFutures, resultOf
<1>9. CASE EndOfRules
  BY <1>9 DEF EndOfRules, Suspend, mustHold, queryOf
<1>10. CASE Settle
  BY <1>10 DEF Settle, settleDNSFutures
<1>11. CASE SweepPast
  BY <1>11 DEF SweepPast, Sweeping
<1>12. CASE SweepMiss
  BY <1>12 DEF SweepMiss, Sweeping, Swept
<1>13. CASE SweepHit
  <2>1. Sweeping /\ Swept.rule \in Index /\ Swept.anonymous \in 0..Last
    BY <1>13, SweptFacts DEF SweepHit
  <2>2. PICK i \in Index : i = Swept.rule
    BY <2>1
  <2>3. PICK k \in 0..Last : k = Swept.anonymous
    BY <2>1
  <2>4. responseOf(i, k) # "none" /\ resultOf(i) # "none"
    BY ResponseResult DEF resultOf
  <2>5. \/ outcome' = outcome /\ stage' # "done"
        \/ outcome' = [result |-> responseOf(i, k), by |-> i] /\ stage' = "done"
        \/ outcome' = [result |-> resultOf(i), by |-> i] /\ stage' = "done"
    BY <1>13, <2>2, <2>3 DEF SweepHit, Return, Suspend, finishPending
  <2> QED BY <2>1, <2>4, <2>5 DEF Sweeping
<1>14. CASE SweepEnd
  BY <1>14 DEF SweepEnd, Goto, walkVars
<1>15. CASE Hold
  BY <1>15 DEF Hold, Goto, finishPending, cancelDNSFutures, mustHold
<1>16. CASE Wake
  BY <1>16 DEF Wake
<1>17. CASE Abandon
  BY <1>17 DEF Abandon, Return, cancelDNSFutures
<1>18. CASE TakeAhead
  <2>1. future[ahead] # "none"
    BY <1>18 DEF TakeAhead, resolved
  <2> QED BY <1>18, <2>1 DEF TakeAhead, Return
<1>19. CASE FinishExchange
  BY <1>19 DEF FinishExchange, Return, cancelDNSFutures, nextAfter, NoSuspension, failed
<1>20. CASE Cancel
  BY <1>20 DEF Cancel, walkVars
<1>21. ASSUME NEW i \in Index, Resolve(i), stage # "done" PROVE DoneInv'
  BY <1>21 DEF Resolve, wakeUp
<1>22. ASSUME NEW i \in Index, SendWake(i), stage # "done" PROVE DoneInv'
  BY <1>22 DEF SendWake, wakeUp
<1>23. CASE UNCHANGED routerVars
  BY <1>23 DEF routerVars, walkVars
<1> QED BY <1>1, <1>2, <1>3, <1>4, <1>5, <1>6, <1>7, <1>8, <1>9, <1>10, <1>11, <1>12, <1>13,
           <1>14, <1>15, <1>16, <1>17, <1>18, <1>19, <1>20, <1>21, <1>22, <1>23 DEF RouterNext,
           Step, Deliver, MatchDNS, FinishLegacy, PlaceInv

(* The legacy modes. *)

\* The actions of the other modes.
LEMMA LegacyMoves ==
  ASSUME mode # "walk", LegacyInv, [RouterNext]_routerVars
  PROVE  MatchDNS \/ FinishLegacy \/ Cancel \/ UNCHANGED routerVars
<1>1. ASSUME NEW i \in Index, Resolve(i) \/ SendWake(i) PROVE FALSE
  BY <1>1 DEF LegacyInv, Resolve, SendWake
<1> QED
  BY <1>1 DEF LegacyInv, RouterNext, Step, Deliver, SettleAtRule, Arm, Bind, RouteOptions,
              Evaluate, Respond, Route, RejectOrPredefined, Acting, EndOfRules, Settle, SweepPast,
              SweepMiss, SweepHit, Sweeping, SweepEnd, Hold, Wake, Abandon, TakeAhead, FinishExchange

\* The lists of the other modes.
LEMMA LegacyRules ==
  ASSUME RouterTypeOK, rules \in LegacyLists
  PROVE  \A i \in Index :
           rules[i] \in RuleRecord /\ rules[i].act \in {"route", "answer", "drop", "options"}
<1>1. DOMAIN rules = Index
  BY DEF RouterTypeOK, Index, Last
<1>2. \A i \in Index : rules[i] \in RuleRecord
  BY RuleAssumption DEF RouterTypeOK, Index, Last
<1> QED BY <1>1, <1>2, ListAssumption

\* The variables of the walk keep their types in the other modes.
LEMMA LegacyTypes ==
  ASSUME RouterTypeOK, UNCHANGED <<mode, rules, ctx>>, UNCHANGED walkVars,
         stage' \in {"match", "exchange", "done"}, ruleIndex' \in 0..Default,
         options' \subseteq Index,
         query' \in [rule : 0..Default, options : SUBSET Index, fallback : BOOLEAN],
         outcome' \in [result : Result \cup {"none", "drop"}, by : 0..Default],
         answer' \in [1..Default -> Result \cup {"none"}]
  PROVE  RouterTypeOK'
BY SameRules DEF RouterTypeOK, walkVars

\* matchDNS returns the first rule after the one it was given that matches.
LEMMA LegacyMatch ==
  ASSUME RouterTypeOK, mode # "walk", rules \in LegacyLists, DoneInv, LegacyInv, MatchDNS
  PROVE  RouterTypeOK' /\ DoneInv' /\ ListedOrder' /\ LegacyInv'
<1> USE Numbers
<1>1. /\ UNCHANGED <<mode, rules, ctx, answer>> /\ UNCHANGED walkVars
      /\ stage = "match" /\ ruleIndex \in 0..Last
  BY DEF MatchDNS, LegacyInv
<1>2. PICK i \in (ruleIndex + 1)..Default :
        /\ i # Default => matches(i)
        /\ \A j \in (ruleIndex + 1)..(i - 1) : ~matches(j)
        /\ options' = {j \in (ruleIndex + 1)..(i - 1) : rules[j].act = "options"}
        /\ ruleIndex' = IF i = Default THEN 0 ELSE i
        /\ query' = queryOf(i, options', FALSE)
        /\ IF i # Default /\ rules[i].act # "route"
           THEN outcome' = [result |-> resultOf(i), by |-> i] /\ stage' = "done"
           ELSE stage' = "exchange" /\ UNCHANGED outcome
  BY DEF MatchDNS, nextAfter
<1>3. JudgedBefore(i)'
  <2> SUFFICES ASSUME NEW j \in 1..(i - 1), rules[j].act \in Terminal, ~rules[j].race
               PROVE  PassedOver(j)'
    BY <1>1 DEF JudgedBefore
  <2>1. j \in Index
    BY <1>1
  <2>2. CASE j \in 1..((ruleIndex + 1) - 1)
    <3>1. PassedOver(j)
      BY <1>1, <2>2 DEF LegacyInv, JudgedBefore
    <3> QED BY <1>1, <3>1 DEF PassedOver, failed, walkVars
  <2>3. CASE j \in (ruleIndex + 1)..(i - 1)
    <3>1. ~matches(j) /\ rules[j].act \in {"route", "answer", "drop", "options"}
      BY <1>2, <2>1, <2>3, LegacyRules
    <3>2. rules[j].act = "route" /\ ~rules[j].loaded
      BY <3>1 DEF matches, Terminal
    <3> QED BY <1>1, <3>2 DEF PassedOver
  <2> QED BY <1>1, <2>2, <2>3
<1>4. /\ i \in 1..Default /\ options' \subseteq Index /\ ruleIndex' \in 0..Last
      /\ i # Default => i \in Index
  BY <1>1, <1>2
<1>5. query' \in [rule : 0..Default, options : SUBSET Index, fallback : BOOLEAN]
  <2>1. PICK f \in BOOLEAN : query' = queryOf(i, options', f)
    BY <1>2
  <2> QED BY <1>4, <2>1 DEF queryOf
<1>6. answer' \in [1..Default -> Result \cup {"none"}]
  BY <1>1 DEF RouterTypeOK
<1>7. CASE i # Default /\ rules[i].act # "route"
  <2>1. stage' = "done" /\ outcome' = [result |-> resultOf(i), by |-> i]
    BY <1>2, <1>7
  <2>2. resultOf(i) \in {"drop", "good"}
    BY DEF resultOf
  <2>3. ListedOrder'
    BY <1>1, <1>3, <2>1, <2>2 DEF ListedOrder, JudgedBefore, PassedOver, failed
  <2>4. outcome' \in [result : Result \cup {"none", "drop"}, by : 0..Default]
    BY <1>4, <2>1, <2>2 DEF Result
  <2>5. DoneInv' /\ LegacyInv'
    BY <1>1, <1>4, <2>1, <2>2, SameRules DEF DoneInv, LegacyInv, walkVars
  <2>6. RouterTypeOK'
    BY <1>1, <1>4, <1>5, <1>6, <2>1, <2>4, LegacyTypes
  <2> QED BY <2>3, <2>5, <2>6
<1>8. CASE ~(i # Default /\ rules[i].act # "route")
  <2>1. stage' = "exchange" /\ outcome' = outcome
    BY <1>2, <1>8
  <2>2. query'.rule = i
    BY <1>2 DEF queryOf
  <2>3. DoneInv' /\ ListedOrder'
    BY <1>1, <2>1 DEF DoneInv, ListedOrder, Done
  <2>4. LegacyInv'
    <3>1. JudgedBefore(query.rule)'
      BY <1>3, <2>2 DEF JudgedBefore
    <3>2. query'.rule # Default => ruleIndex' = query'.rule /\ rules[query'.rule].act = "route"
      BY <1>2, <1>8, <2>2
    <3>3. query'.rule # 0 /\ ruleIndex' # Default
      BY <1>4, <2>2
    <3> QED BY <1>1, <2>1, <3>1, <3>2, <3>3, SameRules DEF LegacyInv, walkVars
  <2>5. RouterTypeOK'
    <3>1. outcome' \in [result : Result \cup {"none", "drop"}, by : 0..Default]
      BY <2>1 DEF RouterTypeOK
    <3> QED BY <1>1, <1>4, <1>5, <1>6, <2>1, <3>1, LegacyTypes
  <2> QED BY <2>3, <2>4, <2>5
<1> QED BY <1>7, <1>8

\* After a query the loop returns its result or goes on behind the rule that asked.
LEMMA LegacyFinish ==
  ASSUME RouterTypeOK, mode # "walk", rules \in LegacyLists, DoneInv, LegacyInv, FinishLegacy
  PROVE  RouterTypeOK' /\ DoneInv' /\ ListedOrder' /\ LegacyInv'
<1> USE Numbers
<1>1. /\ UNCHANGED <<mode, rules, ctx, ruleIndex, options, query>> /\ UNCHANGED walkVars
      /\ stage = "exchange"
  BY DEF FinishLegacy
<1>2. PICK q \in 1..Default : q = query.rule
  BY <1>1 DEF LegacyInv, RouterTypeOK
<1>3. PICK r \in {"good", "err", "bad", "rejected"} :
        /\ answer' = [answer EXCEPT ![q] = r]
        /\ IF goesOn(q, r) THEN stage' = "match" /\ UNCHANGED outcome
           ELSE outcome' = [result |-> r, by |-> q] /\ stage' = "done"
  BY <1>2 DEF FinishLegacy, results
<1>4. /\ q # Default => ruleIndex = q /\ rules[q].act = "route" /\ q \in Index
      /\ JudgedBefore(q)
  BY <1>1, <1>2 DEF LegacyInv
<1>5. /\ answer' \in [1..Default -> Result \cup {"none"}] /\ answer'[q] = r
      /\ \A j \in 1..(q - 1) : answer'[j] = answer[j]
  BY <1>3 DEF RouterTypeOK, Result
<1>6. JudgedBefore(q)'
  <2> SUFFICES ASSUME NEW j \in 1..(q - 1), rules[j].act \in Terminal, ~rules[j].race
               PROVE  PassedOver(j)'
    BY <1>1 DEF JudgedBefore
  <2>1. PassedOver(j)
    BY <1>4 DEF JudgedBefore
  <2> QED BY <1>1, <1>5, <2>1 DEF PassedOver, failed, walkVars
<1>7. CASE goesOn(q, r)
  <2>1. stage' = "match" /\ outcome' = outcome
    BY <1>3, <1>7
  <2>2. q # Default /\ failed(r) /\ (rules[q].fallback \/ rules[q].limit)
    BY <1>7 DEF goesOn, limited, isDNSFallbackRule, failed
  <2>3. JudgedBefore(ruleIndex + 1)'
    <3> SUFFICES ASSUME NEW j \in 1..((ruleIndex' + 1) - 1), rules[j].act \in Terminal,
                        ~rules[j].race
                 PROVE  PassedOver(j)'
      BY <1>1 DEF JudgedBefore
    <3>1. CASE j \in 1..(q - 1)
      BY <1>1, <1>6, <3>1 DEF JudgedBefore
    <3>2. CASE j = q
      BY <1>1, <1>5, <2>2, <3>2 DEF PassedOver
    <3> QED BY <1>1, <1>4, <2>2, <3>1, <3>2
  <2>4. DoneInv' /\ ListedOrder'
    BY <1>1, <2>1 DEF DoneInv, ListedOrder, Done
  <2>5. LegacyInv'
    BY <1>1, <2>1, <2>3, SameRules DEF LegacyInv, walkVars
  <2>6. RouterTypeOK'
    BY <1>1, <1>5, <2>1, LegacyTypes DEF RouterTypeOK
  <2> QED BY <2>4, <2>5, <2>6
<1>8. CASE ~goesOn(q, r)
  <2>1. stage' = "done" /\ outcome' = [result |-> r, by |-> q]
    BY <1>3, <1>8
  <2>2. ASSUME q # Default, rules[q].fallback, failed(r) PROVE ctx' = "done"
    <3>1. ctx # "live"
      BY <1>4, <1>8, <2>2 DEF goesOn, isDNSFallbackRule
    <3> QED BY <1>1, <3>1 DEF RouterTypeOK
  <2>3. ListedOrder'
    BY <1>1, <1>6, <2>1, <2>2, SameRules DEF ListedOrder, JudgedBefore, PassedOver, failed
  <2>4. outcome' \in [result : Result \cup {"none", "drop"}, by : 0..Default]
    BY <2>1 DEF Result
  <2>5. DoneInv' /\ LegacyInv'
    BY <1>1, <2>1, SameRules DEF DoneInv, LegacyInv, walkVars
  <2>6. RouterTypeOK'
    BY <1>1, <1>5, <2>1, <2>4, LegacyTypes DEF RouterTypeOK
  <2> QED BY <2>3, <2>5, <2>6
<1> QED BY <1>7, <1>8

-----------------------------------------------------------------------------
(* The invariant of the router. *)

\* No step changes the list or the mode.
LEMMA RulesStay ==
  ASSUME [RouterNext]_routerVars
  PROVE  rules' = rules /\ mode' = mode
BY DEF RouterNext, Step, Deliver, SettleAtRule, Arm, Bind, RouteOptions, Evaluate, Respond,
   Route,
       RejectOrPredefined, EndOfRules, Settle, SweepPast, SweepMiss, SweepHit, SweepEnd, Hold, Wake,
       Abandon, TakeAhead, FinishExchange, MatchDNS, FinishLegacy, Resolve, SendWake, Cancel,
       routerVars

\* What a valid list grants.
LEMMA WalkRules ==
  ASSUME rules \in WalkLists
  PROVE  RuleFacts
<1>1. rules \in Seq(Rule) /\ Valid(rules)
  BY ListAssumption
<1>2. DOMAIN rules = Index /\ \A i \in Index : rules[i] \in RuleRecord
  BY <1>1, RuleAssumption DEF Index, Last
<1> QED BY <1>1, <1>2 DEF Valid, RuleFacts

\* The initial states of all modes.
LEMMA RouterInitially ==
  ASSUME RouterInit
  PROVE  RouterInv
<1> USE DEF RouterInit
<1>1. /\ rules \in Seq(Rule)
      /\ mode = "walk" => rules \in WalkLists
      /\ mode # "walk" => rules \in LegacyLists
  BY ListAssumption
<1>2. Last \in Nat /\ Default = Last + 1 /\ Index = 1..Last
  BY <1>1 DEF Last, Default, Index
<1>3. RouterTypeOK
  <2>1. <<>> \in Seq(ArmedRule)
    OBVIOUS
  <2>2. query \in [rule : 0..Default, options : SUBSET Index, fallback : BOOLEAN]
    BY <1>2 DEF NoQuery
  <2>3. suspension \in [kind : {"none", "await", "drain", "pending"}, on : 0..Last]
    BY <1>2 DEF NoSuspension
  <2>4. outcome \in [result : Result \cup {"none", "drop"}, by : 0..Default]
    BY <1>2
  <2>5. /\ answer \in [1..Default -> Result \cup {"none"}] /\ latest \in [Tag -> 0..Last]
        /\ future \in [Index -> Result \cup {"none", "running"}]
    BY <1>2
  <2>6. ruleIndex \in 0..Default /\ sweepAt \in 1..Default /\ ahead \in 0..Last
    BY <1>2
  <2> QED BY <1>1, <2>1, <2>2, <2>3, <2>4, <2>5, <2>6 DEF RouterTypeOK
<1>4. DoneInv /\ ListedOrder
  BY DEF DoneInv, ListedOrder, Done
<1>5. JudgedBefore(1)
  BY DEF JudgedBefore
<1>6. CASE mode = "walk"
  <2>1. 1 \in Index => ~rules[1].race
    <3>1. Valid(rules) /\ DOMAIN rules = Index
      BY <1>1, <1>6, ListAssumption DEF Index, Last
    <3>2. 1 \in Index => \A t \in rules[1].bind : \E j \in 1..0 : TRUE
      BY <3>1 DEF Valid
    <3> QED BY <3>1, <3>2 DEF Valid
  <2>2. PlaceInv
    BY <1>2, <1>6, <2>1 DEF PlaceInv
  <2>3. MissedInv /\ ArmedInv /\ SettledInv /\ HeldInv /\ WakeInv /\ DecidedInv
    BY DEF MissedInv, ArmedInv, SettledInv, HeldInv, WakeInv, DecidedInv, Done
  <2>4. LaunchInv /\ ParkedInv
    BY <1>2, <1>6 DEF LaunchInv, ParkedInv, Parked, NoSuspension
  <2>5. JudgedInv /\ OptionsInv /\ AskedInv
    BY <1>5, <1>6 DEF JudgedInv, OptionsInv, OptionsBefore, AskedInv, Asked, Parked,
       NoSuspension
  <2> QED BY <1>1, <1>3, <1>4, <1>6, <2>2, <2>3, <2>4, <2>5 DEF RouterInv, WalkInv
<1>7. CASE mode # "walk"
  <2>1. JudgedBefore(ruleIndex + 1)
    BY <1>7 DEF JudgedBefore
  <2>2. LegacyInv
    BY <1>2, <1>7, <2>1 DEF LegacyInv
  <2> QED BY <1>1, <1>3, <1>4, <1>7, <2>2 DEF RouterInv
<1> QED BY <1>6, <1>7

\* The invariant is inductive for the walk, ...
LEMMA WalkStep ==
  ASSUME RouterTypeOK, DoneInv, ListedOrder, mode = "walk", rules \in WalkLists, WalkInv,
         [RouterNext]_routerVars
  PROVE  RouterTypeOK' /\ DoneInv' /\ ListedOrder' /\ WalkInv'
<1>1. RuleFacts /\ rules' = rules
  BY WalkRules, RulesStay
<1>2. PlaceInv'
  BY <1>1, PlaceStep
<1>3. JudgedInv'
  BY <1>1, JudgedStep, JudgedKept DEF WalkInv
<1>4. OptionsInv'
  BY <1>1, OptionsStep, OptionsKept DEF WalkInv
<1>5. WalkInv'
  BY <1>1, <1>2, <1>3, <1>4, MissedStep, ArmedStep, LaunchStep, SettledStep, HeldStep,
     ParkedStep,
     AskedStep, WakeStep, DecidedStep DEF WalkInv
<1>6. ruleIndex' \in 0..Default'
  <2>1. Default' \in Nat
    BY <1>1, SameRules, Numbers
  <2> QED BY <1>2, <2>1 DEF PlaceInv
<1>7. /\ ControlType' /\ SweepType' /\ SetType' /\ SuspensionType' /\ QueryType'
      /\ OutcomeType' /\ AnswerType' /\ FutureType' /\ LatestType' /\ ArmedType'
  BY <1>1, ControlTypeStep, SweepTypeStep, SetTypeStep, SuspensionTypeStep, QueryTypeStep,
     OutcomeTypeStep, AnswerTypeStep, FutureTypeStep, LatestTypeStep, ArmedTypeStep
<1>8. RouterTypeOK'
  BY <1>6, <1>7 DEF RouterTypeOK, ControlType, SweepType, SetType, SuspensionType, QueryType,
     OutcomeType, AnswerType, FutureType, LatestType, ArmedType
<1>9. DoneInv' /\ ListedOrder'
  BY <1>1, <1>3, DoneStep, ListedStep
<1> QED BY <1>5, <1>8, <1>9

\* ... and for the other modes.
LEMMA LegacyStep ==
  ASSUME RouterTypeOK, DoneInv, ListedOrder, mode # "walk", rules \in LegacyLists, LegacyInv,
         [RouterNext]_routerVars
  PROVE  RouterTypeOK' /\ DoneInv' /\ ListedOrder' /\ LegacyInv'
<1>1. CASE MatchDNS
  BY <1>1, LegacyMatch
<1>2. CASE FinishLegacy
  BY <1>2, LegacyFinish
<1>3. CASE Cancel
  <2>1. /\ UNCHANGED <<mode, rules, stage, ruleIndex, options, query, outcome, answer>>
        /\ UNCHANGED walkVars
        /\ outcome.result = "none" /\ ctx' = "done"
    BY <1>3 DEF Cancel
  <2>2. DoneInv' /\ ListedOrder'
    BY <2>1 DEF DoneInv, ListedOrder, Done
  <2>3. LegacyInv'
    BY <2>1, SameRules DEF LegacyInv, JudgedBefore, PassedOver, failed, walkVars
  <2>4. RouterTypeOK'
    BY <2>1, SameRules DEF RouterTypeOK, walkVars
  <2> QED BY <2>2, <2>3, <2>4
<1>4. CASE UNCHANGED routerVars
  <2> USE <1>4, SameRules DEF routerVars, walkVars
  <2>1. DoneInv' /\ RouterTypeOK'
    BY DEF DoneInv, RouterTypeOK
  <2>2. ListedOrder'
    BY DEF ListedOrder, Done, failed
  <2>3. LegacyInv'
    BY DEF LegacyInv, JudgedBefore, PassedOver, failed
  <2> QED BY <2>1, <2>2, <2>3
<1> QED BY <1>1, <1>2, <1>3, <1>4, LegacyMoves

\* The inductive invariant of the rule walk and of the legacy loops (dns/router.go).
THEOREM RouterInvariance == RouterSpec => []RouterInv
<1>1. RouterInit => RouterInv
  BY RouterInitially
<1>2. RouterInv /\ [RouterNext]_routerVars => RouterInv'
  <2> SUFFICES ASSUME RouterInv, [RouterNext]_routerVars PROVE RouterInv'
    OBVIOUS
  <2>1. rules' = rules /\ mode' = mode
    BY RulesStay
  <2>2. CASE mode = "walk"
    BY <2>1, <2>2, WalkStep DEF RouterInv
  <2>3. CASE mode # "walk"
    BY <2>1, <2>3, LegacyStep DEF RouterInv
  <2> QED BY <2>2, <2>3
<1> QED BY <1>1, <1>2, PTL DEF RouterSpec

\* Type correctness of exchangeWithRules, exchangeLegacy and the legacy part of Lookup.
THEOREM RouterTypeCorrect == RouterSpec => []RouterTypeOK
<1>1. RouterInv => RouterTypeOK
  BY DEF RouterInv
<1> QED BY <1>1, RouterInvariance, PTL

\* Rules take effect in the order they are listed in: whatever the order in which their
\* queries come back, the rule that decides comes after no other that could have, and one
\* with fallback is not the last word on a failure (resumeExchangeWithRules,
\* exchangeLegacy and Lookup of dns/router.go).
THEOREM RulesInOrder == RouterSpec => []ListedOrder
<1>1. RouterInv => ListedOrder
  BY DEF RouterInv
<1> QED BY <1>1, RouterInvariance, PTL

\* While a race rule is armed no later rule without speculative launches a query, the
\* terminal query of a later rule is not asked, and only a race rule decides past it
\* (walkDNSRules, which suspends on armedRules, and sweepArmedDNSRules of dns/router.go).
THEOREM RaceRulesHold == RouterSpec => []RaceHeld
<1>1. RouterInv => RaceHeld
  <2> SUFFICES ASSUME RouterInv, mode = "walk" PROVE RaceHeld
    BY DEF RaceHeld
  <2> USE DEF RouterInv, WalkInv
  <2>1. ASSUME NEW k \in Index, future[k] # "none", ~rules[k].speculative, NEW a \in DOMAIN armed
        PROVE  ~(armed[a].rule < k)
    <3>1. k < armed[a].rule
      BY <2>1 DEF HeldInv
    <3> QED BY <3>1, ArmedNumbers, Numbers
  <2>2. ASSUME stage = "exchange", NEW a \in DOMAIN armed
        PROVE  query.rule # Default /\ rules[query.rule].race
    <3>1. RaceQuery \/ armed = <<>>
      BY <2>2 DEF AskedInv, Asked, TurnQuery
    <3> QED BY <3>1, Numbers DEF RaceQuery
  <2>3. ASSUME Done, outcome.by # 0, NEW a \in DOMAIN armed, armed[a].rule < outcome.by
        PROVE  outcome.by # Default /\ rules[outcome.by].race
    BY <2>3 DEF DecidedInv
  <2> QED BY <2>1, <2>2, <2>3 DEF RaceHeld
<1> QED BY <1>1, RouterInvariance, PTL

\* A terminal query is asked with the options of exactly the matching route-options rules
\* listed before its rule, also when the rule was armed and decides after later ones were
\* passed (effectiveOptions and dnsArmedRule.options of dns/router.go).
THEOREM OptionsAsListed == RouterSpec => []OptionsInOrder
<1>1. RouterInv => OptionsInOrder
  BY DEF RouterInv, WalkInv, OptionsInOrder, AskedInv, Asked, OptionsBefore
<1> QED BY <1>1, RouterInvariance, PTL

\* When the loop of the walk waits while something it waits for has come, the wake-up is in
\* the channel or is still to be sent by a callback: none is lost (state.wake, dns/router.go).
THEOREM WakeUpsArrive == RouterSpec => []NoLostWakeup
<1>1. RouterInv => NoLostWakeup
  <2> SUFFICES ASSUME RouterInv, stage = "wait" PROVE NoLostWakeup
    BY DEF NoLostWakeup
  <2>1. mode = "walk"
    BY DEF RouterInv, LegacyInv
  <2> QED BY <2>1 DEF RouterInv, WalkInv, WakeInv, Heard, NoLostWakeup
<1> QED BY <1>1, RouterInvariance, PTL
=============================================================================
