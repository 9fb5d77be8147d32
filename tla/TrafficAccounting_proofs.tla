---------------------- MODULE TrafficAccounting_proofs ----------------------
(***************************************************************************)
(* Proofs about TrafficAccounting, for every set of bindings, every number *)
(* of callbacks and every bound.                                           *)
(***************************************************************************)
EXTENDS TrafficAccounting, TLAPS

-----------------------------------------------------------------------------
(* The inductive invariant. *)

\* A writer holds a claim only while it is writing.
ClaimOnlyWhileWriting ==
  \A w \in Writer : writer[w].phase # "writing" => writer[w].inc = Zero

\* Epochs only grow, so a claim once stale stays stale.
EpochsNotAhead == \A w \in Writer, i \in Ids : writer[w].epochs[i] <= clearEpochs[i]

\* What a failing writer would hand back.
Returnable(w, i) == IF stale(w, i) THEN 0 ELSE writer[w].inc[i]

\* The baseline can take back every claim that is still current.
ClaimsBacked ==
  \A i \in Ids :
    Returnable("final", i) + Returnable("shutdown", i) + Returnable("select", i) <= baseline[i]

\* The last flush begins when the loop has been joined; bytes are in hand only
\* under the lock.
FinalAfterLoop == writer["final"].phase # "idle" => loop = "joined"
HandUnderLock == hand.bytes > 0 => phase = "sweep"

Ledger ==
  /\ ClaimOnlyWhileWriting
  /\ EpochsNotAhead
  /\ ClaimsBacked
  /\ BaselineWithinTotals
  /\ Conservation
  /\ ClearedStaysCleared

\* The service hears only of nodes whose traffic was cleared in the database.
ClearsKnown ==
  /\ \A n \in 1..MaxClears : \A i \in broadcasts[n] : forgotten[i] > 0
  /\ \A i \in Ids : clearEpochs[i] > 0 => forgotten[i] > 0

IInv ==
  TypeOK /\ Ledger /\ FinalAfterLoop /\ HandUnderLock /\ ShownIsCurrent /\ ClearsKnown

-----------------------------------------------------------------------------
(* Facts about the helpers. *)

\* Every set of nodes a tag stands for is a set of accounted nodes.
LEMMA NodeSets ==
  /\ \A t \in Tag : Sets[t] \subseteq Ids
  /\ \A id : memberSet(id) \subseteq Ids
  /\ initialSet \subseteq Ids
<1>1. \A t \in Tag : Sets[t] \subseteq Ids
  BY DEF Ids
<1> QED
  BY <1>1 DEF memberSet, initialSet

\* So is the set a sweep credits.
LEMMA CreditSets == ASSUME TypeOK, NEW t PROVE creditSet(t) \subseteq Ids
BY NodeSets DEF creditSet, TypeOK, AccountType

\* The constant functions have their types.
LEMMA ZeroType == Zero \in [Ids -> Nat] /\ Initial \in [Ids -> Nat] /\ \A i \in Ids : Zero[i] = 0
BY BindingsAssumption DEF Zero

\* The core reports naturals.
LEMMA QueryType ==
  ASSUME TypeOK, NEW t \in queryTags
  PROVE  query(t) \in Nat /\ queried(t) \in [queryTags -> Nat]
BY DEF query, queried, TypeOK, CoreType

\* A credit keeps the types, adds the same amount everywhere, and marks what it
\* changes.
Share(ids, n, i) == IF i \in ids THEN n ELSE 0

\* Types after a credit.
LEMMA CreditType ==
  ASSUME TypeOK, NEW ids \in SUBSET Ids, NEW n \in Nat, credit(ids, n)
  PROVE  /\ totals' \in [Ids -> Nat] /\ dirty' \in SUBSET Ids
         /\ credited' \in [Ids -> Nat] /\ allowance' \in [Ids -> Nat]
         /\ forgotten' = forgotten
<1>1. ASSUME NEW f \in [Ids -> Nat]
      PROVE  [i \in Ids |-> IF i \in ids THEN f[i] + n ELSE f[i]] \in [Ids -> Nat]
  OBVIOUS
<1>2. /\ totals \in [Ids -> Nat] /\ credited \in [Ids -> Nat] /\ allowance \in [Ids -> Nat]
  BY DEF TypeOK, AccountType, HistoryType
<1>3. /\ totals' \in [Ids -> Nat]
      /\ credited' \in [Ids -> Nat]
      /\ allowance' \in [Ids -> Nat]
  BY <1>1, <1>2, Zenon DEF credit
<1>4. dirty' \in SUBSET Ids /\ forgotten' = forgotten
  BY DEF credit, TypeOK, AccountType
<1> QED BY <1>3, <1>4

\* A credit adds the same share to totals, credited bytes and allowance.
LEMMA CreditAdds ==
  ASSUME TypeOK, NEW ids \in SUBSET Ids, NEW n \in Nat, credit(ids, n), NEW i \in Ids
  PROVE  /\ Share(ids, n, i) \in Nat
         /\ totals'[i] = totals[i] + Share(ids, n, i)
         /\ credited'[i] = credited[i] + Share(ids, n, i)
         /\ allowance'[i] = allowance[i] + Share(ids, n, i)
BY DEF credit, TypeOK, AccountType, HistoryType, Share

\* A node that is not dirty after a credit has not changed.
LEMMA CreditMarks ==
  ASSUME TypeOK, NEW ids \in SUBSET Ids, NEW n \in Nat, credit(ids, n),
         NEW i \in Ids, i \notin dirty'
  PROVE  totals'[i] = totals[i] /\ i \notin dirty
BY DEF credit, TypeOK, AccountType

-----------------------------------------------------------------------------
(* Types *)

\* What is above the baseline is a natural.
LEMMA UnpersistedType ==
  ASSUME TypeOK, BaselineWithinTotals, NEW i \in Ids
  PROVE  Unpersisted(i) \in Nat
BY DEF TypeOK, AccountType, BaselineWithinTotals, Unpersisted

\* A claim holds naturals.
LEMMA WriterFields ==
  ASSUME TypeOK, NEW w \in Writer, NEW i \in Ids
  PROVE  writer[w].inc[i] \in Nat /\ writer[w].epochs[i] \in Nat
BY DEF TypeOK, WriterType, Claims

\* What the three writers hold is a natural.
LEMMA InFlightType ==
  ASSUME TypeOK, NEW i \in Ids
  PROVE  InFlight(i) \in Nat
<1>1. {"final", "shutdown", "select"} \subseteq Writer
  BY DEF Writer
<1>2. /\ writer["final"].inc[i] \in Nat
      /\ writer["shutdown"].inc[i] \in Nat
      /\ writer["select"].inc[i] \in Nat
  BY <1>1, WriterFields
<1> QED BY <1>2 DEF InFlight

\* Types of a new claim.
LEMMA ClaimType ==
  ASSUME TypeOK, BaselineWithinTotals, NEW ids
  PROVE  claim(ids) \in [Ids -> Nat] /\ claimEpochs(ids) \in [Ids -> Nat]
<1>1. claim(ids) \in [Ids -> Nat]
  BY UnpersistedType DEF claim
<1>2. claimEpochs(ids) \in [Ids -> Nat]
  BY DEF claimEpochs, TypeOK, AccountType
<1> QED BY <1>1, <1>2

\* A claim handed back never takes the baseline below 0.
LEMMA ReleaseType ==
  ASSUME TypeOK, ClaimsBacked, NEW w \in Writer
  PROVE  release(w) \in [Ids -> Nat]
<1> SUFFICES ASSUME NEW i \in Ids, ~stale(w, i)
             PROVE  baseline[i] - writer[w].inc[i] \in Nat
  BY DEF release, TypeOK, AccountType
<1>1. \A v \in Writer : Returnable(v, i) \in Nat
  BY WriterFields DEF Returnable
<1>2. writer[w].inc[i] = Returnable(w, i) /\ writer[w].inc[i] \in Nat
  BY WriterFields DEF Returnable
<1>3. baseline[i] \in Nat
  BY DEF TypeOK, AccountType
<1>4. Returnable("final", i) + Returnable("shutdown", i) + Returnable("select", i) <= baseline[i]
  BY DEF ClaimsBacked
<1>5. w = "final" \/ w = "shutdown" \/ w = "select"
  BY DEF Writer
<1> QED BY <1>1, <1>2, <1>3, <1>4, <1>5 DEF Writer

\* Every step keeps the types, given that claims are covered by the baseline.
LEMMA TypeStep ==
  ASSUME TypeOK, BaselineWithinTotals, ClaimsBacked, [Next]_vars
  PROVE  TypeOK'
<1> USE ZeroType
<1>1. ASSUME NEW t \in queryTags, Traffic(t)
      PROVE  TypeOK'
  <2>1. CoreType'
    BY <1>1, BindingsAssumption DEF Traffic, TypeOK, CoreType
  <2>2. AccountType' /\ SweepType' /\ PostType' /\ WriterType' /\ DbType' /\ HistoryType'
    BY <1>1 DEF Traffic, TypeOK, AccountType, SweepType, PostType, WriterType, DbType, HistoryType, coreVars, accVars, sweepVars, postVars, dbVars, history
  <2> QED BY <2>1, <2>2 DEF TypeOK
<1>2. CASE CloseBox
  <2>1. CoreType' /\ AccountType' /\ SweepType' /\ PostType' /\ WriterType' /\ DbType' /\ HistoryType'
    BY <1>2 DEF CloseBox, TypeOK, CoreType, AccountType, SweepType, PostType, WriterType, DbType, HistoryType, coreVars, accVars, sweepVars, postVars, dbVars, history
  <2> QED BY <2>1 DEF TypeOK
<1>3. CASE Build
  <2>1. AccountType'
    BY <1>3, NodeSets DEF Build, TypeOK, AccountType
  <2>2. CoreType' /\ SweepType' /\ PostType' /\ WriterType' /\ DbType' /\ HistoryType'
    BY <1>3 DEF Build, TypeOK, CoreType, SweepType, PostType, WriterType, DbType, HistoryType, coreVars, accVars, sweepVars, postVars, dbVars, history
  <2> QED BY <2>1, <2>2 DEF TypeOK
<1>4. CASE SweepBegin
  <2>1. SweepType'
    BY <1>4 DEF SweepBegin, TypeOK, SweepType
  <2>2. CoreType' /\ AccountType' /\ PostType' /\ WriterType' /\ DbType' /\ HistoryType'
    BY <1>4 DEF SweepBegin, TypeOK, CoreType, AccountType, PostType, WriterType, DbType, HistoryType, coreVars, accVars, sweepVars, postVars, dbVars, history
  <2> QED BY <2>1, <2>2 DEF TypeOK
<1>5. ASSUME NEW t \in queryTags, SweepQuery(t)
      PROVE  TypeOK'
  <2>1. CoreType'
    BY <1>5, QueryType DEF SweepQuery, TypeOK, CoreType
  <2>2. SweepType'
    BY <1>5, QueryType DEF SweepQuery, TypeOK, SweepType
  <2>3. AccountType' /\ PostType' /\ WriterType' /\ DbType' /\ HistoryType'
    BY <1>5 DEF SweepQuery, TypeOK, AccountType, PostType, WriterType, DbType, HistoryType, coreVars, accVars, sweepVars, postVars, dbVars, history
  <2> QED BY <2>1, <2>2, <2>3 DEF TypeOK
<1>6. CASE SweepCredit
  <2>1. AccountType'
    BY <1>6, CreditSets, CreditType DEF SweepCredit, TypeOK, AccountType, SweepType
  <2>2. HistoryType'
    BY <1>6, CreditSets, CreditType DEF SweepCredit, TypeOK, HistoryType, SweepType
  <2>3. SweepType'
    BY <1>6 DEF SweepCredit, TypeOK, SweepType, Nothing
  <2>4. CoreType' /\ PostType' /\ WriterType' /\ DbType'
    BY <1>6 DEF SweepCredit, TypeOK, CoreType, PostType, WriterType, DbType, coreVars, accVars, sweepVars, postVars, dbVars, history
  <2> QED BY <2>1, <2>2, <2>3, <2>4 DEF TypeOK
<1>7. CASE SweepEnd
  <2>1. AccountType'
    BY <1>7 DEF SweepEnd, TypeOK, AccountType
  <2>2. SweepType'
    BY <1>7 DEF SweepEnd, TypeOK, AccountType, SweepType, NoChange
  <2>3. CoreType' /\ PostType' /\ WriterType' /\ DbType' /\ HistoryType'
    BY <1>7 DEF SweepEnd, TypeOK, CoreType, PostType, WriterType, DbType, HistoryType, coreVars, accVars, sweepVars, postVars, dbVars, history
  <2> QED BY <2>1, <2>2, <2>3 DEF TypeOK
<1>8. CASE Push
  <2>1. SweepType'
    BY <1>8 DEF Push, TypeOK, SweepType, NoChange
  <2>2. PostType'
    BY <1>8 DEF Push, endRound, itemsFor, TypeOK, AccountType, SweepType, PostType
  <2>3. CoreType' /\ AccountType' /\ WriterType' /\ DbType' /\ HistoryType'
    BY <1>8 DEF Push, TypeOK, CoreType, AccountType, WriterType, DbType, HistoryType, coreVars, accVars, sweepVars, postVars, dbVars, history
  <2> QED BY <2>1, <2>2, <2>3 DEF TypeOK
<1>9. ASSUME NEW c \in Callback, Foreground(c)
      PROVE  TypeOK'
  <2>1. PostType'
    BY <1>9 DEF Foreground, TypeOK, PostType
  <2>2. CoreType' /\ AccountType' /\ SweepType' /\ WriterType' /\ DbType' /\ HistoryType'
    BY <1>9 DEF Foreground, TypeOK, CoreType, AccountType, SweepType, WriterType, DbType, HistoryType, coreVars, accVars, sweepVars, postVars, dbVars, history
  <2> QED BY <2>1, <2>2 DEF TypeOK
<1>10. CASE ChangeState
  <2>1. SweepType'
    BY <1>10 DEF ChangeState, TypeOK, SweepType
  <2>2. CoreType' /\ AccountType' /\ PostType' /\ WriterType' /\ DbType' /\ HistoryType'
    BY <1>10 DEF ChangeState, TypeOK, CoreType, AccountType, PostType, WriterType, DbType, HistoryType, coreVars, accVars, sweepVars, postVars, dbVars, history
  <2> QED BY <2>1, <2>2 DEF TypeOK
<1>11. CASE StopLoop
  <2>1. SweepType'
    BY <1>11 DEF StopLoop, TypeOK, SweepType
  <2>2. CoreType' /\ AccountType' /\ PostType' /\ WriterType' /\ DbType' /\ HistoryType'
    BY <1>11 DEF StopLoop, TypeOK, CoreType, AccountType, PostType, WriterType, DbType, HistoryType, coreVars, accVars, sweepVars, postVars, dbVars, history
  <2> QED BY <2>1, <2>2 DEF TypeOK
<1>12. ASSUME NEW id \in DOMAIN Member, Select(id)
      PROVE  TypeOK'
  <2>1. CoreType'
    BY <1>12, QueryType DEF Select, TypeOK, CoreType, queryTags, selectorMode
  <2>2. AccountType'
    BY <1>12, NodeSets, QueryType, CreditType DEF Select, TypeOK, AccountType, queryTags, selectorMode
  <2>3. HistoryType'
    BY <1>12, QueryType, CreditType DEF Select, TypeOK, AccountType, HistoryType, queryTags, selectorMode
  <2>4. WriterType'
    BY <1>12 DEF Select, TypeOK, AccountType, WriterType, Claims, IdleWriter
  <2>5. SweepType' /\ PostType' /\ DbType'
    BY <1>12 DEF Select, TypeOK, SweepType, PostType, DbType, coreVars, accVars, sweepVars, postVars, dbVars, history
  <2> QED BY <2>1, <2>2, <2>3, <2>4, <2>5 DEF TypeOK
<1>13. ASSUME NEW w \in Writer, NEW bound \in SUBSET Ids, Flush(w, bound)
      PROVE  TypeOK'
  <2>1. WriterType'
    BY <1>13 DEF Flush, TypeOK, WriterType, Claims, IdleWriter
  <2>2. PostType'
    BY <1>13 DEF Flush, TypeOK, AccountType, PostType, postVars
  <2>3. CoreType' /\ AccountType' /\ SweepType' /\ DbType' /\ HistoryType'
    BY <1>13 DEF Flush, TypeOK, CoreType, AccountType, SweepType, DbType, HistoryType, coreVars, accVars, sweepVars, postVars, dbVars, history
  <2> QED BY <2>1, <2>2, <2>3 DEF TypeOK
<1>14. ASSUME NEW w \in Writer, Claim(w)
      PROVE  TypeOK'
  <2>1. WriterType'
    <3> DEFINE record == [writer[w] EXCEPT !.phase = "writing", !.inc = claim(writer[w].ids),
                                          !.epochs = claimEpochs(writer[w].ids)]
    <3>1. writer[w] \in Claims
      BY DEF TypeOK, WriterType
    <3>2. record \in Claims
      BY <3>1, ClaimType DEF Claims
    <3>3. writer' = [writer EXCEPT ![w] = record]
      BY <1>14 DEF Claim, TypeOK, WriterType
    <3> QED BY <3>2, <3>3 DEF TypeOK, WriterType
  <2>2. AccountType'
    BY <1>14 DEF Claim, claimedBaseline, TypeOK, AccountType
  <2>3. CoreType' /\ SweepType' /\ PostType' /\ DbType' /\ HistoryType'
    BY <1>14 DEF Claim, TypeOK, CoreType, SweepType, PostType, DbType, HistoryType, coreVars, accVars, sweepVars, postVars, dbVars, history
  <2> QED BY <2>1, <2>2, <2>3 DEF TypeOK
<1>15. ASSUME NEW w \in Writer, ClaimNothing(w)
      PROVE  TypeOK'
  <2>1. WriterType'
    BY <1>15 DEF ClaimNothing, TypeOK, WriterType, Claims, IdleWriter
  <2>2. PostType'
    BY <1>15 DEF ClaimNothing, postFinalTraffic, TypeOK, PostType
  <2>3. CoreType' /\ AccountType' /\ SweepType' /\ DbType' /\ HistoryType'
    BY <1>15 DEF ClaimNothing, TypeOK, CoreType, AccountType, SweepType, DbType, HistoryType, coreVars, accVars, sweepVars, postVars, dbVars, history
  <2> QED BY <2>1, <2>2, <2>3 DEF TypeOK
<1>16. ASSUME NEW w \in Writer, Persist(w)
      PROVE  TypeOK'
  <2>1. WriterType'
    BY <1>16 DEF Persist, TypeOK, WriterType, Claims, IdleWriter
  <2>2. PostType'
    BY <1>16 DEF Persist, postFinalTraffic, TypeOK, PostType
  <2>3. DbType'
    BY <1>16 DEF Persist, addTraffic, TypeOK, DbType, WriterType, Claims
  <2>4. CoreType' /\ AccountType' /\ SweepType' /\ HistoryType'
    BY <1>16 DEF Persist, TypeOK, CoreType, AccountType, SweepType, HistoryType, coreVars, accVars, sweepVars, postVars, dbVars, history
  <2> QED BY <2>1, <2>2, <2>3, <2>4 DEF TypeOK
<1>17. ASSUME NEW w \in Writer, PersistFails(w)
      PROVE  TypeOK'
  <2>1. WriterType'
    BY <1>17 DEF PersistFails, TypeOK, WriterType, Claims, IdleWriter
  <2>2. PostType'
    BY <1>17 DEF PersistFails, TypeOK, PostType, postVars
  <2>3. AccountType'
    BY <1>17, ReleaseType DEF PersistFails, TypeOK, AccountType
  <2>4. HistoryType'
    BY <1>17 DEF PersistFails, TypeOK, HistoryType, WriterType, Claims
  <2>5. CoreType' /\ SweepType' /\ DbType'
    BY <1>17 DEF PersistFails, TypeOK, CoreType, SweepType, DbType, coreVars, accVars, sweepVars, postVars, dbVars, history
  <2> QED BY <2>1, <2>2, <2>3, <2>4, <2>5 DEF TypeOK
<1>18. ASSUME NEW ids \in SUBSET Ids, UiClear(ids)
      PROVE  TypeOK'
  <2>1. DbType'
    BY <1>18, BindingsAssumption DEF UiClear, TypeOK, DbType
  <2>2. HistoryType'
    <3>1. \A i \in Ids : Unpersisted(i) + InFlight(i) \in Nat
      BY InFlightType, UnpersistedType
    <3>2. allowance' \in [Ids -> Nat]
      BY <1>18, <3>1 DEF UiClear, TypeOK, HistoryType
    <3>3. credited' \in [Ids -> Nat] /\ forgotten' \in [Ids -> Nat]
      BY <1>18 DEF UiClear, TypeOK, HistoryType, DbType
    <3> QED BY <3>2, <3>3 DEF HistoryType
  <2>3. CoreType' /\ AccountType' /\ SweepType' /\ PostType' /\ WriterType'
    BY <1>18 DEF UiClear, TypeOK, CoreType, AccountType, SweepType, PostType, WriterType, coreVars, accVars, sweepVars, postVars, dbVars, history
  <2> QED BY <2>1, <2>2, <2>3 DEF TypeOK
<1>19. ASSUME NEW m \in 1..MaxClears, ClearStats(m)
      PROVE  TypeOK'
  <2>1. DbType'
    BY <1>19 DEF ClearStats, TypeOK, DbType
  <2>2. AccountType'
    <3>1. \A f \in [Ids -> Nat] : clear(f, broadcasts[m]) \in [Ids -> Nat]
      BY DEF clear
    <3>2. CASE ~built
      BY <1>19, <3>2 DEF ClearStats, TypeOK, AccountType, accVars
    <3>3. CASE built
      <4>1. totals' \in [Ids -> Nat] /\ baseline' \in [Ids -> Nat]
        BY <1>19, <3>1, <3>3 DEF ClearStats, clearedBaseline, TypeOK, AccountType
      <4>2. clearEpochs' \in [Ids -> Nat]
        BY <1>19, <3>3 DEF ClearStats, TypeOK, AccountType
      <4>3. built' \in BOOLEAN /\ selectedSet' \in SUBSET Ids /\ dirty' \in SUBSET Ids
        BY <1>19, <3>3 DEF ClearStats, TypeOK, AccountType, DbType
      <4> QED BY <4>1, <4>2, <4>3 DEF AccountType
    <3> QED BY <3>2, <3>3
  <2>3. HistoryType'
    BY <1>19, UnpersistedType DEF ClearStats, TypeOK, HistoryType, history
  <2>4. CoreType' /\ SweepType' /\ PostType' /\ WriterType'
    BY <1>19 DEF ClearStats, TypeOK, CoreType, SweepType, PostType, WriterType, coreVars, accVars, sweepVars, postVars, dbVars, history
  <2> QED BY <2>1, <2>2, <2>3, <2>4 DEF TypeOK
<1>20. CASE UNCHANGED vars
  BY <1>20 DEF vars, TypeOK, CoreType, AccountType, SweepType, PostType, WriterType, DbType, HistoryType, coreVars, accVars, sweepVars, postVars, dbVars, history
<1> QED
  BY <1>1, <1>2, <1>3, <1>4, <1>5, <1>6, <1>7, <1>8, <1>9, <1>10, <1>11, <1>12, <1>13, <1>14, <1>15, <1>16, <1>17, <1>18, <1>19, <1>20 DEF Next, LoopStep, WriterStep

-----------------------------------------------------------------------------
(* The ledger *)

Owed(i) == Returnable("final", i) + Returnable("shutdown", i) + Returnable("select", i)

\* Replacing one writer leaves the others.
LEMMA WriterUpdate ==
  ASSUME TypeOK, NEW w \in Writer, NEW r, writer' = [writer EXCEPT ![w] = r]
  PROVE  writer'[w] = r /\ \A v \in Writer \ {w} : writer'[v] = writer[v]
BY DEF TypeOK, WriterType

\* Only the writer that takes a step changes what is in flight.
LEMMA InFlightUpdate ==
  ASSUME TypeOK, NEW i \in Ids, NEW w \in Writer, NEW r \in Claims,
         writer' = [writer EXCEPT ![w] = r]
  PROVE  InFlight(i)' = InFlight(i) + r.inc[i] - writer[w].inc[i]
<1>1. writer'[w] = r /\ \A v \in Writer \ {w} : writer'[v] = writer[v]
  BY WriterUpdate
<1>2. r.inc[i] \in Nat /\ \A v \in Writer : writer[v].inc[i] \in Nat
  BY WriterFields DEF Claims
<1>3. w = "final" \/ w = "shutdown" \/ w = "select"
  BY DEF Writer
<1> QED BY <1>1, <1>2, <1>3 DEF InFlight, Writer

\* Only the writer that takes a step changes what may be handed back.
LEMMA OwedUpdate ==
  ASSUME TypeOK, NEW i \in Ids, NEW w \in Writer, NEW r \in Claims,
         writer' = [writer EXCEPT ![w] = r], clearEpochs' = clearEpochs
  PROVE  Owed(i)' = Owed(i) + Returnable(w, i)' - Returnable(w, i)
<1>1. writer'[w] = r /\ \A v \in Writer \ {w} : writer'[v] = writer[v]
  BY WriterUpdate
<1>2. \A v \in Writer \ {w} : Returnable(v, i)' = Returnable(v, i)
  BY <1>1 DEF Returnable, stale
<1>3. \A v \in Writer : Returnable(v, i) \in Nat
  BY WriterFields DEF Returnable
<1>4. Returnable(w, i)' \in Nat
  BY <1>1 DEF Returnable, Claims
<1>5. w = "final" \/ w = "shutdown" \/ w = "select"
  BY DEF Writer
<1> QED BY <1>2, <1>3, <1>4, <1>5 DEF Owed, Writer

\* What may be handed back is a natural.
LEMMA OwedType ==
  ASSUME TypeOK, NEW i \in Ids
  PROVE  Owed(i) \in Nat /\ \A w \in Writer : Returnable(w, i) \in Nat
BY WriterFields DEF Returnable, Owed, Writer

\* Types of everything the ledger adds up.
LEMMA LedgerTypes ==
  ASSUME TypeOK, Ledger, NEW i \in Ids
  PROVE  /\ db[i] \in Nat /\ InFlight(i) \in Nat /\ Unpersisted(i) \in Nat /\ Owed(i) \in Nat
         /\ totals[i] \in Nat /\ baseline[i] \in Nat /\ clearEpochs[i] \in Nat
         /\ credited[i] \in Nat /\ forgotten[i] \in Nat /\ allowance[i] \in Nat
         /\ Initial[i] \in Nat
<1>1. InFlight(i) \in Nat /\ Unpersisted(i) \in Nat /\ Owed(i) \in Nat
  BY InFlightType, UnpersistedType, OwedType DEF Ledger
<1>2. db[i] \in Nat /\ totals[i] \in Nat /\ baseline[i] \in Nat /\ clearEpochs[i] \in Nat
  BY DEF TypeOK, DbType, AccountType
<1>3. credited[i] \in Nat /\ forgotten[i] \in Nat /\ allowance[i] \in Nat /\ Initial[i] \in Nat
  BY BindingsAssumption DEF TypeOK, HistoryType
<1> QED BY <1>1, <1>2, <1>3

\* The ledger read at one node.
Entry(i) ==
  /\ Owed(i) <= baseline[i]
  /\ baseline[i] <= totals[i]
  /\ db[i] + InFlight(i) + Unpersisted(i) + forgotten[i] = Initial[i] + credited[i]
  /\ db[i] + InFlight(i) + Unpersisted(i) <= allowance[i]

\* The ledger, node by node.
LEMMA LedgerEntries ==
  ASSUME TypeOK
  PROVE  Ledger <=> /\ ClaimOnlyWhileWriting
                    /\ EpochsNotAhead
                    /\ \A i \in Ids : Entry(i)
<1>1. \A i \in Ids : baseline[i] \in Nat
  BY DEF TypeOK, AccountType
<1> QED
  BY <1>1 DEF Ledger, Entry, Owed, ClaimsBacked, BaselineWithinTotals, Conservation,
              ClearedStaysCleared

\* A step that touches none of these variables keeps the ledger.
LEMMA LedgerFrame ==
  ASSUME Ledger,
         UNCHANGED <<writer, totals, baseline, clearEpochs, db, credited, forgotten, allowance>>
  PROVE  Ledger'
BY DEF Ledger, ClaimOnlyWhileWriting, EpochsNotAhead, ClaimsBacked, BaselineWithinTotals,
       Conservation, ClearedStaysCleared, Returnable, stale, InFlight, Unpersisted

\* A credit raises totals, credited and allowance alike.
LEMMA CreditEntry ==
  ASSUME TypeOK, Ledger, NEW ids \in SUBSET Ids, NEW n \in Nat, credit(ids, n), NEW i \in Ids,
         baseline' = baseline, db' = db, InFlight(i)' = InFlight(i), Owed(i)' = Owed(i)
  PROVE  Entry(i)'
<1>1. Entry(i)
  BY LedgerEntries
<1>2. /\ Share(ids, n, i) \in Nat
      /\ totals'[i] = totals[i] + Share(ids, n, i)
      /\ credited'[i] = credited[i] + Share(ids, n, i)
      /\ allowance'[i] = allowance[i] + Share(ids, n, i)
      /\ forgotten' = forgotten
  BY CreditAdds, CreditType
<1>3. Unpersisted(i)' = Unpersisted(i) + Share(ids, n, i)
  BY <1>2, LedgerTypes DEF Unpersisted
<1> QED BY <1>1, <1>2, <1>3, LedgerTypes DEF Entry

\* A writer that holds no claim is put into a state without a claim.
LEMMA NoClaimStep ==
  ASSUME TypeOK, Ledger, NEW w \in Writer, NEW r \in Claims,
         writer[w].phase # "writing", r.phase # "writing", r.inc = Zero, r.epochs = Zero,
         writer' = [writer EXCEPT ![w] = r], clearEpochs' = clearEpochs
  PROVE  /\ ClaimOnlyWhileWriting' /\ EpochsNotAhead'
         /\ \A i \in Ids : InFlight(i)' = InFlight(i) /\ Owed(i)' = Owed(i)
<1>1. writer'[w] = r /\ \A v \in Writer \ {w} : writer'[v] = writer[v]
  BY WriterUpdate
<1>2. writer[w].inc = Zero
  BY DEF Ledger, ClaimOnlyWhileWriting
<1>3. ClaimOnlyWhileWriting'
  BY <1>1 DEF Ledger, ClaimOnlyWhileWriting, Zero
<1>4. EpochsNotAhead'
  BY <1>1, ZeroType DEF Ledger, EpochsNotAhead, TypeOK, AccountType
<1>5. ASSUME NEW i \in Ids PROVE InFlight(i)' = InFlight(i) /\ Owed(i)' = Owed(i)
  <2>1. Returnable(w, i) = 0 /\ Returnable(w, i)' = 0
    BY <1>1, <1>2, ZeroType DEF Returnable
  <2>2. InFlight(i) \in Nat /\ Owed(i) \in Nat
    BY LedgerTypes
  <2>3. InFlight(i)' = InFlight(i) + r.inc[i] - writer[w].inc[i]
    BY InFlightUpdate
  <2>4. Owed(i)' = Owed(i) + Returnable(w, i)' - Returnable(w, i)
    BY OwedUpdate
  <2>5. r.inc[i] = 0 /\ writer[w].inc[i] = 0
    BY <1>2, ZeroType
  <2> QED BY <2>1, <2>2, <2>3, <2>4, <2>5
<1> QED BY <1>3, <1>4, <1>5

\* The ledger after a step, from its parts.
LEMMA LedgerAfter ==
  ASSUME TypeOK', ClaimOnlyWhileWriting', EpochsNotAhead', \A i \in Ids : Entry(i)'
  PROVE  Ledger'
<1>1. TypeOK' => (Ledger' <=> (ClaimOnlyWhileWriting /\ EpochsNotAhead /\ \A i \in Ids : Entry(i))')
  BY LedgerEntries, PTL
<1> QED BY <1>1

\* Crediting what a sweep took keeps the ledger.
LEMMA SweepCreditLedger == ASSUME TypeOK, TypeOK', Ledger, SweepCredit PROVE Ledger'
<1>1. /\ credit(creditSet(hand.tag), hand.bytes)
      /\ writer' = writer /\ clearEpochs' = clearEpochs /\ baseline' = baseline /\ db' = db
  BY DEF SweepCredit, dbVars
<1>2. creditSet(hand.tag) \in SUBSET Ids /\ hand.bytes \in Nat
  BY CreditSets DEF TypeOK, SweepType
<1>3. ASSUME NEW i \in Ids PROVE Entry(i)'
  <2>1. InFlight(i)' = InFlight(i) /\ Owed(i)' = Owed(i)
    BY <1>1 DEF InFlight, Owed, Returnable, stale
  <2> QED BY <1>1, <1>2, <2>1, CreditEntry
<1>4. ClaimOnlyWhileWriting' /\ EpochsNotAhead'
  BY <1>1 DEF Ledger, ClaimOnlyWhileWriting, EpochsNotAhead
<1> QED BY <1>3, <1>4, LedgerAfter

\* A selector switch credits the outgoing member and keeps the ledger.
LEMMA SelectLedger ==
  ASSUME TypeOK, TypeOK', Ledger, NEW id \in DOMAIN Member, Select(id) PROVE Ledger'
<1>1. /\ credit(selectedSet, query(TAG_PROXY))
      /\ clearEpochs' = clearEpochs /\ baseline' = baseline /\ db' = db
      /\ writer["select"].phase = "idle"
  BY DEF Select, dbVars
<1>2. selectedSet \in SUBSET Ids /\ query(TAG_PROXY) \in Nat
  BY QueryType DEF TypeOK, AccountType, queryTags, selectorMode
<1>3. /\ ClaimOnlyWhileWriting' /\ EpochsNotAhead'
      /\ \A i \in Ids : InFlight(i)' = InFlight(i) /\ Owed(i)' = Owed(i)
  <2>1. CASE selectedSet = {}
    <3>1. writer' = writer
      BY <2>1 DEF Select
    <3> QED
      BY <1>1, <3>1 DEF Ledger, ClaimOnlyWhileWriting, EpochsNotAhead, InFlight, Owed,
                        Returnable, stale
  <2>2. CASE selectedSet # {}
    <3> DEFINE r == [IdleWriter EXCEPT !.phase = "claiming", !.ids = selectedSet]
    <3>1. writer' = [writer EXCEPT !["select"] = r]
      BY <2>2 DEF Select
    <3>2. r \in Claims /\ r.phase = "claiming" /\ r.inc = Zero /\ r.epochs = Zero
      BY <1>2, ZeroType DEF IdleWriter, Claims
    <3>3. "select" \in Writer
      BY DEF Writer
    <3> HIDE DEF r
    <3> QED BY <1>1, <3>1, <3>2, <3>3, NoClaimStep
  <2> QED BY <2>1, <2>2
<1>4. ASSUME NEW i \in Ids PROVE Entry(i)'
  BY <1>1, <1>2, <1>3, CreditEntry
<1> QED BY <1>3, <1>4, LedgerAfter

\* Flush and ClaimNothing move a writer that holds no claim, and nothing else
\* that the ledger adds up.
LEMMA NoClaimLedger ==
  ASSUME TypeOK, TypeOK', Ledger, NEW w \in Writer, NEW r \in Claims,
         writer[w].phase # "writing", r.phase # "writing", r.inc = Zero, r.epochs = Zero,
         writer' = [writer EXCEPT ![w] = r],
         UNCHANGED <<totals, baseline, clearEpochs, db, credited, forgotten, allowance>>
  PROVE  Ledger'
<1>1. /\ ClaimOnlyWhileWriting' /\ EpochsNotAhead'
      /\ \A i \in Ids : InFlight(i)' = InFlight(i) /\ Owed(i)' = Owed(i)
  BY NoClaimStep
<1>2. \A i \in Ids : Entry(i)
  BY LedgerEntries
<1>3. \A i \in Ids : Entry(i)'
  BY <1>1, <1>2 DEF Entry, Unpersisted
<1> QED BY <1>1, <1>3, LedgerAfter

\* A writer that sets out has claimed nothing yet.
LEMMA FlushLedger ==
  ASSUME TypeOK, TypeOK', Ledger, NEW w \in Writer, NEW bound \in SUBSET Ids, Flush(w, bound)
  PROVE  Ledger'
<1> DEFINE r == [IdleWriter EXCEPT !.phase = "claiming", !.ids = bound]
<1>1. r \in Claims /\ r.phase = "claiming" /\ r.inc = Zero /\ r.epochs = Zero
  BY ZeroType DEF IdleWriter, Claims
<1>2. /\ writer' = [writer EXCEPT ![w] = r] /\ writer[w].phase = "idle"
      /\ UNCHANGED <<totals, baseline, clearEpochs, db, credited, forgotten, allowance>>
  BY DEF Flush, accVars, dbVars, history
<1> HIDE DEF r
<1> QED BY <1>1, <1>2, NoClaimLedger

\* A writer with nothing to claim goes back.
LEMMA ClaimNothingLedger ==
  ASSUME TypeOK, TypeOK', Ledger, NEW w \in Writer, ClaimNothing(w) PROVE Ledger'
<1>1. IdleWriter \in Claims /\ IdleWriter.phase = "idle"
      /\ IdleWriter.inc = Zero /\ IdleWriter.epochs = Zero
  BY ZeroType DEF IdleWriter, Claims
<1>2. /\ writer' = [writer EXCEPT ![w] = IdleWriter] /\ writer[w].phase = "claiming"
      /\ UNCHANGED <<totals, baseline, clearEpochs, db, credited, forgotten, allowance>>
  BY DEF ClaimNothing, accVars, dbVars, history
<1> QED BY <1>1, <1>2, NoClaimLedger

\* A claim moves what is not persisted from the totals into flight.
LEMMA ClaimLedger ==
  ASSUME TypeOK, TypeOK', Ledger, NEW w \in Writer, Claim(w) PROVE Ledger'
<1> DEFINE ids == writer[w].ids
           r == [writer[w] EXCEPT !.phase = "writing", !.inc = claim(ids),
                                  !.epochs = claimEpochs(ids)]
<1>1. BaselineWithinTotals /\ writer[w] \in Claims
  BY DEF Ledger, TypeOK, WriterType
<1>2. r \in Claims /\ r.phase = "writing" /\ r.inc = claim(ids) /\ r.epochs = claimEpochs(ids)
  BY <1>1, ClaimType DEF Claims
<1>3. /\ writer' = [writer EXCEPT ![w] = r] /\ writer[w].phase = "claiming"
      /\ UNCHANGED <<totals, clearEpochs, db, credited, forgotten, allowance>>
      /\ baseline' = claimedBaseline(ids)
  BY DEF Claim, TypeOK, WriterType, dbVars, history
<1> HIDE DEF r, ids
<1>4. writer'[w] = r /\ \A v \in Writer \ {w} : writer'[v] = writer[v]
  BY <1>3, WriterUpdate
<1>5. writer[w].inc = Zero
  BY <1>3 DEF Ledger, ClaimOnlyWhileWriting
<1>6. ClaimOnlyWhileWriting'
  BY <1>2, <1>4 DEF Ledger, ClaimOnlyWhileWriting, Zero
<1>7. EpochsNotAhead'
  <2>1. \A i \in Ids : claimEpochs(ids)[i] <= clearEpochs[i]
    BY DEF claimEpochs, TypeOK, AccountType
  <2> QED BY <1>2, <1>3, <1>4, <2>1 DEF Ledger, EpochsNotAhead
<1>8. ASSUME NEW i \in Ids PROVE Entry(i)'
  <2>1. Entry(i)
    BY LedgerEntries
  <2>2. InFlight(i)' = InFlight(i) + r.inc[i] - writer[w].inc[i]
    BY <1>2, <1>3, InFlightUpdate
  <2>3. Owed(i)' = Owed(i) + Returnable(w, i)' - Returnable(w, i)
    BY <1>2, <1>3, OwedUpdate
  <2>4. writer[w].inc[i] = 0 /\ Returnable(w, i) = 0
    BY <1>5, ZeroType DEF Returnable
  <2>5. r.inc[i] = (IF i \in ids THEN Unpersisted(i) ELSE 0)
    BY <1>2 DEF claim
  <2>6. Returnable(w, i)' \in {0, r.inc[i]}
    BY <1>4 DEF Returnable
  <2>7. baseline'[i] = baseline[i] + r.inc[i]
    BY <1>3, <2>5, LedgerTypes DEF claimedBaseline, Unpersisted
  <2>8. Unpersisted(i)' = Unpersisted(i) - r.inc[i]
    BY <1>3, <2>5, <2>7, LedgerTypes DEF Unpersisted
  <2>9. r.inc[i] \in Nat /\ r.inc[i] <= Unpersisted(i)
    BY <2>5, LedgerTypes
  <2>10. baseline'[i] <= totals'[i]
    BY <1>3, <2>1, <2>5, <2>7, LedgerTypes DEF Unpersisted, Entry
  <2> QED BY <1>3, <2>1, <2>2, <2>3, <2>4, <2>6, <2>7, <2>8, <2>9, <2>10, LedgerTypes DEF Entry
<1> QED BY <1>6, <1>7, <1>8, LedgerAfter

\* The end of a write, either way: the writer holds nothing any more.
LEMMA WriteEnds ==
  ASSUME TypeOK, Ledger, NEW w \in Writer, writer' = [writer EXCEPT ![w] = IdleWriter],
         clearEpochs' = clearEpochs
  PROVE  /\ ClaimOnlyWhileWriting' /\ EpochsNotAhead'
         /\ \A i \in Ids : /\ InFlight(i)' = InFlight(i) - writer[w].inc[i]
                           /\ Owed(i)' = Owed(i) - Returnable(w, i)
<1>1. IdleWriter \in Claims /\ IdleWriter.inc = Zero /\ IdleWriter.epochs = Zero
  BY ZeroType DEF IdleWriter, Claims
<1>2. writer'[w] = IdleWriter /\ \A v \in Writer \ {w} : writer'[v] = writer[v]
  BY WriterUpdate
<1>3. ClaimOnlyWhileWriting'
  BY <1>1, <1>2 DEF Ledger, ClaimOnlyWhileWriting, Zero
<1>4. EpochsNotAhead'
  BY <1>1, <1>2, ZeroType DEF Ledger, EpochsNotAhead, TypeOK, AccountType
<1>5. ASSUME NEW i \in Ids
      PROVE  /\ InFlight(i)' = InFlight(i) - writer[w].inc[i]
             /\ Owed(i)' = Owed(i) - Returnable(w, i)
  <2>1. InFlight(i)' = InFlight(i) + IdleWriter.inc[i] - writer[w].inc[i]
    BY <1>1, InFlightUpdate
  <2>2. Owed(i)' = Owed(i) + Returnable(w, i)' - Returnable(w, i)
    BY <1>1, OwedUpdate
  <2>3. IdleWriter.inc[i] = 0 /\ Returnable(w, i)' = 0
    BY <1>1, <1>2, ZeroType DEF Returnable
  <2>4. InFlight(i) \in Nat /\ Owed(i) \in Nat /\ writer[w].inc[i] \in Nat
        /\ Returnable(w, i) \in Nat
    BY LedgerTypes, WriterFields, OwedType
  <2> QED BY <2>1, <2>2, <2>3, <2>4
<1> QED BY <1>3, <1>4, <1>5

\* A transaction moves bytes from the claim to the database.
LEMMA PersistLedger ==
  ASSUME TypeOK, TypeOK', Ledger, NEW w \in Writer, Persist(w) PROVE Ledger'
<1>1. /\ writer' = [writer EXCEPT ![w] = IdleWriter]
      /\ db' = addTraffic(writer[w].inc)
      /\ UNCHANGED <<totals, baseline, clearEpochs, credited, forgotten, allowance>>
  BY DEF Persist, accVars, history
<1>2. /\ ClaimOnlyWhileWriting' /\ EpochsNotAhead'
      /\ \A i \in Ids : /\ InFlight(i)' = InFlight(i) - writer[w].inc[i]
                        /\ Owed(i)' = Owed(i) - Returnable(w, i)
  BY <1>1, WriteEnds
<1>3. ASSUME NEW i \in Ids PROVE Entry(i)'
  <2>1. Entry(i) /\ writer[w].inc[i] \in Nat /\ Returnable(w, i) \in Nat
    BY LedgerEntries, WriterFields, OwedType
  <2>2. db'[i] = db[i] + writer[w].inc[i]
    BY <1>1 DEF addTraffic
  <2>3. Unpersisted(i)' = Unpersisted(i)
    BY <1>1 DEF Unpersisted
  <2> QED BY <1>1, <1>2, <2>1, <2>2, <2>3, LedgerTypes DEF Entry
<1> QED BY <1>2, <1>3, LedgerAfter

\* A failed transaction hands its claim back, or forgets what was cleared meanwhile.
LEMMA PersistFailsLedger ==
  ASSUME TypeOK, TypeOK', Ledger, NEW w \in Writer, PersistFails(w) PROVE Ledger'
<1>1. /\ writer' = [writer EXCEPT ![w] = IdleWriter]
      /\ baseline' = release(w)
      /\ UNCHANGED <<db, totals, clearEpochs, credited, allowance>>
  BY DEF PersistFails, dbVars
<1>2. /\ ClaimOnlyWhileWriting' /\ EpochsNotAhead'
      /\ \A i \in Ids : /\ InFlight(i)' = InFlight(i) - writer[w].inc[i]
                        /\ Owed(i)' = Owed(i) - Returnable(w, i)
  BY <1>1, WriteEnds
<1>3. ASSUME NEW i \in Ids PROVE Entry(i)'
  <2>1. Entry(i) /\ writer[w].inc[i] \in Nat
    BY LedgerEntries, WriterFields
  <2>2. CASE stale(w, i)
    <3>1. /\ baseline'[i] = baseline[i] /\ Returnable(w, i) = 0
          /\ forgotten'[i] = forgotten[i] + writer[w].inc[i]
      BY <1>1, <2>2 DEF PersistFails, release, Returnable, stale
    <3>2. Unpersisted(i)' = Unpersisted(i)
      BY <1>1, <3>1 DEF Unpersisted
    <3> QED BY <1>1, <1>2, <2>1, <3>1, <3>2, LedgerTypes DEF Entry
  <2>3. CASE ~stale(w, i)
    <3>1. /\ baseline'[i] = baseline[i] - writer[w].inc[i]
          /\ Returnable(w, i) = writer[w].inc[i]
          /\ forgotten'[i] = forgotten[i]
      BY <1>1, <2>3 DEF PersistFails, release, Returnable, stale
    <3>2. Unpersisted(i)' = Unpersisted(i) + writer[w].inc[i]
      BY <1>1, <2>1, <3>1, LedgerTypes DEF Unpersisted
    <3> QED BY <1>1, <1>2, <2>1, <3>1, <3>2, LedgerTypes DEF Entry
  <2> QED BY <2>2, <2>3
<1> QED BY <1>2, <1>3, LedgerAfter

\* A clear in the database is charged to what is forgotten.
LEMMA UiClearLedger ==
  ASSUME TypeOK, TypeOK', Ledger, NEW ids \in SUBSET Ids, UiClear(ids) PROVE Ledger'
<1>1. UNCHANGED <<writer, totals, baseline, clearEpochs, credited>>
  BY DEF UiClear, accVars
<1>2. ClaimOnlyWhileWriting' /\ EpochsNotAhead'
  BY <1>1 DEF Ledger, ClaimOnlyWhileWriting, EpochsNotAhead
<1>3. ASSUME NEW i \in Ids PROVE Entry(i)'
  <2>1. /\ InFlight(i)' = InFlight(i) /\ Owed(i)' = Owed(i)
        /\ Unpersisted(i)' = Unpersisted(i)
    BY <1>1 DEF InFlight, Owed, Returnable, stale, Unpersisted
  <2>2. Entry(i)
    BY LedgerEntries
  <2>3. CASE i \in ids
    <3>1. /\ db'[i] = 0 /\ forgotten'[i] = forgotten[i] + db[i]
          /\ allowance'[i] = Unpersisted(i) + InFlight(i)
      BY <2>3 DEF UiClear
    <3> QED BY <1>1, <2>1, <2>2, <3>1, LedgerTypes DEF Entry
  <2>4. CASE i \notin ids
    <3>1. db'[i] = db[i] /\ forgotten'[i] = forgotten[i] /\ allowance'[i] = allowance[i]
      BY <2>4 DEF UiClear
    <3> QED BY <1>1, <2>1, <2>2, <3>1, LedgerTypes DEF Entry
  <2> QED BY <2>3, <2>4
<1> QED BY <1>2, <1>3, LedgerAfter

\* After a clear every claim on the node is stale.
LEMMA ClearStatsLedger ==
  ASSUME TypeOK, TypeOK', Ledger, NEW m \in 1..MaxClears, ClearStats(m) PROVE Ledger'
<1>1. CASE ~built
  <2>1. UNCHANGED <<writer, totals, baseline, clearEpochs, db, credited, forgotten, allowance>>
    BY <1>1 DEF ClearStats, accVars, history
  <2> QED BY <2>1, LedgerFrame
<1>2. CASE built
  <2> DEFINE ids == broadcasts[m]
  <2>1. /\ UNCHANGED <<writer, db, credited, allowance>>
        /\ totals' = clear(totals, ids) /\ baseline' = clear(baseline, ids)
        /\ clearEpochs' = [i \in Ids |-> IF i \in ids THEN clearEpochs[i] + 1 ELSE clearEpochs[i]]
        /\ forgotten' = [i \in Ids |-> IF i \in ids THEN forgotten[i] + Unpersisted(i)
                                       ELSE forgotten[i]]
    BY <1>2 DEF ClearStats, clearedBaseline
  <2> HIDE DEF ids
  <2>2. ClaimOnlyWhileWriting'
    BY <2>1 DEF Ledger, ClaimOnlyWhileWriting
  <2>3. EpochsNotAhead'
    BY <2>1, WriterFields DEF Ledger, EpochsNotAhead, TypeOK, AccountType
  <2>4. ASSUME NEW i \in Ids PROVE Entry(i)'
    <3>1. Entry(i)
      BY LedgerEntries
    <3>2. InFlight(i)' = InFlight(i)
      BY <2>1 DEF InFlight
    <3>3. CASE i \in ids
      <4>1. \A w \in Writer : writer'[w].epochs[i] # clearEpochs'[i]
        BY <2>1, <3>3, WriterFields, LedgerTypes DEF Ledger, EpochsNotAhead
      <4>2. Owed(i)' = 0
        BY <4>1 DEF Owed, Returnable, stale, Writer
      <4>3. /\ totals'[i] = 0 /\ baseline'[i] = 0
            /\ forgotten'[i] = forgotten[i] + Unpersisted(i)
        BY <2>1, <3>3 DEF clear
      <4>4. Unpersisted(i)' = 0
        BY <4>3 DEF Unpersisted
      <4> QED BY <2>1, <3>1, <3>2, <4>2, <4>3, <4>4, LedgerTypes DEF Entry
    <3>4. CASE i \notin ids
      <4>1. /\ totals'[i] = totals[i] /\ baseline'[i] = baseline[i]
            /\ forgotten'[i] = forgotten[i] /\ clearEpochs'[i] = clearEpochs[i]
        BY <2>1, <3>4 DEF clear
      <4>2. Owed(i)' = Owed(i) /\ Unpersisted(i)' = Unpersisted(i)
        BY <2>1, <4>1 DEF Owed, Returnable, stale, Unpersisted
      <4> QED BY <2>1, <3>1, <3>2, <4>1, <4>2 DEF Entry
    <3> QED BY <3>3, <3>4
  <2> QED BY <2>2, <2>3, <2>4, LedgerAfter
<1> QED BY <1>1, <1>2

\* Every step keeps the ledger.
LEMMA LedgerStep ==
  ASSUME TypeOK, TypeOK', Ledger, [Next]_vars
  PROVE  Ledger'
<1> DEFINE Frame ==
      UNCHANGED <<writer, totals, baseline, clearEpochs, db, credited, forgotten, allowance>>
<1>1. ASSUME NEW t \in queryTags, Traffic(t) \/ SweepQuery(t) PROVE Frame
  BY <1>1 DEF Traffic, SweepQuery, accVars, dbVars, history
<1>2. ASSUME NEW c \in Callback, Foreground(c) PROVE Frame
  BY <1>2 DEF Foreground, accVars, dbVars, history
<1>3. ASSUME CloseBox \/ Build \/ SweepBegin \/ SweepEnd \/ Push \/ ChangeState \/ StopLoop
      PROVE  Frame
  BY <1>3 DEF CloseBox, Build, SweepBegin, SweepEnd, Push, ChangeState, StopLoop, accVars, dbVars,
              history
<1>4. ASSUME UNCHANGED vars PROVE Frame
  BY <1>4 DEF vars, accVars, dbVars, history
<1>5. ASSUME Frame PROVE Ledger'
  BY <1>5, LedgerFrame
<1> HIDE DEF Frame
<1> QED
  BY <1>1, <1>2, <1>3, <1>4, <1>5, SweepCreditLedger, SelectLedger, FlushLedger, ClaimLedger,
     ClaimNothingLedger, PersistLedger, PersistFailsLedger, UiClearLedger, ClearStatsLedger
     DEF Next, LoopStep, WriterStep

-----------------------------------------------------------------------------
(* The loop, the hand and the figures shown *)

\* The sweep holds the lock while it has bytes in hand; the final push follows the loop.
LEMMA LoopStepInv ==
  ASSUME TypeOK, FinalAfterLoop, HandUnderLock, [Next]_vars
  PROVE  FinalAfterLoop' /\ HandUnderLock'
<1>1. HandUnderLock'
  <2>1. ASSUME NEW t \in queryTags, Traffic(t) \/ SweepQuery(t) PROVE HandUnderLock'
    BY <2>1 DEF Traffic, SweepQuery, HandUnderLock, sweepVars
  <2>2. ASSUME NEW c \in Callback, Foreground(c) PROVE HandUnderLock'
    BY <2>2 DEF Foreground, HandUnderLock, sweepVars
  <2>3. ASSUME NEW id \in DOMAIN Member, Select(id) PROVE HandUnderLock'
    BY <2>3 DEF Select, HandUnderLock, sweepVars
  <2>4. ASSUME NEW w \in Writer, NEW bound \in SUBSET Ids, Flush(w, bound) PROVE HandUnderLock'
    BY <2>4 DEF Flush, HandUnderLock, sweepVars
  <2>5. ASSUME NEW w \in Writer, Claim(w) \/ ClaimNothing(w) \/ Persist(w) \/ PersistFails(w)
        PROVE  HandUnderLock'
    BY <2>5 DEF Claim, ClaimNothing, Persist, PersistFails, HandUnderLock, sweepVars
  <2>6. ASSUME NEW ids \in SUBSET Ids, UiClear(ids) PROVE HandUnderLock'
    BY <2>6 DEF UiClear, HandUnderLock, sweepVars
  <2>7. ASSUME NEW m \in 1..MaxClears, ClearStats(m) PROVE HandUnderLock'
    BY <2>7 DEF ClearStats, HandUnderLock, sweepVars
  <2>8. ASSUME CloseBox \/ Build \/ ChangeState \/ StopLoop \/ UNCHANGED vars PROVE HandUnderLock'
    BY <2>8 DEF CloseBox, Build, ChangeState, StopLoop, HandUnderLock, sweepVars, vars
  <2>9. ASSUME SweepBegin \/ SweepEnd \/ Push PROVE HandUnderLock'
    BY <2>9 DEF SweepBegin, SweepEnd, Push, HandUnderLock, TypeOK, SweepType
  <2>10. ASSUME SweepCredit PROVE HandUnderLock'
    BY <2>10 DEF SweepCredit, HandUnderLock
  <2> QED
    BY <2>1, <2>2, <2>3, <2>4, <2>5, <2>6, <2>7, <2>8, <2>9, <2>10 DEF Next, LoopStep, WriterStep
<1>2. FinalAfterLoop'
  <2> "final" \in Writer /\ "select" # "final"
    BY DEF Writer
  <2>1. ASSUME NEW t \in queryTags, Traffic(t) \/ SweepQuery(t) PROVE FinalAfterLoop'
    BY <2>1 DEF Traffic, SweepQuery, FinalAfterLoop, sweepVars
  <2>2. ASSUME NEW c \in Callback, Foreground(c) PROVE FinalAfterLoop'
    BY <2>2 DEF Foreground, FinalAfterLoop, sweepVars
  <2>3. ASSUME NEW id \in DOMAIN Member, Select(id) PROVE FinalAfterLoop'
    BY <2>3 DEF Select, FinalAfterLoop, sweepVars, TypeOK, WriterType
  <2>4. ASSUME NEW w \in Writer, NEW bound \in SUBSET Ids, Flush(w, bound) PROVE FinalAfterLoop'
    BY <2>4 DEF Flush, FinalAfterLoop, sweepVars, TypeOK, WriterType
  <2>5. ASSUME NEW w \in Writer, Claim(w) \/ ClaimNothing(w) \/ Persist(w) \/ PersistFails(w)
        PROVE  FinalAfterLoop'
    BY <2>5 DEF Claim, ClaimNothing, Persist, PersistFails, FinalAfterLoop, sweepVars, TypeOK,
                WriterType, IdleWriter
  <2>6. ASSUME NEW ids \in SUBSET Ids, UiClear(ids) PROVE FinalAfterLoop'
    BY <2>6 DEF UiClear, FinalAfterLoop, sweepVars
  <2>7. ASSUME NEW m \in 1..MaxClears, ClearStats(m) PROVE FinalAfterLoop'
    BY <2>7 DEF ClearStats, FinalAfterLoop, sweepVars
  <2>8. ASSUME CloseBox \/ Build \/ ChangeState \/ UNCHANGED vars PROVE FinalAfterLoop'
    BY <2>8 DEF CloseBox, Build, ChangeState, FinalAfterLoop, sweepVars, vars
  <2>9. ASSUME SweepBegin \/ SweepEnd \/ Push \/ SweepCredit PROVE FinalAfterLoop'
    BY <2>9 DEF SweepBegin, SweepEnd, Push, SweepCredit, FinalAfterLoop
  <2>10. ASSUME StopLoop PROVE FinalAfterLoop'
    BY <2>10 DEF StopLoop, FinalAfterLoop
  <2> QED
    BY <2>1, <2>2, <2>3, <2>4, <2>5, <2>6, <2>7, <2>8, <2>9, <2>10 DEF Next, LoopStep, WriterStep
<1> QED BY <1>1, <1>2

\* Steps that leave the figures alone, or only mark more nodes.
LEMMA ShownFrame ==
  ASSUME TypeOK, ShownIsCurrent, loop' = "running" => loop = "running",
         phase' = phase \/ (phase # "push" /\ phase' # "push"),
         UNCHANGED <<changed, postedTo, shown>>,
         dirty \subseteq dirty', \A i \in Ids \ dirty' : totals'[i] = totals[i]
  PROVE  ShownIsCurrent'
BY DEF ShownIsCurrent

\* Every step keeps the shown figures current.
LEMMA ShownStep ==
  ASSUME TypeOK, FinalAfterLoop, ShownIsCurrent, [Next]_vars
  PROVE  ShownIsCurrent'
<1>1. ASSUME NEW t \in queryTags, Traffic(t) \/ SweepQuery(t) PROVE ShownIsCurrent'
  BY <1>1, ShownFrame DEF Traffic, SweepQuery, accVars, sweepVars, postVars
<1>2. ASSUME NEW c \in Callback, Foreground(c) PROVE ShownIsCurrent'
  BY <1>2, ShownFrame DEF Foreground, accVars, sweepVars
<1>3. ASSUME NEW id \in DOMAIN Member, Select(id) PROVE ShownIsCurrent'
  <2>1. selectedSet \in SUBSET Ids /\ query(TAG_PROXY) \in Nat
    BY <1>3, QueryType DEF TypeOK, AccountType, queryTags, selectorMode
  <2>2. credit(selectedSet, query(TAG_PROXY))
    BY <1>3 DEF Select
  <2>3. \A i \in Ids \ dirty' : totals'[i] = totals[i]
    BY <2>1, <2>2, CreditMarks
  <2>4. dirty \subseteq dirty'
    BY <2>2 DEF credit
  <2> QED BY <1>3, <2>3, <2>4, ShownFrame DEF Select, sweepVars, postVars
<1>4. ASSUME NEW w \in Writer, NEW bound \in SUBSET Ids, Flush(w, bound) PROVE ShownIsCurrent'
  BY <1>4, ShownFrame DEF Flush, accVars, sweepVars, postVars
<1>5. ASSUME NEW w \in Writer, Claim(w) \/ PersistFails(w) PROVE ShownIsCurrent'
  BY <1>5, ShownFrame DEF Claim, PersistFails, sweepVars, postVars
<1>6. ASSUME NEW w \in Writer, ClaimNothing(w) \/ Persist(w) PROVE ShownIsCurrent'
  <2>1. CASE w = "final"
    <3>1. loop' = "joined"
      BY <1>6, <2>1 DEF ClaimNothing, Persist, FinalAfterLoop, sweepVars
    <3> QED BY <3>1 DEF ShownIsCurrent
  <2>2. CASE w # "final"
    <3>1. shown' = shown
      BY <1>6, <2>2 DEF ClaimNothing, Persist, postFinalTraffic
    <3> QED BY <1>6, <3>1, ShownFrame DEF ClaimNothing, Persist, accVars, sweepVars
  <2> QED BY <2>1, <2>2
<1>7. ASSUME NEW ids \in SUBSET Ids, UiClear(ids) PROVE ShownIsCurrent'
  BY <1>7, ShownFrame DEF UiClear, accVars, sweepVars, postVars
<1>8. ASSUME NEW m \in 1..MaxClears, ClearStats(m) PROVE ShownIsCurrent'
  <2>1. dirty \subseteq dirty' /\ \A i \in Ids \ dirty' : totals'[i] = totals[i]
    BY <1>8 DEF ClearStats, clear, accVars, TypeOK, AccountType
  <2> QED BY <1>8, <2>1, ShownFrame DEF ClearStats, sweepVars, postVars
<1>9. ASSUME CloseBox \/ Build \/ ChangeState \/ SweepBegin \/ UNCHANGED vars
      PROVE  ShownIsCurrent'
  BY <1>9, ShownFrame DEF CloseBox, Build, ChangeState, SweepBegin, accVars, sweepVars, postVars, vars
<1>10. ASSUME StopLoop PROVE ShownIsCurrent'
  BY <1>10 DEF StopLoop, ShownIsCurrent
<1>11. ASSUME SweepCredit PROVE ShownIsCurrent'
  <2>1. creditSet(hand.tag) \in SUBSET Ids /\ hand.bytes \in Nat
    BY CreditSets DEF TypeOK, SweepType
  <2>2. credit(creditSet(hand.tag), hand.bytes)
    BY <1>11 DEF SweepCredit
  <2>3. \A i \in Ids \ dirty' : totals'[i] = totals[i]
    BY <2>1, <2>2, CreditMarks
  <2>4. dirty \subseteq dirty'
    BY <2>2 DEF credit
  <2> QED BY <1>11, <2>3, <2>4, ShownFrame DEF SweepCredit, postVars
<1>12. ASSUME SweepEnd PROVE ShownIsCurrent'
  BY <1>12 DEF SweepEnd, ShownIsCurrent, postVars
<1>13. ASSUME Push PROVE ShownIsCurrent'
  <2> SUFFICES ASSUME loop' = "running", NEW c \in postedTo', NEW i \in Ids \ dirty'
               PROVE  shown'[c][i] = totals'[i]
    BY <1>13 DEF Push, ShownIsCurrent
  <2>1. /\ c \in Callback /\ shown'[c] = itemsFor(c)
        /\ totals' = totals /\ dirty' = dirty /\ loop = "running" /\ phase = "push"
    BY <1>13 DEF Push, endRound, accVars, TypeOK, PostType
  <2>2. CASE c \in postedTo
    BY <2>1, <2>2 DEF itemsFor, ShownIsCurrent
  <2>3. CASE c \notin postedTo
    BY <2>1, <2>3 DEF itemsFor
  <2> QED BY <2>2, <2>3
<1> QED
  BY <1>1, <1>2, <1>3, <1>4, <1>5, <1>6, <1>7, <1>8, <1>9, <1>10, <1>11, <1>12, <1>13
     DEF Next, LoopStep, WriterStep

-----------------------------------------------------------------------------
(* What was cleared *)

\* A step keeps count of the nodes that were cleared.
LEMMA ClearsStep ==
  ASSUME TypeOK, Ledger, ClearsKnown, [Next]_vars
  PROVE  ClearsKnown'
<1> DEFINE Frame == UNCHANGED <<broadcasts, clearEpochs, forgotten>>
<1>1. ASSUME Frame PROVE ClearsKnown'
  BY <1>1 DEF ClearsKnown
<1>2. ASSUME NEW t \in queryTags, Traffic(t) \/ SweepQuery(t) PROVE Frame
  BY <1>2 DEF Traffic, SweepQuery, accVars, dbVars, history
<1>3. ASSUME NEW c \in Callback, Foreground(c) PROVE Frame
  BY <1>3 DEF Foreground, accVars, dbVars, history
<1>4. ASSUME CloseBox \/ Build \/ SweepBegin \/ SweepEnd \/ Push \/ ChangeState \/ StopLoop
      PROVE  Frame
  BY <1>4 DEF CloseBox, Build, SweepBegin, SweepEnd, Push, ChangeState, StopLoop, accVars, dbVars,
              history
<1>5. ASSUME SweepCredit \/ \E id \in DOMAIN Member : Select(id) PROVE Frame
  BY <1>5 DEF SweepCredit, Select, credit, dbVars
<1>6. ASSUME NEW w \in Writer, NEW bound \in SUBSET Ids, Flush(w, bound) PROVE Frame
  BY <1>6 DEF Flush, accVars, dbVars, history
<1>7. ASSUME NEW w \in Writer, Claim(w) \/ ClaimNothing(w) \/ Persist(w) PROVE Frame
  BY <1>7 DEF Claim, ClaimNothing, Persist, accVars, dbVars, history
<1>8. ASSUME UNCHANGED vars PROVE Frame
  BY <1>8 DEF vars, accVars, dbVars, history
<1>9. ASSUME NEW w \in Writer, PersistFails(w) PROVE ClearsKnown'
  <2>1. UNCHANGED <<broadcasts, clearEpochs>>
    BY <1>9 DEF PersistFails, dbVars
  <2>2. \A i \in Ids : forgotten[i] \in Nat /\ forgotten'[i] >= forgotten[i]
    BY <1>9, WriterFields DEF PersistFails, TypeOK, HistoryType
  <2>3. \A i \in Ids : forgotten'[i] \in Nat
    BY <1>9, WriterFields DEF PersistFails, TypeOK, HistoryType
  <2>4. \A n \in 1..MaxClears : broadcasts[n] \subseteq Ids
    BY DEF TypeOK, DbType
  <2> QED BY <2>1, <2>2, <2>3, <2>4 DEF ClearsKnown
<1>10. ASSUME NEW ids \in SUBSET Ids, UiClear(ids) PROVE ClearsKnown'
  <2>1. clearEpochs' = clearEpochs /\ broadcasts' = [broadcasts EXCEPT ![clears + 1] = ids]
    BY <1>10 DEF UiClear, accVars
  <2>2. ASSUME NEW i \in Ids
        PROVE  /\ forgotten[i] > 0 => forgotten'[i] > 0
               /\ i \in ids => forgotten'[i] > 0
    <3>1. forgotten[i] \in Nat /\ db[i] \in Nat
      BY DEF TypeOK, HistoryType, DbType
    <3>2. i \in ids => db[i] # 0 /\ forgotten'[i] = forgotten[i] + db[i]
      BY <1>10 DEF UiClear
    <3>3. i \notin ids => forgotten'[i] = forgotten[i]
      BY <1>10 DEF UiClear
    <3> QED BY <3>1, <3>2, <3>3
  <2>3. \A n \in 1..MaxClears :
          broadcasts[n] \subseteq Ids /\ broadcasts'[n] \in {ids, broadcasts[n]}
    BY <2>1 DEF TypeOK, DbType
  <2> QED BY <2>1, <2>2, <2>3 DEF ClearsKnown
<1>11. ASSUME NEW m \in 1..MaxClears, ClearStats(m) PROVE ClearsKnown'
  <2>1. \A n \in 1..MaxClears :
          broadcasts[n] \subseteq Ids /\ broadcasts'[n] \subseteq broadcasts[n]
    BY <1>11 DEF ClearStats, TypeOK, DbType
  <2>2. ASSUME NEW i \in Ids
        PROVE  /\ forgotten[i] > 0 => forgotten'[i] > 0
               /\ clearEpochs'[i] > 0 => clearEpochs[i] > 0 \/ i \in broadcasts[m]
    <3>1. forgotten[i] \in Nat /\ Unpersisted(i) \in Nat
      BY LedgerTypes
    <3>2. CASE ~built
      BY <1>11, <3>2 DEF ClearStats, accVars, history
    <3>3. CASE built
      <4>1. i \in broadcasts[m] => forgotten'[i] = forgotten[i] + Unpersisted(i)
        BY <1>11, <3>3 DEF ClearStats
      <4>2. i \notin broadcasts[m] =>
              forgotten'[i] = forgotten[i] /\ clearEpochs'[i] = clearEpochs[i]
        BY <1>11, <3>3 DEF ClearStats
      <4> QED BY <3>1, <4>1, <4>2
    <3> QED BY <3>2, <3>3
  <2> QED BY <2>1, <2>2 DEF ClearsKnown
<1> HIDE DEF Frame
<1> QED
  BY <1>1, <1>2, <1>3, <1>4, <1>5, <1>6, <1>7, <1>8, <1>9, <1>10, <1>11
     DEF Next, LoopStep, WriterStep

-----------------------------------------------------------------------------
(* Theorems *)

\* The invariant holds initially.
LEMMA InitIInv == ASSUME Init PROVE IInv
<1> USE ZeroType, BindingsAssumption
<1>1. TypeOK
  <2>1. CoreType
    BY DEF Init, CoreType
  <2>2. AccountType /\ HistoryType
    BY DEF Init, AccountType, HistoryType
  <2>3. DbType
    BY DEF Init, DbType
  <2>4. SweepType /\ PostType
    BY DEF Init, SweepType, PostType, Nothing, NoChange
  <2>5. WriterType
    BY DEF Init, WriterType, IdleWriter, Claims
  <2> QED BY <2>1, <2>2, <2>3, <2>4, <2>5 DEF TypeOK
<1>2. \A w \in Writer : writer[w] = IdleWriter
  BY DEF Init
<1>3. ClaimOnlyWhileWriting /\ EpochsNotAhead
  BY <1>2 DEF Init, ClaimOnlyWhileWriting, EpochsNotAhead, IdleWriter
<1>4. ASSUME NEW i \in Ids PROVE Entry(i)
  <2>1. \A w \in Writer : writer[w].inc[i] = 0
    BY <1>2 DEF IdleWriter
  <2>2. InFlight(i) = 0 /\ Owed(i) = 0
    BY <2>1 DEF InFlight, Owed, Returnable, Writer
  <2>3. Unpersisted(i) = 0
    BY DEF Init, Unpersisted
  <2> QED BY <2>2, <2>3 DEF Init, Entry
<1>5. Ledger
  BY <1>1, <1>3, <1>4, LedgerEntries
<1>6. FinalAfterLoop /\ HandUnderLock /\ ShownIsCurrent
  BY <1>2 DEF Init, FinalAfterLoop, HandUnderLock, ShownIsCurrent, IdleWriter, Nothing, Writer
<1>7. ClearsKnown
  BY DEF Init, ClearsKnown
<1> QED BY <1>1, <1>5, <1>6, <1>7 DEF IInv

\* Every step preserves the invariant.
LEMMA NextIInv == ASSUME IInv, [Next]_vars PROVE IInv'
<1>1. TypeOK'
  BY TypeStep DEF IInv, Ledger
<1>2. Ledger'
  BY <1>1, LedgerStep DEF IInv
<1>3. FinalAfterLoop' /\ HandUnderLock'
  BY LoopStepInv DEF IInv
<1>4. ShownIsCurrent'
  BY ShownStep DEF IInv
<1>5. ClearsKnown'
  BY ClearsStep DEF IInv
<1> QED BY <1>1, <1>2, <1>3, <1>4, <1>5 DEF IInv

\* The inductive invariant holds in every run, for all bindings and bounds.
THEOREM Invariance == Spec => []IInv
<1>1. Init => IInv
  BY InitIInv
<1>2. IInv /\ [Next]_vars => IInv'
  BY NextIInv
<1> QED BY <1>1, <1>2, PTL DEF Spec

\* Every variable keeps its type; in particular no claim is negative and no
\* release takes the baseline below 0.
THEOREM TypeCorrect == Spec => []TypeOK
<1>1. IInv => TypeOK
  BY DEF IInv
<1> QED BY <1>1, Invariance, PTL

\* No byte is lost or counted twice between a credit and the database.
THEOREM NothingLost == Spec => []Conservation
<1>1. IInv => Conservation
  BY DEF IInv, Ledger
<1> QED BY <1>1, Invariance, PTL

\* What the user cleared does not come back.
THEOREM ClearingHolds == Spec => []ClearedStaysCleared
<1>1. IInv => ClearedStaysCleared
  BY DEF IInv, Ledger
<1> QED BY <1>1, Invariance, PTL

\* The persisted baseline never passes the totals.
THEOREM BaselineBounded == Spec => []BaselineWithinTotals
<1>1. IInv => BaselineWithinTotals
  BY DEF IInv, Ledger
<1> QED BY <1>1, Invariance, PTL

\* Callbacks that are sent only the changes show the current totals.
THEOREM DisplayCurrent == Spec => []ShownIsCurrent
<1>1. IInv => ShownIsCurrent
  BY DEF IInv
<1> QED BY <1>1, Invariance, PTL

\* Bytes taken from proxy are credited to the set selected when they were taken.
THEOREM SwitchIsAtomic == Spec => SwitchNeverStealsBytes
<1>1. ASSUME IInv, [Next]_vars, hand.bytes > 0 PROVE selectedSet' = selectedSet
  <2>1. phase = "sweep"
    BY <1>1 DEF IInv, HandUnderLock
  <2> QED
    BY <1>1, <2>1 DEF Next, LoopStep, WriterStep, Traffic, CloseBox, Build, SweepBegin, SweepQuery,
         SweepCredit, SweepEnd, Push, Foreground, ChangeState, StopLoop, Select, LockFree, Flush,
         Claim, ClaimNothing, Persist, PersistFails, UiClear, ClearStats, accVars, vars
<1>2. IInv /\ [Next]_vars => [hand.bytes > 0 => selectedSet' = selectedSet]_vars
  BY <1>1
<1> QED BY <1>2, Invariance, PTL DEF Spec, SwitchNeverStealsBytes

-----------------------------------------------------------------------------
(* The accounting implements TrafficLedger. *)

Due == [i \in Ids |-> Unpersisted(i) + InFlight(i)]

\* The book balances; with Conservation before and after a step, what a step does to the
\* bytes that are due follows from what it does to the rest.
Balanced(i) ==
  /\ db[i] \in Nat /\ Due[i] \in Nat /\ forgotten[i] \in Nat /\ credited[i] \in Nat
  /\ db[i] + Due[i] + forgotten[i] = Initial[i] + credited[i]

\* The invariant implies it.
LEMMA Balance ==
  ASSUME TypeOK, Ledger
  PROVE  /\ Due \in [Ids -> Nat] /\ db \in [Ids -> Nat]
         /\ credited \in [Ids -> Nat] /\ forgotten \in [Ids -> Nat]
         /\ \A i \in Ids : Balanced(i)
<1>1. ASSUME NEW i \in Ids PROVE Due[i] = Unpersisted(i) + InFlight(i) /\ Due[i] \in Nat
  BY LedgerTypes DEF Due
<1>2. Due \in [Ids -> Nat]
  BY <1>1 DEF Due
<1>3. db \in [Ids -> Nat] /\ credited \in [Ids -> Nat] /\ forgotten \in [Ids -> Nat]
  BY DEF TypeOK, DbType, HistoryType
<1>4. ASSUME NEW i \in Ids PROVE Balanced(i)
  <2>1. db[i] + InFlight(i) + Unpersisted(i) + forgotten[i] = Initial[i] + credited[i]
    BY DEF Ledger, Conservation
  <2> QED BY <1>1, <2>1, LedgerTypes DEF Balanced
<1> QED BY <1>2, <1>3, <1>4

\* And so it does after a step.
LEMMA BalanceAfter ==
  ASSUME TypeOK', Ledger'
  PROVE  /\ Due' \in [Ids -> Nat] /\ db' \in [Ids -> Nat]
         /\ credited' \in [Ids -> Nat] /\ forgotten' \in [Ids -> Nat]
         /\ \A i \in Ids : Balanced(i)'
<1>1. (TypeOK /\ Ledger => /\ Due \in [Ids -> Nat] /\ db \in [Ids -> Nat]
                          /\ credited \in [Ids -> Nat] /\ forgotten \in [Ids -> Nat]
                          /\ \A i \in Ids : Balanced(i))'
  BY Balance, PTL
<1> QED BY <1>1

\* The book at one node, before and after a step.
LEMMA BothBalances ==
  ASSUME TypeOK, Ledger, TypeOK', Ledger', NEW i \in Ids
  PROVE  /\ db[i] + Due[i] + forgotten[i] = Initial[i] + credited[i]
         /\ db'[i] + Due'[i] + forgotten'[i] = Initial[i] + credited'[i]
         /\ db[i] \in Nat /\ Due[i] \in Nat /\ forgotten[i] \in Nat /\ credited[i] \in Nat
         /\ db'[i] \in Nat /\ Due'[i] \in Nat /\ forgotten'[i] \in Nat /\ credited'[i] \in Nat
         /\ Initial[i] \in Nat
<1>1. Balanced(i) /\ Balanced(i)'
  BY Balance, BalanceAfter
<1> QED BY <1>1, BindingsAssumption DEF Balanced

\* No credit is taken back.
LEMMA CreditGrows ==
  ASSUME TypeOK, NEW ids \in SUBSET Ids, NEW n \in Nat, credit(ids, n)
  PROVE  \A i \in Ids : credited[i] <= credited'[i]
<1> SUFFICES ASSUME NEW i \in Ids PROVE credited[i] <= credited'[i]
  OBVIOUS
<1>1. Share(ids, n, i) \in Nat /\ credited'[i] = credited[i] + Share(ids, n, i)
  BY CreditAdds
<1>2. credited[i] \in Nat
  BY DEF TypeOK, HistoryType
<1> QED BY <1>1, <1>2

\* A step that credits bytes, and leaves the database and what was given up alone.
LEMMA Credits ==
  ASSUME TypeOK, Ledger, TypeOK', Ledger', UNCHANGED <<db, forgotten>>,
         \A i \in Ids : credited[i] <= credited'[i]
  PROVE  Book!Credit
<1>1. ASSUME NEW i \in Ids PROVE credited'[i] + Due[i] = credited[i] + Due'[i]
  <2>1. db'[i] = db[i] /\ forgotten'[i] = forgotten[i]
    OBVIOUS
  <2> QED BY <2>1, BothBalances
<1>2. Due' \in [Ids -> Nat] /\ credited' \in [Ids -> Nat]
  BY BalanceAfter
<1> QED BY <1>1, <1>2 DEF Book!Credit, Book!Amounts, Due

\* A step that adds to the database.
LEMMA Posts ==
  ASSUME TypeOK, Ledger, TypeOK', Ledger', UNCHANGED <<credited, forgotten>>,
         \A i \in Ids : db[i] <= db'[i]
  PROVE  Book!Post
<1>1. ASSUME NEW i \in Ids PROVE db'[i] + Due'[i] = db[i] + Due[i]
  <2>1. credited'[i] = credited[i] /\ forgotten'[i] = forgotten[i]
    OBVIOUS
  <2> QED BY <2>1, BothBalances
<1>2. Due' \in [Ids -> Nat] /\ db' \in [Ids -> Nat]
  BY BalanceAfter
<1> QED BY <1>1, <1>2 DEF Book!Post, Book!Amounts, Due

\* A step that gives up bytes of nodes that were cleared.
LEMMA Drops ==
  ASSUME TypeOK, Ledger, TypeOK', Ledger', UNCHANGED <<credited, db>>,
         \A i \in Ids : /\ forgotten[i] <= forgotten'[i]
                        /\ forgotten'[i] # forgotten[i] => forgotten[i] > 0
  PROVE  Book!Drop
<1>1. ASSUME NEW i \in Ids PROVE forgotten'[i] + Due'[i] = forgotten[i] + Due[i]
  <2>1. credited'[i] = credited[i] /\ db'[i] = db[i]
    OBVIOUS
  <2> QED BY <2>1, BothBalances
<1>2. Due' \in [Ids -> Nat] /\ forgotten' \in [Ids -> Nat]
  BY BalanceAfter
<1> QED BY <1>1, <1>2 DEF Book!Drop, Book!Amounts, Book!Cleared, Due

\* A step that changes none of the three does not change what is due.
LEMMA DueStays ==
  ASSUME TypeOK, Ledger, TypeOK', Ledger',
         \A i \in Ids : db'[i] + forgotten'[i] = db[i] + forgotten[i], credited' = credited
  PROVE  Due' = Due
<1>1. ASSUME NEW i \in Ids PROVE Due'[i] = Due[i]
  <2>1. credited'[i] = credited[i] /\ db'[i] + forgotten'[i] = db[i] + forgotten[i]
    OBVIOUS
  <2>2. PICK a, b, c \in Nat : a = db[i] /\ b = forgotten[i] /\ c = Due[i]
    BY BothBalances
  <2>3. PICK d, e, f \in Nat : d = db'[i] /\ e = forgotten'[i] /\ f = Due'[i]
    BY BothBalances
  <2>4. a + c + b = d + f + e /\ d + e = a + b
    BY <2>1, <2>2, <2>3, BothBalances
  <2>5. c = f
    BY <2>4
  <2> QED BY <2>2, <2>3, <2>5
<1>2. Due \in [Ids -> Nat] /\ Due' \in [Ids -> Nat]
  BY Balance, BalanceAfter
<1> QED BY <1>1, <1>2

\* The user clearing nodes in the database.
LEMMA Wipes ==
  ASSUME TypeOK, Ledger, TypeOK', Ledger', NEW ids \in SUBSET Ids, UiClear(ids)
  PROVE  Book!Wipe
<1>1. /\ db' = [i \in Ids |-> IF i \in ids THEN 0 ELSE db[i]]
      /\ forgotten' = [i \in Ids |-> IF i \in ids THEN forgotten[i] + db[i] ELSE forgotten[i]]
      /\ credited' = credited /\ \A i \in ids : db[i] # 0
  BY DEF UiClear
<1>2. \A i \in Ids : db[i] \in Nat /\ forgotten[i] \in Nat
  BY DEF TypeOK, DbType, HistoryType
<1>3. \A i \in Ids : db'[i] + forgotten'[i] = db[i] + forgotten[i]
  BY <1>1, <1>2
<1>4. Due' = Due
  BY <1>1, <1>3, DueStays
<1>5. ids \in SUBSET {i \in Ids : db[i] > 0}
  BY <1>1, <1>2
<1> QED BY <1>1, <1>4, <1>5 DEF Book!Wipe, Due

\* Every step of the accounting is one entry in the book, or none.
LEMMA BookStep ==
  ASSUME IInv, IInv', [Next]_vars
  PROVE  [Book!Next]_<<credited, Due, db, forgotten>>
<1> DEFINE Sim == [Book!Next]_<<credited, Due, db, forgotten>>
<1>0. TypeOK /\ Ledger /\ TypeOK' /\ Ledger' /\ ClearsKnown
  BY DEF IInv
<1>a. Book!Credit \/ Book!Post \/ Book!Wipe \/ Book!Drop => Sim
  BY DEF Book!Next
<1>b. ASSUME UNCHANGED <<credited, db, forgotten>> PROVE Sim
  <2>1. Due' = Due
    BY <1>0, <1>b, DueStays
  <2> QED BY <1>b, <2>1
<1> SUFFICES Sim
  OBVIOUS
<1> HIDE DEF Sim
<1>1. ASSUME NEW t \in queryTags, Traffic(t) \/ SweepQuery(t) PROVE Sim
  BY <1>1, <1>b DEF Traffic, SweepQuery, dbVars, history
<1>2. ASSUME NEW c \in Callback, Foreground(c) PROVE Sim
  BY <1>2, <1>b DEF Foreground, dbVars, history
<1>3. CASE CloseBox \/ Build \/ SweepBegin \/ SweepEnd \/ Push \/ ChangeState \/ StopLoop
  BY <1>3, <1>b DEF CloseBox, Build, SweepBegin, SweepEnd, Push, ChangeState, StopLoop, dbVars,
     history
<1>4. CASE SweepCredit
  <2>1. UNCHANGED <<db, forgotten>> /\ credit(creditSet(hand.tag), hand.bytes)
    BY <1>4 DEF SweepCredit, credit, dbVars
  <2>2. creditSet(hand.tag) \in SUBSET Ids /\ hand.bytes \in Nat
    BY <1>0, CreditSets DEF TypeOK, SweepType
  <2>3. \A i \in Ids : credited[i] <= credited'[i]
    BY <1>0, <2>1, <2>2, CreditGrows
  <2> QED BY <1>0, <1>a, <2>1, <2>3, Credits
<1>5. ASSUME NEW id \in DOMAIN Member, Select(id) PROVE Sim
  <2>1. UNCHANGED <<db, forgotten>> /\ credit(selectedSet, query(TAG_PROXY))
    BY <1>5 DEF Select, credit, dbVars
  <2>2. selectedSet \in SUBSET Ids /\ query(TAG_PROXY) \in Nat
    BY <1>0, QueryType DEF TypeOK, AccountType, queryTags, selectorMode
  <2>3. \A i \in Ids : credited[i] <= credited'[i]
    BY <1>0, <2>1, <2>2, CreditGrows
  <2> QED BY <1>0, <1>a, <2>1, <2>3, Credits
<1>6. ASSUME NEW w \in Writer, NEW bound \in SUBSET Ids, Flush(w, bound) PROVE Sim
  BY <1>6, <1>b DEF Flush, dbVars, history
<1>7. ASSUME NEW w \in Writer, Claim(w) \/ ClaimNothing(w) PROVE Sim
  BY <1>7, <1>b DEF Claim, ClaimNothing, dbVars, history
<1>8. ASSUME NEW w \in Writer, Persist(w) PROVE Sim
  <2>1. UNCHANGED <<credited, forgotten>> /\ db' = addTraffic(writer[w].inc)
    BY <1>8 DEF Persist, history
  <2>2. ASSUME NEW i \in Ids PROVE db[i] <= db'[i]
    <3>1. db[i] \in Nat /\ writer[w].inc[i] \in Nat
      BY <1>0, WriterFields, LedgerTypes
    <3> QED BY <2>1, <3>1 DEF addTraffic
  <2> QED BY <1>0, <1>a, <2>1, <2>2, Posts
<1>9. ASSUME NEW w \in Writer, PersistFails(w) PROVE Sim
  <2>1. UNCHANGED <<credited, db>>
    BY <1>9 DEF PersistFails, dbVars
  <2>2. ASSUME NEW i \in Ids
        PROVE  forgotten[i] <= forgotten'[i] /\ (forgotten'[i] # forgotten[i] => forgotten[i] > 0)
    <3>1. forgotten[i] \in Nat /\ writer[w].inc[i] \in Nat
      BY <1>0, WriterFields, LedgerTypes
    <3>2. CASE stale(w, i)
      <4>1. forgotten'[i] = forgotten[i] + writer[w].inc[i]
        BY <1>9, <3>2 DEF PersistFails, stale
      <4>2. clearEpochs[i] \in Nat /\ writer[w].epochs[i] \in Nat
        BY <1>0, WriterFields, LedgerTypes
      <4>3. clearEpochs[i] > 0
        BY <1>0, <3>2, <4>2 DEF Ledger, EpochsNotAhead, stale
      <4> QED BY <1>0, <3>1, <4>1, <4>3 DEF ClearsKnown
    <3>3. CASE ~stale(w, i)
      BY <1>9, <3>1, <3>3 DEF PersistFails, stale
    <3> QED BY <3>2, <3>3
  <2> QED BY <1>0, <1>a, <2>1, <2>2, Drops
<1>10. ASSUME NEW ids \in SUBSET Ids, UiClear(ids) PROVE Sim
  BY <1>0, <1>a, <1>10, Wipes
<1>11. ASSUME NEW m \in 1..MaxClears, ClearStats(m) PROVE Sim
  <2>1. CASE ~built
    BY <1>11, <1>b, <2>1 DEF ClearStats, history
  <2>2. CASE built
    <3>1. UNCHANGED <<credited, db>>
      BY <1>11, <2>2 DEF ClearStats
    <3>2. ASSUME NEW i \in Ids
          PROVE  forgotten[i] <= forgotten'[i] /\ (forgotten'[i] # forgotten[i] => forgotten[i] > 0)
      <4>1. forgotten[i] \in Nat /\ Unpersisted(i) \in Nat
        BY <1>0, LedgerTypes
      <4>2. i \in broadcasts[m] => forgotten'[i] = forgotten[i] + Unpersisted(i)
        BY <1>11, <2>2 DEF ClearStats
      <4>3. i \notin broadcasts[m] => forgotten'[i] = forgotten[i]
        BY <1>11, <2>2 DEF ClearStats
      <4> QED BY <1>0, <4>1, <4>2, <4>3 DEF ClearsKnown
    <3> QED BY <1>0, <1>a, <3>1, <3>2, Drops
  <2> QED BY <2>1, <2>2
<1>12. CASE UNCHANGED vars
  BY <1>12, <1>b DEF vars, dbVars, history
<1> QED
  BY <1>1, <1>2, <1>3, <1>4, <1>5, <1>6, <1>7, <1>8, <1>9, <1>10, <1>11, <1>12
     DEF Next, LoopStep, WriterStep

\* Claims that are handed back, writers that overlap, a service that learns of a clear late:
\* together they are one atomic book that adds each credited byte to the database once, and
\* gives up bytes only of nodes the user has cleared.
THEOREM LedgerIsAtomic == Spec => ImplementsTrafficLedger
<1>1. Init => Book!Init
  <2> SUFFICES ASSUME Init PROVE Book!Init
    OBVIOUS
  <2>1. ASSUME NEW i \in Ids PROVE Unpersisted(i) + InFlight(i) = 0
    <3>1. \A w \in Writer : writer[w].inc[i] = 0
      BY ZeroType DEF Init, IdleWriter
    <3>2. InFlight(i) = 0
      BY <3>1 DEF InFlight, Writer
    <3>3. Unpersisted(i) = 0
      BY BindingsAssumption DEF Init, Unpersisted
    <3> QED BY <3>2, <3>3
  <2> QED BY <2>1 DEF Init, Book!Init, Zero
<1>2. IInv /\ IInv' /\ [Next]_vars => [Book!Next]_<<credited, Due, db, forgotten>>
  BY BookStep
<1> QED BY <1>1, <1>2, Invariance, PTL DEF Spec, ImplementsTrafficLedger, Book!Spec, Book!book, Due

=============================================================================
