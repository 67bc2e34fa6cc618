-------------------------- MODULE GroupCommitProofs --------------------------
(***************************************************************************)
(* Proofs about the group-commit engine, for any number of brokers, loops, *)
(* submissions, retries and clock values, and any choice of faults.  The   *)
(* contents of the queue are opaque: what is proved is that the engines    *)
(* treat them as one atomically updated value.                             *)
(***************************************************************************)
EXTENDS GroupCommitProperties, TLAPS

(***************************************************************************)
(* Type correctness.                                                       *)
(***************************************************************************)
(* The three ways a loop record is built give well-formed records.         *)
LEMMA NewLoopOK ==
  ASSUME NEW pc \in LoopPcs, NEW batch \in Seq(Submissions), NEW n \in 0..MaxRetries,
         pc = "backoff" => n < MaxRetries
  PROVE  LoopOK(NewLoop(pc, batch, n))
  BY DEF LoopOK, NewLoop

LEMMA IdleLoopOK == LoopOK(IdleLoop)
<1>1. "idle" \in LoopPcs /\ 0 \in 0..MaxRetries /\ <<>> \in Seq(Submissions)
  BY RetriesAssumption DEF LoopPcs
<1> QED
  BY <1>1, NewLoopOK DEF IdleLoop

LEMMA AttemptOK ==
  ASSUME NEW batch \in Seq(Submissions), NEW n \in 0..MaxRetries,
         NEW state, NEW version \in Nat
  PROVE  LoopOK(Attempt(batch, n, state, version))
  BY DEF LoopOK, LoopPcs, Attempt

LEMMA AtOK ==
  ASSUME NEW pc \in LoopPcs, pc # "backoff", NEW lp, LoopOK(lp), NEW data, NEW answer \in Nat
  PROVE  LoopOK(At(pc, lp, data, answer))
  BY DEF LoopOK, At

LEMMA NextAttemptOK ==
  ASSUME TypeOK, NEW b \in Brokers, NEW batch \in Seq(Submissions),
         NEW n \in 0..MaxRetries
  PROVE  LoopOK(NextAttempt(b, batch, n))
<1>1. cachedVersion[b] \in Nat
  BY DEF TypeOK
<1> QED
  BY <1>1, NewLoopOK, AttemptOK DEF NextAttempt, LoopPcs

LEMMA LandType ==
  ASSUME TypeOK, NEW lp, Land(lp)
  PROVE  store'.version \in Nat /\ commits' \in [Submissions -> Nat]
<1>1. store'.version \in Nat
  BY DEF Land, TypeOK
<1>2. \A s \in Submissions : commits[s] \in Nat
  BY DEF TypeOK
<1>3. \A s \in Submissions : commits[s] + (IF s \in ToSet(lp.batch) THEN 1 ELSE 0) \in Nat
  BY <1>2
<1>4. commits' \in [Submissions -> Nat]
  BY <1>3 DEF Land
<1> QED
  BY <1>1, <1>4

LEMMA TypeInit == Init => TypeOK
  BY IdleLoopOK DEF Init, TypeOK, Phases, Outcomes

LEMMA TypeNext == TypeOK /\ [Next]_vars => TypeOK'
<1> SUFFICES ASSUME TypeOK, [Next]_vars PROVE TypeOK'
  OBVIOUS
<1> USE DEF TypeOK, Phases, Outcomes
<1>1. CASE Tick
  BY <1>1 DEF Tick, storeVars, engineVars, promiseVars
<1>2. ASSUME NEW b \in Brokers, CreateState(b) PROVE TypeOK'
  <2>1. store'.version \in Nat
    BY <1>2 DEF CreateState, Created
  <2>2. phase' \in [Brokers -> Phases] /\ armed' \in [Brokers -> BOOLEAN]
    BY <1>2 DEF CreateState
  <2>4. DOMAIN cachedState' = Brokers
    BY <1>2 DEF CreateState
  <2>3. cachedVersion' \in [Brokers -> Nat]
    <3>1. CASE cachedVersion' = [cachedVersion EXCEPT ![b] = 1]
      BY <3>1
    <3>2. CASE cachedVersion' = cachedVersion
      BY <3>2
    <3> QED BY <1>2, <3>1, <3>2 DEF CreateState
  <2> QED
    BY <1>2, <2>1, <2>2, <2>3, <2>4 DEF CreateState, promiseVars
<1>3. ASSUME NEW b \in Brokers, ReadState(b) PROVE TypeOK'
  BY <1>3 DEF ReadState, storeVars, promiseVars
<1>4. ASSUME NEW b \in Brokers, StartFails(b) PROVE TypeOK'
  <2>1. store'.version \in Nat
    BY <1>4 DEF StartFails, Created
  <2> QED
    BY <1>4, <2>1 DEF StartFails, promiseVars
<1>5. ASSUME NEW b \in Brokers, stop(b) PROVE TypeOK'
  BY <1>5 DEF stop, Reject, Settle, storeVars
<1>6. ASSUME NEW b \in Brokers, Crash(b) PROVE TypeOK'
  <2>1. \A bl \in Brokers \X Slots : LoopOK(loop'[bl])
    BY <1>6, IdleLoopOK, AtOK DEF Crash, LoopPcs
  <2> QED
    BY <1>6, <2>1 DEF Crash, Reject, Settle, storeVars
<1>7. ASSUME NEW b \in Brokers, NEW s \in Submissions, NEW m \in Requests(b),
             submit(b, s, m)
      PROVE TypeOK'
  BY <1>7 DEF submit, kicks, running, storeVars
<1>8. ASSUME NEW b \in Brokers, NEW l \in Slots, writeLoop(b, l) PROVE TypeOK'
  <2>1. LoopOK(NextAttempt(b, buffer[b], 0))
    <3>1. TypeOK /\ buffer[b] \in Seq(Submissions) /\ 0 \in 0..MaxRetries
      BY RetriesAssumption
    <3> QED BY <3>1, NextAttemptOK DEF NextAttempt
  <2> QED
    BY <1>8, <2>1 DEF writeLoop, storeVars, promiseVars
<1>9. ASSUME NEW b \in Brokers, NEW l \in Slots, StoreRead(b, l) PROVE TypeOK'
  <2>1. LoopOK(At("read", loop[<<b, l>>], store.state, store.version))
    BY AtOK DEF LoopPcs
  <2> QED
    BY <1>9, <2>1 DEF StoreRead, storeVars, promiseVars
<1>10. ASSUME NEW b \in Brokers, NEW l \in Slots, refreshCache(b, l) PROVE TypeOK'
  <2> DEFINE lp == loop[<<b, l>>]
  <2>1. /\ lp.batch \in Seq(Submissions) /\ lp.attempt \in 0..MaxRetries
        /\ lp.answer \in Nat
    BY DEF LoopOK
  <2>2. LoopOK(Attempt(lp.batch, lp.attempt, lp.data, lp.answer))
    BY <2>1, AttemptOK
  <2> QED
    BY <1>10, <2>1, <2>2 DEF refreshCache, storeVars, promiseVars
<1>11. ASSUME NEW b \in Brokers, NEW l \in Slots, ReadFails(b, l) PROVE TypeOK'
  BY <1>11, IdleLoopOK DEF ReadFails, EndLoop, Reject, Settle, running, storeVars
<1>12. ASSUME NEW b \in Brokers, NEW l \in Slots, StoreWrite(b, l) PROVE TypeOK'
  <2> DEFINE lp == loop[<<b, l>>]
  <2>1. /\ LoopOK(At("wrote", lp, lp.data, store.version + 1))
        /\ LoopOK(At("wrote", lp, lp.data, 0))
    BY AtOK DEF LoopPcs
  <2>2. DOMAIN loop' = Brokers \X Slots /\ \A bl \in Brokers \X Slots : LoopOK(loop'[bl])
    <3>1. CASE versionMatches(lp)
      BY <1>12, <2>1, <3>1 DEF StoreWrite
    <3>2. CASE ~versionMatches(lp)
      BY <1>12, <2>1, <3>2 DEF StoreWrite
    <3> QED BY <3>1, <3>2
  <2>3. store'.version \in Nat /\ commits' \in [Submissions -> Nat]
    BY <1>12, LandType DEF StoreWrite, storeVars
  <2> QED
    BY <1>12, <2>2, <2>3 DEF StoreWrite, promiseVars
<1>13. ASSUME NEW b \in Brokers, NEW l \in Slots, Committed(b, l) PROVE TypeOK'
  <2>1. loop[<<b, l>>].answer \in Nat
    BY DEF LoopOK
  <2> QED
    BY <1>13, <2>1, IdleLoopOK DEF Committed, EndLoop, Settle, running, storeVars
<1>14. ASSUME NEW b \in Brokers, NEW l \in Slots, ConflictBacksOff(b, l) PROVE TypeOK'
  <2>1. LoopOK(NewLoop("backoff", loop[<<b, l>>].batch, loop[<<b, l>>].attempt))
    <3>1. /\ loop[<<b, l>>].batch \in Seq(Submissions)
          /\ loop[<<b, l>>].attempt \in 0..MaxRetries
          /\ loop[<<b, l>>].attempt < MaxRetries
      BY <1>14 DEF ConflictBacksOff, mayRetry, LoopOK
    <3> QED BY <3>1, NewLoopOK DEF LoopPcs
  <2> QED
    BY <1>14, <2>1 DEF ConflictBacksOff, storeVars, promiseVars
<1>15. ASSUME NEW b \in Brokers, NEW l \in Slots, ConflictGivesUp(b, l) PROVE TypeOK'
  BY <1>15, IdleLoopOK DEF ConflictGivesUp, EndLoop, Reject, Settle, running, storeVars
<1>16. ASSUME NEW b \in Brokers, NEW l \in Slots, BackoffEnds(b, l) PROVE TypeOK'
  <2> DEFINE lp == loop[<<b, l>>]
  <2>1. /\ TypeOK /\ lp.batch \in Seq(Submissions)
        /\ lp.attempt + 1 \in 0..MaxRetries
    BY <1>16, RetriesAssumption DEF BackoffEnds, LoopOK
  <2>2. LoopOK(NextAttempt(b, lp.batch, lp.attempt + 1))
    BY <2>1, NextAttemptOK
  <2> QED
    BY <1>16, <2>2 DEF BackoffEnds, storeVars, promiseVars
<1>17. ASSUME NEW b \in Brokers, NEW l \in Slots, WriteFails(b, l) PROVE TypeOK'
  <2>1. LoopOK(At("orphan", loop[<<b, l>>], loop[<<b, l>>].data, 0))
    BY AtOK DEF LoopPcs
  <2> QED
    BY <1>17, <2>1, IdleLoopOK DEF WriteFails, Reject, Settle, running, storeVars
<1>18. ASSUME NEW b \in Brokers, NEW l \in Slots, OrphanWrite(b, l) PROVE TypeOK'
  <2>1. store'.version \in Nat /\ commits' \in [Submissions -> Nat]
    BY <1>18, LandType DEF OrphanWrite, storeVars
  <2> QED
    BY <1>18, <2>1, IdleLoopOK DEF OrphanWrite, promiseVars
<1>19. CASE UNCHANGED vars
  BY <1>19 DEF vars, storeVars, engineVars, promiseVars
<1> QED
  BY <1>1, <1>2, <1>3, <1>4, <1>5, <1>6, <1>7, <1>8, <1>9, <1>10, <1>11, <1>12,
     <1>13, <1>14, <1>15, <1>16, <1>17, <1>18, <1>19 DEF Next

(* The control variables keep their types in every reachable state.        *)
THEOREM TypeCorrect == Spec => []TypeOK
  BY TypeInit, TypeNext, PTL DEF Spec

(***************************************************************************)
(* Coherence of the cache.  VersionsSound is the inductive form: landing a *)
(* write gives the store a version larger than every version held anywhere, *)
(* and the one loop that learns the new version holds the state it wrote.  *)
(***************************************************************************)
LEMMA NotAnswered ==
  /\ ~Answered(IdleLoop)
  /\ \A batch, n : ~Answered(NewLoop("reading", batch, n))
                     /\ ~Answered(NewLoop("backoff", batch, n))
  /\ \A batch, n, state, version : ~Answered(Attempt(batch, n, state, version))
  /\ \A b, batch, n : ~Answered(NextAttempt(b, batch, n))
  /\ \A lp, data : ~Answered(At("orphan", lp, data, 0)) /\ ~Answered(At("wrote", lp, data, 0))
  BY DEF Answered, IdleLoop, NewLoop, Attempt, NextAttempt, At

(* A step that leaves the store and the caches alone, and only takes loops *)
(* to where no answer is under way, or leaves them as they are.            *)
LEMMA VersionsKept ==
  ASSUME VersionsSound, UNCHANGED <<store, cachedState>>,
         \A b \in Brokers : cachedVersion'[b] \in {cachedVersion[b], 0},
         TypeOK,
         \A bl \in Brokers \X Slots : loop'[bl] = loop[bl] \/ ~Answered(loop'[bl])
  PROVE  VersionsSound'
<1>1. store.version \in Nat
  BY DEF TypeOK
<1>2. \A bl \in Brokers \X Slots : Answered(loop'[bl]) =>
         /\ loop'[bl].answer <= store.version
         /\ loop'[bl].answer = store.version => loop'[bl].data = store.state
  BY DEF VersionsSound
<1>3. \A b \in Brokers :
         /\ cachedVersion'[b] <= store.version
         /\ cachedVersion'[b] = store.version /\ store.version # 0
                => cachedState'[b] = store.state
  BY <1>1 DEF VersionsSound
<1>4. \A bl \in Brokers \X Slots : Answered(loop[bl])' = Answered(loop'[bl])
  BY DEF Answered
<1> QED
  BY <1>2, <1>3, <1>4 DEF VersionsSound

(* Replacing one cache by an answer that is sound.                          *)
LEMMA CacheReplaced ==
  ASSUME TypeOK, VersionsSound, NEW b \in Brokers, NEW data, NEW v \in Nat,
         v <= store.version, v = store.version => data = store.state,
         UNCHANGED store,
         cachedState' = [cachedState EXCEPT ![b] = data],
         cachedVersion' = [cachedVersion EXCEPT ![b] = v],
         \A bl \in Brokers \X Slots : loop'[bl] = loop[bl] \/ ~Answered(loop'[bl])
  PROVE  VersionsSound'
<1>1. \A bl \in Brokers \X Slots : Answered(loop'[bl]) =>
         /\ loop'[bl].answer <= store.version
         /\ loop'[bl].answer = store.version => loop'[bl].data = store.state
  BY DEF VersionsSound
<1>2. \A c \in Brokers :
         /\ cachedVersion'[c] <= store.version
         /\ cachedVersion'[c] = store.version /\ store.version # 0
                => cachedState'[c] = store.state
  BY DEF VersionsSound, TypeOK
<1>3. \A bl \in Brokers \X Slots : Answered(loop[bl])' = Answered(loop'[bl])
  BY DEF Answered
<1> QED
  BY <1>1, <1>2, <1>3 DEF VersionsSound

LEMMA VersionsInit == Init => VersionsSound
  BY NotAnswered DEF Init, VersionsSound

LEMMA VersionsNext == TypeOK /\ VersionsSound /\ [Next]_vars => VersionsSound'
<1> SUFFICES ASSUME TypeOK, VersionsSound, [Next]_vars PROVE VersionsSound'
  OBVIOUS
<1>0. /\ store.version \in Nat
      /\ DOMAIN loop = Brokers \X Slots
      /\ cachedVersion \in [Brokers -> Nat]
      /\ \A bl \in Brokers \X Slots : loop[bl].answer \in Nat
  BY DEF TypeOK, LoopOK
<1>1. CASE Tick
  BY <1>1, VersionsKept DEF Tick, storeVars, engineVars, promiseVars
<1>2. ASSUME NEW b \in Brokers, CreateState(b) PROVE VersionsSound'
  <2>1. CASE store.version = 0
    <3>1. store'.version = 1 /\ store'.state = emptyState /\ loop' = loop
      BY <1>2, <2>1 DEF CreateState, Created
    <3>2. \A c \in Brokers : IF c = b THEN cachedVersion'[c] = 1 /\ cachedState'[c] = emptyState
                                       ELSE cachedVersion'[c] <= 0
      BY <1>0, <1>2, <2>1 DEF CreateState, VersionsSound, TypeOK
    <3>3. \A bl \in Brokers \X Slots : Answered(loop'[bl]) => loop'[bl].answer <= 0
      BY <2>1, <3>1 DEF VersionsSound
    <3>4. \A bl \in Brokers \X Slots : Answered(loop[bl])' = Answered(loop'[bl])
      BY DEF Answered
    <3>5. \A c \in Brokers : cachedVersion'[c] \in Nat
      BY <1>0, <1>2, <2>1 DEF CreateState
    <3>6. \A bl \in Brokers \X Slots : loop'[bl].answer \in Nat
      BY <1>0, <3>1
    <3> QED
      BY <3>1, <3>2, <3>3, <3>4, <3>5, <3>6 DEF VersionsSound
  <2>2. CASE store.version # 0
    BY <1>2, <2>2, VersionsKept DEF CreateState
  <2> QED BY <2>1, <2>2
<1>3. ASSUME NEW b \in Brokers, ReadState(b) PROVE VersionsSound'
  <2>1. store.version \in Nat /\ store.version <= store.version
    BY <1>0
  <2>2. /\ UNCHANGED <<store, loop>>
        /\ cachedState' = [cachedState EXCEPT ![b] = store.state]
        /\ cachedVersion' = [cachedVersion EXCEPT ![b] = store.version]
    BY <1>3 DEF ReadState, storeVars
  <2> QED
    BY <2>1, <2>2, CacheReplaced
<1>4. ASSUME NEW b \in Brokers, StartFails(b) PROVE VersionsSound'
  BY <1>0, <1>4 DEF StartFails, Created, VersionsSound, Answered
<1>5. ASSUME NEW b \in Brokers, stop(b) PROVE VersionsSound'
  BY <1>5, VersionsKept DEF stop, storeVars
<1>6. ASSUME NEW b \in Brokers, Crash(b) PROVE VersionsSound'
  BY <1>6, <1>0, VersionsKept, NotAnswered DEF Crash, storeVars
<1>7. ASSUME NEW b \in Brokers, NEW s \in Submissions, NEW m \in Requests(b),
             submit(b, s, m)
      PROVE VersionsSound'
  BY <1>7, VersionsKept DEF submit, storeVars
<1>8. ASSUME NEW b \in Brokers, NEW l \in Slots, writeLoop(b, l) PROVE VersionsSound'
  BY <1>8, <1>0, VersionsKept, NotAnswered DEF writeLoop, storeVars
<1>9. ASSUME NEW b \in Brokers, NEW l \in Slots, StoreRead(b, l) PROVE VersionsSound'
  BY <1>9, <1>0 DEF StoreRead, At, VersionsSound, Answered, storeVars
<1>10. ASSUME NEW b \in Brokers, NEW l \in Slots, refreshCache(b, l) PROVE VersionsSound'
  <2> DEFINE lp == loop[<<b, l>>]
             next == Attempt(lp.batch, lp.attempt, lp.data, lp.answer)
  <2>1. /\ lp.answer \in Nat /\ lp.answer <= store.version
        /\ lp.answer = store.version => lp.data = store.state
    BY <1>10, <1>0 DEF refreshCache, VersionsSound, Answered
  <2>2. ~Answered(next)
    BY NotAnswered
  <2>3. \A bl \in Brokers \X Slots : loop'[bl] = loop[bl] \/ ~Answered(loop'[bl])
    BY <1>10, <1>0, <2>2 DEF refreshCache
  <2> QED
    BY <1>10, <2>1, <2>3, CacheReplaced DEF refreshCache, storeVars
<1>11. ASSUME NEW b \in Brokers, NEW l \in Slots, ReadFails(b, l) PROVE VersionsSound'
  BY <1>11, <1>0, VersionsKept, NotAnswered DEF ReadFails, EndLoop, storeVars
<1>12. ASSUME NEW b \in Brokers, NEW l \in Slots, StoreWrite(b, l) PROVE VersionsSound'
  <2> DEFINE lp == loop[<<b, l>>]
  <2>1. CASE versionMatches(lp)
    BY <1>12, <1>0, <2>1 DEF StoreWrite, Land, At, VersionsSound, Answered
  <2>2. CASE ~versionMatches(lp)
    BY <1>12, <1>0, <2>2, VersionsKept, NotAnswered DEF StoreWrite, storeVars
  <2> QED BY <2>1, <2>2
<1>13. ASSUME NEW b \in Brokers, NEW l \in Slots, Committed(b, l) PROVE VersionsSound'
  <2> DEFINE lp == loop[<<b, l>>]
  <2>1. /\ lp.answer \in Nat /\ lp.answer <= store.version
        /\ lp.answer = store.version => lp.data = store.state
    BY <1>13, <1>0 DEF Committed, VersionsSound, Answered
  <2>2. \A bl \in Brokers \X Slots : loop'[bl] = loop[bl] \/ ~Answered(loop'[bl])
    BY <1>13, <1>0, NotAnswered DEF Committed, EndLoop
  <2> QED
    BY <1>13, <2>1, <2>2, CacheReplaced DEF Committed, storeVars
<1>14. ASSUME NEW b \in Brokers, NEW l \in Slots, ConflictBacksOff(b, l)
       PROVE VersionsSound'
  BY <1>14, <1>0, VersionsKept, NotAnswered DEF ConflictBacksOff, storeVars
<1>15. ASSUME NEW b \in Brokers, NEW l \in Slots, ConflictGivesUp(b, l)
       PROVE VersionsSound'
  BY <1>15, <1>0, VersionsKept, NotAnswered DEF ConflictGivesUp, EndLoop, storeVars
<1>16. ASSUME NEW b \in Brokers, NEW l \in Slots, BackoffEnds(b, l) PROVE VersionsSound'
  BY <1>16, <1>0, VersionsKept, NotAnswered DEF BackoffEnds, storeVars
<1>17. ASSUME NEW b \in Brokers, NEW l \in Slots, WriteFails(b, l) PROVE VersionsSound'
  BY <1>17, <1>0, VersionsKept, NotAnswered DEF WriteFails, storeVars
<1>18. ASSUME NEW b \in Brokers, NEW l \in Slots, OrphanWrite(b, l) PROVE VersionsSound'
  <2> DEFINE lp == loop[<<b, l>>]
  <2>1. CASE versionMatches(lp) /\ Land(lp)
    BY <1>18, <1>0, <2>1, NotAnswered DEF OrphanWrite, Land, VersionsSound, Answered
  <2>2. CASE UNCHANGED storeVars
    BY <1>18, <1>0, <2>2, VersionsKept, NotAnswered DEF OrphanWrite, storeVars
  <2> QED BY <1>18, <2>1, <2>2 DEF OrphanWrite
<1>19. CASE UNCHANGED vars
  BY <1>19, VersionsKept DEF vars, storeVars, engineVars
<1> QED
  BY <1>1, <1>2, <1>3, <1>4, <1>5, <1>6, <1>7, <1>8, <1>9, <1>10, <1>11, <1>12,
     <1>13, <1>14, <1>15, <1>16, <1>17, <1>18, <1>19 DEF Next

(* No answer under way, and no cache, is newer than the store, and one as  *)
(* new as the store carries the stored state: any answer of refreshCache   *)
(* or processBuffer may be put into the cache at any later time.           *)
THEOREM AnswersAreSound == Spec => []VersionsSound
  BY TypeInit, TypeNext, VersionsInit, VersionsNext, PTL DEF Spec

(* A cached state whose version is the stored one is the stored state, at  *)
(* every broker, whatever answers were delayed or lost.                    *)
THEOREM CacheIsCoherent == Spec => []CacheCoherent
<1>1. VersionsSound => CacheCoherent
  BY DEF VersionsSound, CacheCoherent
<1> QED
  BY <1>1, AnswersAreSound, PTL

(***************************************************************************)
(* Every submission is in one place.                                       *)
(***************************************************************************)
LEMMA ToSetEmpty == ToSet(<<>>) = {}
  BY DEF ToSet

LEMMA ToSetAppend ==
  ASSUME NEW S, NEW q \in Seq(S), NEW x \in S
  PROVE  ToSet(Append(q, x)) = ToSet(q) \cup {x}
<1>1. /\ DOMAIN q = 1..Len(q) /\ Len(q) \in Nat
      /\ DOMAIN Append(q, x) = 1..Len(q) + 1
      /\ \A i \in 1..Len(q) : Append(q, x)[i] = q[i]
      /\ Append(q, x)[Len(q) + 1] = x
  OBVIOUS
<1>2. \A i \in 1..Len(q) + 1 : i \in 1..Len(q) \/ i = Len(q) + 1
  BY <1>1
<1> QED
  BY <1>1, <1>2 DEF ToSet

LEMMA ToSetType ==
  ASSUME NEW S, NEW q \in Seq(S)
  PROVE  ToSet(q) \subseteq S
  BY DEF ToSet

LEMMA LoopAt ==
  ASSUME TypeOK, NEW b \in Brokers, NEW l \in Slots, NEW lp,
         loop' = [loop EXCEPT ![<<b, l>>] = lp]
  PROVE  /\ loop'[<<b, l>>] = lp
         /\ \A c \in Brokers, k \in Slots :
               (c # b \/ k # l) => loop'[<<c, k>>] = loop[<<c, k>>]
  BY DEF TypeOK

(* What is in a buffer or a batch is a submission.                         *)
LEMMA PlacesType ==
  ASSUME TypeOK, NEW b \in Brokers
  PROVE  /\ ToSet(buffer[b]) \subseteq Submissions
         /\ \A l \in Slots : ToSet(loop[<<b, l>>].batch) \subseteq Submissions
<1>1. buffer[b] \in Seq(Submissions)
  BY DEF TypeOK
<1>2. \A l \in Slots : loop[<<b, l>>].batch \in Seq(Submissions)
  BY DEF TypeOK, LoopOK
<1> QED
  BY <1>1, <1>2, ToSetType

(* Steps within a pass: the batch stays where it is.                       *)
Working(lp) == lp.pc \notin {"idle", "orphan"} /\ ~Landed(lp)

(* The conjuncts of BatchSound in the next state.                          *)
BatchNext(b, l, s) ==
    /\ home'[s] = b /\ s \notin ToSet(buffer'[b])
    /\ loop'[<<b, l>>].pc # "idle"
    /\ outcome'[s] = IF loop'[<<b, l>>].pc = "orphan" THEN "rejected" ELSE "pending"
    /\ IF Landed(loop'[<<b, l>>])
       THEN commits'[s] = 1 /\ effect'[s] = ResultOf(loop'[<<b, l>>], s)
       ELSE commits'[s] = 0
    /\ \A k \in Slots \ {l} : s \notin ToSet(loop'[<<b, k>>].batch)

LEMMA BatchPrimed ==
  BatchSound' = \A b \in Brokers, l \in Slots :
                   \A s \in ToSet(loop'[<<b, l>>].batch) : BatchNext(b, l, s)
  BY DEF BatchSound, BatchNext

LEMMA PlacesKept ==
  ASSUME PlacesSound, UNCHANGED <<buffer, home, outcome, result, commits, effect>>,
         \A b \in Brokers, l \in Slots :
            \/ loop'[<<b, l>>] = loop[<<b, l>>]
            \/ /\ loop'[<<b, l>>].batch = loop[<<b, l>>].batch
               /\ Working(loop[<<b, l>>]) /\ Working(loop'[<<b, l>>])
  PROVE  PlacesSound'
<1>1. BufferSound' /\ SettledSound'
  BY DEF PlacesSound, BufferSound, SettledSound
<1>2. \A c \in Brokers, k \in Slots : loop'[<<c, k>>].batch = loop[<<c, k>>].batch
  OBVIOUS
<1>3. ASSUME NEW b \in Brokers, NEW l \in Slots, NEW s \in ToSet(loop'[<<b, l>>].batch)
      PROVE  BatchNext(b, l, s)
  <2>1. CASE loop'[<<b, l>>] = loop[<<b, l>>]
    BY <1>2, <1>3, <2>1 DEF PlacesSound, BatchSound, BatchNext
  <2>2. CASE Working(loop[<<b, l>>]) /\ Working(loop'[<<b, l>>])
    BY <1>2, <1>3, <2>2 DEF PlacesSound, BatchSound, BatchNext, Working
  <2> QED
    BY <2>1, <2>2
<1> QED
  BY <1>1, <1>3, BatchPrimed DEF PlacesSound

(* Steps that settle the submissions of D: each place they were in is      *)
(* emptied, or left to a request nobody waits for any more.                *)
LEMMA PlacesSettled ==
  ASSUME TypeOK, PlacesSound, NEW D \in SUBSET Submissions,
         NEW v \in {"resolved", "rejected"}, Settle(D, v),
         UNCHANGED <<home, commits, effect>>,
         \A s \in Submissions \ D : result'[s] = result[s],
         v = "resolved" => \A s \in D : commits[s] = 1 /\ result'[s] = effect[s],
         v = "rejected" => UNCHANGED result,
         \A c \in Brokers :
            \/ buffer'[c] = buffer[c] /\ ToSet(buffer[c]) \cap D = {}
            \/ ToSet(buffer'[c]) = {},
         \A c \in Brokers, k \in Slots :
            \/ loop'[<<c, k>>] = loop[<<c, k>>] /\ ToSet(loop[<<c, k>>].batch) \cap D = {}
            \/ ToSet(loop'[<<c, k>>].batch) = {}
            \/ /\ loop'[<<c, k>>].batch = loop[<<c, k>>].batch
               /\ loop'[<<c, k>>].pc = "orphan" /\ ~Landed(loop[<<c, k>>])
               /\ \A s \in ToSet(loop[<<c, k>>].batch) : outcome'[s] = "rejected"
  PROVE  PlacesSound'
<1>0. \A c \in Brokers : /\ ToSet(buffer[c]) \subseteq Submissions
                         /\ \A k \in Slots : ToSet(loop[<<c, k>>].batch) \subseteq Submissions
  BY PlacesType
<1>1. \A s \in Submissions : outcome'[s] = IF s \in D THEN v ELSE outcome[s]
  BY DEF Settle
<1>2. BufferSound'
  BY <1>0, <1>1 DEF PlacesSound, BufferSound
<1>3. SettledSound'
  BY <1>1 DEF PlacesSound, SettledSound
<1>4. /\ \A c \in Brokers : ToSet(buffer'[c]) \subseteq ToSet(buffer[c])
      /\ \A c \in Brokers, k \in Slots :
            ToSet(loop'[<<c, k>>].batch) \subseteq ToSet(loop[<<c, k>>].batch)
  OBVIOUS
<1>5. ASSUME NEW b \in Brokers, NEW l \in Slots, NEW s \in ToSet(loop'[<<b, l>>].batch)
      PROVE  BatchNext(b, l, s)
  <2>1. s \in Submissions /\ s \in ToSet(loop[<<b, l>>].batch)
    BY <1>0, <1>4, <1>5
  <2>2. /\ home'[s] = b /\ s \notin ToSet(buffer'[b])
        /\ \A k \in Slots \ {l} : s \notin ToSet(loop'[<<b, k>>].batch)
    BY <1>4, <2>1 DEF PlacesSound, BatchSound
  <2>3. CASE loop'[<<b, l>>] = loop[<<b, l>>] /\ ToSet(loop[<<b, l>>].batch) \cap D = {}
    BY <1>1, <2>1, <2>2, <2>3 DEF PlacesSound, BatchSound, BatchNext
  <2>4. CASE /\ loop'[<<b, l>>].pc = "orphan" /\ ~Landed(loop[<<b, l>>])
             /\ outcome'[s] = "rejected"
    BY <2>1, <2>2, <2>4 DEF PlacesSound, BatchSound, BatchNext, Landed
  <2> QED
    BY <1>5, <2>1, <2>3, <2>4
<1> QED
  BY <1>2, <1>3, <1>5, BatchPrimed DEF PlacesSound

(* A batch that leaves its loop is nowhere else.                           *)
LEMMA LoopLeft ==
  ASSUME TypeOK, PlacesSound, NEW b \in Brokers, NEW l \in Slots, NEW lp,
         loop' = [loop EXCEPT ![<<b, l>>] = lp]
  PROVE  /\ \A c \in Brokers : ToSet(buffer[c]) \cap ToSet(loop[<<b, l>>].batch) = {}
         /\ loop'[<<b, l>>] = lp
         /\ \A c \in Brokers, k \in Slots : (c # b \/ k # l) =>
               /\ loop'[<<c, k>>] = loop[<<c, k>>]
               /\ ToSet(loop[<<c, k>>].batch) \cap ToSet(loop[<<b, l>>].batch) = {}
<1> DEFINE B == ToSet(loop[<<b, l>>].batch)
<1>1. \A s \in B : home[s] = b
  BY DEF PlacesSound, BatchSound
<1>2. \A c \in Brokers : ToSet(buffer[c]) \cap B = {}
  BY <1>1 DEF PlacesSound, BufferSound, BatchSound
<1>3. \A c \in Brokers, k \in Slots : \A s \in ToSet(loop[<<c, k>>].batch) : home[s] = c
  BY DEF PlacesSound, BatchSound
<1>4. \A k \in Slots \ {l} : ToSet(loop[<<b, k>>].batch) \cap B = {}
  BY DEF PlacesSound, BatchSound
<1>5. ASSUME NEW c \in Brokers, NEW k \in Slots, c # b \/ k # l
      PROVE  ToSet(loop[<<c, k>>].batch) \cap B = {}
  BY <1>1, <1>3, <1>4, <1>5
<1>6. /\ loop'[<<b, l>>] = lp
      /\ \A c \in Brokers, k \in Slots :
            (c # b \/ k # l) => loop'[<<c, k>>] = loop[<<c, k>>]
  BY LoopAt
<1>7. ASSUME NEW c \in Brokers, NEW k \in Slots, c # b \/ k # l
      PROVE  /\ loop'[<<c, k>>] = loop[<<c, k>>]
             /\ ToSet(loop[<<c, k>>].batch) \cap B = {}
  BY <1>5, <1>6, <1>7
<1> QED
  BY <1>2, <1>6, <1>7

(* A write lands: its batch, and nothing that is anywhere else, is applied. *)
LEMMA PlacesLanded ==
  ASSUME TypeOK, PlacesSound, NEW b \in Brokers, NEW l \in Slots, NEW lp,
         Land(loop[<<b, l>>]), ~Landed(loop[<<b, l>>]),
         loop' = [loop EXCEPT ![<<b, l>>] = lp],
         UNCHANGED <<buffer, promiseVars>>,
         \/ ToSet(lp.batch) = {}
         \/ /\ lp.batch = loop[<<b, l>>].batch /\ lp.results = loop[<<b, l>>].results
            /\ Landed(lp) /\ loop[<<b, l>>].pc # "orphan"
  PROVE  PlacesSound'
<1> DEFINE B == ToSet(loop[<<b, l>>].batch)
<1>0. \A c \in Brokers : /\ ToSet(buffer[c]) \subseteq Submissions
                         /\ \A k \in Slots : ToSet(loop[<<c, k>>].batch) \subseteq Submissions
  BY PlacesType
<1>1. \A s \in B : home[s] = b /\ commits[s] = 0 /\ outcome[s] \in {"pending", "rejected"}
  BY DEF PlacesSound, BatchSound
<1>2. \A s \in Submissions :
         IF s \in B THEN commits'[s] = 1 /\ effect'[s] = ResultOf(loop[<<b, l>>], s)
                    ELSE commits'[s] = commits[s] /\ effect'[s] = effect[s]
  <2>1. \A s \in Submissions : commits[s] \in Nat
    BY DEF TypeOK
  <2> QED
    BY <1>1, <2>1 DEF Land
<1>3. UNCHANGED <<buffer, home, outcome, result>>
  BY DEF promiseVars
<1>4. \A c \in Brokers : ToSet(buffer[c]) \cap B = {}
  BY <1>1 DEF PlacesSound, BufferSound, BatchSound
<1>5. \A c \in Brokers, k \in Slots :
         (c # b \/ k # l) => ToSet(loop[<<c, k>>].batch) \cap B = {}
  <2>1. \A c \in Brokers, k \in Slots : \A s \in ToSet(loop[<<c, k>>].batch) : home[s] = c
    BY DEF PlacesSound, BatchSound
  <2>2. \A k \in Slots \ {l} : ToSet(loop[<<b, k>>].batch) \cap B = {}
    BY DEF PlacesSound, BatchSound
  <2>3. ASSUME NEW c \in Brokers, NEW k \in Slots, c # b \/ k # l
        PROVE  ToSet(loop[<<c, k>>].batch) \cap B = {}
    BY <1>1, <2>1, <2>2, <2>3
  <2> QED
    BY <2>3
<1>6. BufferSound'
  BY <1>0, <1>2, <1>3, <1>4 DEF PlacesSound, BufferSound
<1>7. SettledSound'
  BY <1>1, <1>2, <1>3 DEF PlacesSound, SettledSound
<1>8. /\ loop'[<<b, l>>] = lp
      /\ \A c \in Brokers, k \in Slots :
            (c # b \/ k # l) => loop'[<<c, k>>] = loop[<<c, k>>]
  BY LoopAt
<1>9. \A c \in Brokers, k \in Slots :
         ToSet(loop'[<<c, k>>].batch) \subseteq ToSet(loop[<<c, k>>].batch)
  BY <1>8
<1>10. ASSUME NEW c \in Brokers, NEW k \in Slots, NEW s \in ToSet(loop'[<<c, k>>].batch)
       PROVE  BatchNext(c, k, s)
  <2>1. s \in Submissions /\ s \in ToSet(loop[<<c, k>>].batch)
    BY <1>0, <1>9, <1>10
  <2>2. /\ home'[s] = c /\ s \notin ToSet(buffer'[c])
        /\ \A j \in Slots \ {k} : s \notin ToSet(loop'[<<c, j>>].batch)
    BY <1>3, <1>9, <2>1 DEF PlacesSound, BatchSound
  <2>3. CASE c = b /\ k = l
    <3>1. lp.batch = loop[<<b, l>>].batch /\ lp.results = loop[<<b, l>>].results
      BY <1>8, <1>10, <2>3
    <3>2. ResultOf(lp, s) = ResultOf(loop[<<b, l>>], s)
      BY <3>1 DEF ResultOf
    <3>3. Landed(lp) /\ loop[<<b, l>>].pc # "orphan"
      BY <1>8, <1>10, <2>3
    <3>4. outcome[s] = "pending"
      BY <2>1, <2>3, <3>3 DEF PlacesSound, BatchSound
    <3> QED
      BY <1>2, <1>3, <1>8, <2>1, <2>2, <2>3, <3>2, <3>3, <3>4 DEF BatchNext, Landed
  <2>4. CASE c # b \/ k # l
    <3>1. loop'[<<c, k>>] = loop[<<c, k>>] /\ s \notin B
      BY <1>5, <1>8, <2>1, <2>4
    <3> QED
      BY <1>2, <1>3, <2>1, <2>2, <3>1 DEF PlacesSound, BatchSound, BatchNext
  <2> QED
    BY <2>3, <2>4
<1> QED
  BY <1>6, <1>7, <1>10, BatchPrimed DEF PlacesSound

LEMMA PlacesInit == Init => PlacesSound
  BY ToSetEmpty DEF Init, IdleLoop, NewLoop, PlacesSound, BufferSound, BatchSound, SettledSound

LEMMA PlacesNext == TypeOK /\ PlacesSound /\ [Next]_vars => PlacesSound'
<1> SUFFICES ASSUME TypeOK, PlacesSound, [Next]_vars PROVE PlacesSound'
  OBVIOUS
<1>a. /\ outcome = [s \in Submissions |-> outcome[s]]
      /\ \A c \in Brokers : /\ ToSet(buffer[c]) \subseteq Submissions
                           /\ \A k \in Slots : ToSet(loop[<<c, k>>].batch) \subseteq Submissions
  BY PlacesType DEF TypeOK
<1>b. ToSet(IdleLoop.batch) = {}
  BY ToSetEmpty DEF IdleLoop, NewLoop
<1>1. CASE Tick
  BY <1>1, PlacesKept DEF Tick, storeVars, engineVars, promiseVars
<1>2. ASSUME NEW b \in Brokers, CreateState(b) PROVE PlacesSound'
  BY <1>2, PlacesKept DEF CreateState, promiseVars
<1>3. ASSUME NEW b \in Brokers, ReadState(b) PROVE PlacesSound'
  BY <1>3, PlacesKept DEF ReadState, storeVars, promiseVars
<1>4. ASSUME NEW b \in Brokers, StartFails(b) PROVE PlacesSound'
  BY <1>4, PlacesKept DEF StartFails, promiseVars
<1>5. ASSUME NEW b \in Brokers, stop(b) PROVE PlacesSound'
  <2> DEFINE D == ToSet(buffer[b])
  <2>1. /\ D \in SUBSET Submissions /\ Settle(D, "rejected")
        /\ UNCHANGED <<home, commits, effect, result, loop>>
    BY <1>5, <1>a DEF stop, Reject, storeVars
  <2>2. \A c \in Brokers :
            \/ buffer'[c] = buffer[c] /\ ToSet(buffer[c]) \cap D = {}
            \/ ToSet(buffer'[c]) = {}
    <3>1. buffer' = [buffer EXCEPT ![b] = <<>>]
      BY <1>5 DEF stop
    <3>2. \A c \in Brokers : IF c = b THEN ToSet(buffer'[c]) = {} ELSE buffer'[c] = buffer[c]
      BY <3>1, ToSetEmpty DEF TypeOK
    <3>3. \A c \in Brokers : c # b => ToSet(buffer[c]) \cap D = {}
      BY DEF PlacesSound, BufferSound
    <3> QED BY <3>2, <3>3
  <2>3. \A c \in Brokers, k \in Slots : ToSet(loop[<<c, k>>].batch) \cap D = {}
    BY DEF PlacesSound, BatchSound, BufferSound
  <2> QED
    BY <2>1, <2>2, <2>3, PlacesSettled
<1>6. ASSUME NEW b \in Brokers, Crash(b) PROVE PlacesSound'
  <2> DEFINE D == {s \in Submissions : home[s] = b /\ outcome[s] = "pending"}
  <2>1. /\ D \in SUBSET Submissions /\ Settle(D, "rejected")
        /\ UNCHANGED <<home, commits, effect, result>>
    BY <1>6 DEF Crash, Reject, storeVars
  <2>2. \A c \in Brokers :
            \/ buffer'[c] = buffer[c] /\ ToSet(buffer[c]) \cap D = {}
            \/ ToSet(buffer'[c]) = {}
    BY <1>6, ToSetEmpty DEF Crash, TypeOK, PlacesSound, BufferSound
  <2>3. ASSUME NEW c \in Brokers, NEW k \in Slots
        PROVE  \/ loop'[<<c, k>>] = loop[<<c, k>>] /\ ToSet(loop[<<c, k>>].batch) \cap D = {}
               \/ ToSet(loop'[<<c, k>>].batch) = {}
               \/ /\ loop'[<<c, k>>].batch = loop[<<c, k>>].batch
                  /\ loop'[<<c, k>>].pc = "orphan" /\ ~Landed(loop[<<c, k>>])
                  /\ \A s \in ToSet(loop[<<c, k>>].batch) : outcome'[s] = "rejected"
    <3> DEFINE lp == loop[<<c, k>>]
    <3>1. CASE c # b
      <4>1. loop'[<<c, k>>] = loop[<<c, k>>]
        BY <1>6, <3>1 DEF Crash, TypeOK
      <4>2. \A s \in ToSet(lp.batch) : home[s] = c
        BY DEF PlacesSound, BatchSound
      <4> QED BY <3>1, <4>1, <4>2
    <3>2. CASE c = b /\ lp.pc \notin {"writing", "orphan"}
      BY <1>6, <1>b, <3>2 DEF Crash, TypeOK
    <3>3. CASE c = b /\ lp.pc \in {"writing", "orphan"}
      <4>1. loop'[<<c, k>>] = At("orphan", lp, lp.data, 0)
        BY <1>6, <3>3 DEF Crash, TypeOK
      <4>2. \A s \in ToSet(lp.batch) :
               s \in Submissions /\ home[s] = b /\ outcome[s] \in {"pending", "rejected"}
        BY <1>a, <3>3 DEF PlacesSound, BatchSound
      <4>3. \A s \in ToSet(lp.batch) : outcome'[s] = "rejected"
        BY <2>1, <4>2 DEF Settle
      <4> QED BY <3>3, <4>1, <4>3 DEF At, Landed
    <3> QED BY <3>1, <3>2, <3>3
  <2> QED
    BY <2>1, <2>2, <2>3, PlacesSettled
<1>7. ASSUME NEW b \in Brokers, NEW s \in Submissions, NEW m \in Requests(b),
             submit(b, s, m)
      PROVE PlacesSound'
  <2>1. /\ outcome[s] = "new" /\ outcome'[s] = "pending" /\ home'[s] = b
        /\ \A t \in Submissions \ {s} : outcome'[t] = outcome[t] /\ home'[t] = home[t]
        /\ UNCHANGED <<loop, commits, effect, result>>
    BY <1>7 DEF submit, TypeOK, storeVars
  <2>2. commits[s] = 0
    BY <2>1 DEF PlacesSound, SettledSound
  <2>3. \A c \in Brokers : /\ s \notin ToSet(buffer[c])
                           /\ \A k \in Slots : s \notin ToSet(loop[<<c, k>>].batch)
    BY <2>1 DEF PlacesSound, BufferSound, BatchSound
  <2>4. /\ ToSet(buffer'[b]) = ToSet(buffer[b]) \cup {s}
        /\ \A c \in Brokers \ {b} : buffer'[c] = buffer[c]
    <3>1. buffer[b] \in Seq(Submissions)
      BY DEF TypeOK
    <3>2. buffer'[b] = Append(buffer[b], s)
      BY <1>7 DEF submit, TypeOK
    <3> QED BY <1>7, <3>1, <3>2, ToSetAppend DEF submit, TypeOK
  <2>5. BufferSound'
    BY <1>a, <2>1, <2>2, <2>3, <2>4 DEF PlacesSound, BufferSound
  <2>6. SettledSound'
    BY <2>1 DEF PlacesSound, SettledSound
  <2>7. ASSUME NEW c \in Brokers, NEW k \in Slots, NEW t \in ToSet(loop'[<<c, k>>].batch)
        PROVE  BatchNext(c, k, t)
    <3>1. t \in ToSet(loop[<<c, k>>].batch) /\ t \in Submissions /\ t # s
      BY <1>a, <2>1, <2>3, <2>7
    <3> QED
      BY <2>1, <2>4, <3>1 DEF PlacesSound, BatchSound, BatchNext
  <2> QED
    BY <2>5, <2>6, <2>7, BatchPrimed DEF PlacesSound
<1>8. ASSUME NEW b \in Brokers, NEW l \in Slots, writeLoop(b, l) PROVE PlacesSound'
  <2> DEFINE lp == NextAttempt(b, buffer[b], 0)
  <2>1. lp.batch = buffer[b] /\ lp.pc \notin {"idle", "orphan"} /\ ~Landed(lp)
    BY DEF NextAttempt, Attempt, NewLoop, Landed
  <2>2. /\ loop'[<<b, l>>] = lp
        /\ \A c \in Brokers, k \in Slots :
              (c # b \/ k # l) => loop'[<<c, k>>] = loop[<<c, k>>]
    BY <1>8, LoopAt DEF writeLoop
  <2>3. /\ ToSet(buffer'[b]) = {} /\ \A c \in Brokers \ {b} : buffer'[c] = buffer[c]
        /\ UNCHANGED <<home, outcome, result, commits, effect>>
    BY <1>8, ToSetEmpty DEF writeLoop, TypeOK, storeVars, promiseVars
  <2>4. BufferSound'
    BY <2>3 DEF PlacesSound, BufferSound
  <2>5. SettledSound'
    BY <2>3 DEF PlacesSound, SettledSound
  <2>6. ASSUME NEW c \in Brokers, NEW k \in Slots, NEW t \in ToSet(loop'[<<c, k>>].batch)
        PROVE  BatchNext(c, k, t)
    <3>1. CASE c = b /\ k = l
      <4>1. t \in ToSet(buffer[b])
        BY <2>1, <2>2, <2>6, <3>1
      <4>2. \A j \in Slots \ {l} : t \notin ToSet(loop[<<b, j>>].batch)
        BY <4>1 DEF PlacesSound, BatchSound
      <4> QED
        BY <2>1, <2>2, <2>3, <3>1, <4>1, <4>2 DEF PlacesSound, BufferSound, BatchNext
    <3>2. CASE c # b \/ k # l
      <4>1. loop'[<<c, k>>] = loop[<<c, k>>] /\ t \in ToSet(loop[<<c, k>>].batch)
        BY <2>2, <2>6, <3>2
      <4>2. home[t] = c /\ t \notin ToSet(buffer[c]) /\ t \notin ToSet(buffer'[c])
        BY <2>3, <4>1 DEF PlacesSound, BatchSound
      <4>3. \A j \in Slots \ {k} : t \notin ToSet(loop'[<<c, j>>].batch)
        BY <2>1, <2>2, <4>1, <4>2 DEF PlacesSound, BatchSound
      <4> QED
        BY <2>3, <4>1, <4>2, <4>3 DEF PlacesSound, BatchSound, BatchNext
    <3> QED BY <3>1, <3>2
  <2> QED
    BY <2>4, <2>5, <2>6, BatchPrimed DEF PlacesSound
<1>9. ASSUME NEW b \in Brokers, NEW l \in Slots, StoreRead(b, l) PROVE PlacesSound'
  BY <1>9, LoopAt, PlacesKept DEF StoreRead, At, Working, Landed, storeVars, promiseVars
<1>10. ASSUME NEW b \in Brokers, NEW l \in Slots, refreshCache(b, l) PROVE PlacesSound'
  BY <1>10, LoopAt, PlacesKept
     DEF refreshCache, Attempt, Working, Landed, storeVars, promiseVars
<1>11. ASSUME NEW b \in Brokers, NEW l \in Slots, ReadFails(b, l) PROVE PlacesSound'
  <2> DEFINE D == ToSet(buffer[b])
  <2>1. /\ D \in SUBSET Submissions /\ Settle(D, "rejected")
        /\ UNCHANGED <<home, commits, effect, result>>
    BY <1>11, <1>a DEF ReadFails, Reject, storeVars
  <2>2. \A c \in Brokers :
            \/ buffer'[c] = buffer[c] /\ ToSet(buffer[c]) \cap D = {}
            \/ ToSet(buffer'[c]) = {}
    <3>1. buffer' = [buffer EXCEPT ![b] = <<>>]
      BY <1>11 DEF ReadFails
    <3>2. \A c \in Brokers : IF c = b THEN ToSet(buffer'[c]) = {} ELSE buffer'[c] = buffer[c]
      BY <3>1, ToSetEmpty DEF TypeOK
    <3>3. \A c \in Brokers : c # b => ToSet(buffer[c]) \cap D = {}
      BY DEF PlacesSound, BufferSound
    <3> QED BY <3>2, <3>3
  <2>3. \A c \in Brokers, k \in Slots : ToSet(loop[<<c, k>>].batch) \cap D = {}
    BY DEF PlacesSound, BatchSound, BufferSound
  <2>4. ASSUME NEW c \in Brokers, NEW k \in Slots
        PROVE  loop'[<<c, k>>] = loop[<<c, k>>] \/ ToSet(loop'[<<c, k>>].batch) = {}
    <3>1. loop' = [loop EXCEPT ![<<b, l>>] = IdleLoop]
      BY <1>11 DEF ReadFails, EndLoop
    <3> QED BY <1>b, <3>1, LoopAt
  <2> QED
    BY <2>1, <2>2, <2>3, <2>4, PlacesSettled
<1>12. ASSUME NEW b \in Brokers, NEW l \in Slots, StoreWrite(b, l) PROVE PlacesSound'
  <2> DEFINE lp == loop[<<b, l>>]
  <2>1. CASE versionMatches(lp)
    <3> DEFINE next == At("wrote", lp, lp.data, store.version + 1)
    <3>1. Landed(next) /\ next.batch = lp.batch /\ next.results = lp.results
      BY DEF At, Landed, TypeOK
    <3>2. /\ Land(lp) /\ ~Landed(lp) /\ lp.pc # "orphan"
          /\ loop' = [loop EXCEPT ![<<b, l>>] = next]
          /\ UNCHANGED <<buffer, promiseVars>>
      BY <1>12, <2>1 DEF StoreWrite, Landed
    <3> QED BY <3>1, <3>2, PlacesLanded
  <2>2. CASE ~versionMatches(lp)
    BY <1>12, <2>2, LoopAt, PlacesKept
       DEF StoreWrite, At, Working, Landed, storeVars, promiseVars
  <2> QED BY <2>1, <2>2
<1>13. ASSUME NEW b \in Brokers, NEW l \in Slots, Committed(b, l) PROVE PlacesSound'
  <2> DEFINE lp == loop[<<b, l>>]
             D == ToSet(lp.batch)
  <2>1. /\ D \in SUBSET Submissions /\ Settle(D, "resolved")
        /\ UNCHANGED <<home, commits, effect, buffer>>
    BY <1>13, <1>a DEF Committed, storeVars
  <2>2. \A s \in D : commits[s] = 1 /\ result'[s] = effect[s]
    BY <1>13, <1>a DEF Committed, Landed, PlacesSound, BatchSound
  <2>3. \A s \in Submissions \ D : result'[s] = result[s]
    BY <1>13 DEF Committed
  <2>4. loop' = [loop EXCEPT ![<<b, l>>] = IdleLoop]
    BY <1>13 DEF Committed, EndLoop
  <2>5. /\ \A c \in Brokers : ToSet(buffer[c]) \cap D = {}
        /\ loop'[<<b, l>>] = IdleLoop
        /\ \A c \in Brokers, k \in Slots : (c # b \/ k # l) =>
              loop'[<<c, k>>] = loop[<<c, k>>] /\ ToSet(loop[<<c, k>>].batch) \cap D = {}
    BY <2>4, LoopLeft
  <2>6. ASSUME NEW c \in Brokers, NEW k \in Slots
        PROVE \/ loop'[<<c, k>>] = loop[<<c, k>>] /\ ToSet(loop[<<c, k>>].batch) \cap D = {}
              \/ ToSet(loop'[<<c, k>>].batch) = {}
    BY <1>b, <2>5
  <2> QED
    BY <2>1, <2>2, <2>3, <2>5, <2>6, PlacesSettled
<1>14. ASSUME NEW b \in Brokers, NEW l \in Slots, ConflictBacksOff(b, l)
       PROVE PlacesSound'
  BY <1>14, LoopAt, PlacesKept
     DEF ConflictBacksOff, isConflict, NewLoop, Working, Landed, storeVars, promiseVars
<1>15. ASSUME NEW b \in Brokers, NEW l \in Slots, ConflictGivesUp(b, l)
       PROVE PlacesSound'
  <2> DEFINE D == ToSet(loop[<<b, l>>].batch)
  <2>1. /\ D \in SUBSET Submissions /\ Settle(D, "rejected")
        /\ UNCHANGED <<home, commits, effect, buffer, result>>
    BY <1>15, <1>a DEF ConflictGivesUp, Reject, storeVars
  <2>2. loop' = [loop EXCEPT ![<<b, l>>] = IdleLoop]
    BY <1>15 DEF ConflictGivesUp, EndLoop
  <2>3. /\ \A c \in Brokers : ToSet(buffer[c]) \cap D = {}
        /\ loop'[<<b, l>>] = IdleLoop
        /\ \A c \in Brokers, k \in Slots : (c # b \/ k # l) =>
              loop'[<<c, k>>] = loop[<<c, k>>] /\ ToSet(loop[<<c, k>>].batch) \cap D = {}
    BY <2>2, LoopLeft
  <2>4. ASSUME NEW c \in Brokers, NEW k \in Slots
        PROVE \/ loop'[<<c, k>>] = loop[<<c, k>>] /\ ToSet(loop[<<c, k>>].batch) \cap D = {}
              \/ ToSet(loop'[<<c, k>>].batch) = {}
    BY <1>b, <2>3
  <2> QED
    BY <2>1, <2>3, <2>4, PlacesSettled
<1>16. ASSUME NEW b \in Brokers, NEW l \in Slots, BackoffEnds(b, l) PROVE PlacesSound'
  BY <1>16, LoopAt, PlacesKept
     DEF BackoffEnds, NextAttempt, Attempt, NewLoop, Working, Landed, storeVars, promiseVars
<1>17. ASSUME NEW b \in Brokers, NEW l \in Slots, WriteFails(b, l) PROVE PlacesSound'
  <2> DEFINE lp == loop[<<b, l>>]
             D == ToSet(lp.batch)
             next == IF lp.pc = "writing" THEN At("orphan", lp, lp.data, 0) ELSE IdleLoop
  <2>1. /\ D \in SUBSET Submissions /\ Settle(D, "rejected")
        /\ UNCHANGED <<home, commits, effect, buffer, result>>
    BY <1>17, <1>a DEF WriteFails, Reject, storeVars
  <2>2. loop' = [loop EXCEPT ![<<b, l>>] = next]
    BY <1>17 DEF WriteFails
  <2>3. \/ ToSet(next.batch) = {}
        \/ next.batch = lp.batch /\ next.pc = "orphan" /\ ~Landed(lp)
    BY <1>b DEF At, Landed
  <2> HIDE DEF next
  <2>4. /\ \A c \in Brokers : ToSet(buffer[c]) \cap D = {}
        /\ loop'[<<b, l>>] = next
        /\ \A c \in Brokers, k \in Slots : (c # b \/ k # l) =>
              loop'[<<c, k>>] = loop[<<c, k>>] /\ ToSet(loop[<<c, k>>].batch) \cap D = {}
    BY <2>2, LoopLeft
  <2>5. \A s \in D : outcome'[s] = "rejected"
    BY <2>1 DEF Settle
  <2>6. ASSUME NEW c \in Brokers, NEW k \in Slots
        PROVE \/ loop'[<<c, k>>] = loop[<<c, k>>] /\ ToSet(loop[<<c, k>>].batch) \cap D = {}
              \/ ToSet(loop'[<<c, k>>].batch) = {}
              \/ /\ loop'[<<c, k>>].batch = loop[<<c, k>>].batch
                 /\ loop'[<<c, k>>].pc = "orphan" /\ ~Landed(loop[<<c, k>>])
                 /\ \A s \in ToSet(loop[<<c, k>>].batch) : outcome'[s] = "rejected"
    <3>1. CASE c = b /\ k = l
      BY <2>3, <2>4, <2>5, <3>1
    <3>2. CASE c # b \/ k # l
      BY <2>4, <3>2
    <3> QED BY <3>1, <3>2
  <2> QED
    BY <2>1, <2>4, <2>6, PlacesSettled
<1>18. ASSUME NEW b \in Brokers, NEW l \in Slots, OrphanWrite(b, l) PROVE PlacesSound'
  <2>1. /\ loop' = [loop EXCEPT ![<<b, l>>] = IdleLoop]
        /\ loop[<<b, l>>].pc = "orphan" /\ UNCHANGED <<buffer, promiseVars>>
    BY <1>18 DEF OrphanWrite
  <2>2. CASE Land(loop[<<b, l>>])
    BY <1>b, <2>1, <2>2, PlacesLanded DEF Landed
  <2>3. CASE UNCHANGED storeVars
    <3>1. Settle({}, "rejected") /\ {} \in SUBSET Submissions
      BY <1>a, <2>1 DEF Settle, promiseVars
    <3>2. UNCHANGED <<home, commits, effect, buffer, result>>
      BY <2>1, <2>3 DEF storeVars, promiseVars
    <3>3. ASSUME NEW c \in Brokers, NEW k \in Slots
          PROVE loop'[<<c, k>>] = loop[<<c, k>>] \/ ToSet(loop'[<<c, k>>].batch) = {}
      BY <1>b, <2>1, LoopAt
    <3> QED
      BY <3>1, <3>2, <3>3, PlacesSettled
  <2> QED BY <1>18, <2>2, <2>3 DEF OrphanWrite
<1>19. CASE UNCHANGED vars
  BY <1>19, PlacesKept DEF vars, storeVars, engineVars, promiseVars
<1> QED
  BY <1>1, <1>2, <1>3, <1>4, <1>5, <1>6, <1>7, <1>8, <1>9, <1>10, <1>11, <1>12,
     <1>13, <1>14, <1>15, <1>16, <1>17, <1>18, <1>19 DEF Next

(* A submission that is not settled is in the buffer or in one batch of    *)
(* the broker it was made to, and was applied only if that batch has its   *)
(* write's answer: submit, processBuffer and the retries keep it in place. *)
THEOREM SubmissionsInOnePlace == Spec => []PlacesSound
  BY TypeInit, TypeNext, PlacesInit, PlacesNext, PTL DEF Spec

(* A mutation is applied at most once, for any brokers, loops, faults and  *)
(* interleaving.                                                           *)
THEOREM SubmissionsAppliedOnce == Spec => []AppliedOnce
<1>1. PlacesSound => AppliedOnce
  BY DEF PlacesSound, SettledSound, AppliedOnce
<1> QED
  BY <1>1, SubmissionsInOnePlace, PTL

(* A resolved promise of submit() names what was applied.                  *)
THEOREM ResolvedWasApplied == Spec => []AckedIsApplied
<1>1. PlacesSound => AckedIsApplied
  BY DEF PlacesSound, SettledSound, AckedIsApplied, Applied
<1> QED
  BY <1>1, SubmissionsInOnePlace, PTL

(***************************************************************************)
(* No submission waits in the buffer of a running engine with no timer.    *)
(***************************************************************************)
LEMMA WakeupInit == Init => NoLostWakeup
  BY DEF Init, NoLostWakeup

LEMMA WakeupNext == TypeOK /\ NoLostWakeup /\ [Next]_vars => NoLostWakeup'
<1> SUFFICES ASSUME TypeOK, NoLostWakeup, [Next]_vars PROVE NoLostWakeup'
  OBVIOUS
<1>a. /\ \A b \in Brokers : armed[b] \in BOOLEAN
      /\ DOMAIN armed = Brokers /\ DOMAIN buffer = Brokers /\ DOMAIN phase = Brokers
  BY DEF TypeOK
<1>1. CASE Tick
  BY <1>1 DEF Tick, engineVars, NoLostWakeup, running
<1>2. ASSUME NEW b \in Brokers, CreateState(b) PROVE NoLostWakeup'
  BY <1>2, <1>a DEF CreateState, NoLostWakeup, running
<1>3. ASSUME NEW b \in Brokers, ReadState(b) PROVE NoLostWakeup'
  BY <1>3, <1>a DEF ReadState, NoLostWakeup, running
<1>4. ASSUME NEW b \in Brokers, StartFails(b) PROVE NoLostWakeup'
  BY <1>4, <1>a DEF StartFails, NoLostWakeup, running
<1>5. ASSUME NEW b \in Brokers, stop(b) PROVE NoLostWakeup'
  BY <1>5, <1>a DEF stop, NoLostWakeup, running
<1>6. ASSUME NEW b \in Brokers, Crash(b) PROVE NoLostWakeup'
  BY <1>6, <1>a DEF Crash, NoLostWakeup, running
<1>7. ASSUME NEW b \in Brokers, NEW s \in Submissions, NEW m \in Requests(b),
             submit(b, s, m)
      PROVE NoLostWakeup'
  BY <1>7, <1>a DEF submit, kicks, NoLostWakeup, running
<1>8. ASSUME NEW b \in Brokers, NEW l \in Slots, writeLoop(b, l) PROVE NoLostWakeup'
  BY <1>8, <1>a DEF writeLoop, NoLostWakeup, running
<1>9. ASSUME NEW b \in Brokers, NEW l \in Slots,
             \/ StoreRead(b, l) \/ refreshCache(b, l) \/ StoreWrite(b, l)
             \/ ConflictBacksOff(b, l) \/ BackoffEnds(b, l) \/ OrphanWrite(b, l)
      PROVE NoLostWakeup'
  <2>1. UNCHANGED <<phase, buffer, armed>>
    BY <1>9 DEF StoreRead, refreshCache, StoreWrite, ConflictBacksOff, BackoffEnds,
                OrphanWrite
  <2> QED
    BY <2>1 DEF NoLostWakeup, running
<1>10. ASSUME NEW b \in Brokers, NEW l \in Slots, ReadFails(b, l) PROVE NoLostWakeup'
  BY <1>10, <1>a DEF ReadFails, EndLoop, NoLostWakeup, running
<1>11. ASSUME NEW b \in Brokers, NEW l \in Slots,
              Committed(b, l) \/ WriteFails(b, l) \/ ConflictGivesUp(b, l)
       PROVE NoLostWakeup'
  <2>1. /\ armed' = [armed EXCEPT ![b] = @ \/ running(b)]
        /\ UNCHANGED <<phase, buffer>>
    BY <1>11 DEF Committed, WriteFails, ConflictGivesUp, EndLoop
  <2> QED
    BY <1>a, <2>1 DEF NoLostWakeup, running
<1>12. CASE UNCHANGED vars
  BY <1>12 DEF vars, engineVars, NoLostWakeup, running
<1> QED
  BY <1>1, <1>2, <1>3, <1>4, <1>5, <1>6, <1>7, <1>8, <1>9, <1>10, <1>11, <1>12 DEF Next

(* Whenever something is buffered in a running engine its timer is set, so *)
(* no mutation is left waiting for another one to arrive.                  *)
THEOREM NothingWaitsUntimed == Spec => []NoLostWakeup
<1> QED
  BY TypeInit, TypeNext, WakeupInit, WakeupNext, PTL DEF Spec

(***************************************************************************)
(* Readers of a cache see jobs that were committed.                        *)
(***************************************************************************)
(* The ids of the jobs that are, or were, in the queue.                    *)
Known == JobIds(store.state) \cup gone

(* Before its creation the object is empty, and every state that a cache   *)
(* holds or may be given lists known jobs only.                            *)
SnapshotsSound ==
    /\ store.version = 0 => store.state = emptyState
    /\ \A b \in Brokers : JobIds(cachedState[b]) \subseteq Known
    /\ \A bl \in Brokers \X Slots : Answered(loop[bl]) => JobIds(loop[bl].data) \subseteq Known

LEMMA NoJobsAtFirst == JobIds(emptyState) = {}
  BY DEF JobIds, emptyState

(* The three ways a step treats the store: it leaves it alone, creates the *)
(* object, or is the landing of one loop's write.                          *)
LEMMA StoreMoves ==
  ASSUME [Next]_vars
  PROVE  \/ UNCHANGED storeVars
         \/ store' = Created /\ store.version = 0 /\ UNCHANGED <<commits, effect, gone>>
         \/ \E b \in Brokers, l \in Slots :
               /\ versionMatches(loop[<<b, l>>]) /\ Land(loop[<<b, l>>])
               /\ StoreWrite(b, l) \/ OrphanWrite(b, l)
<1>1. CASE Tick
  BY <1>1 DEF Tick
<1>2. ASSUME NEW b \in Brokers,
             \/ CreateState(b) \/ ReadState(b) \/ StartFails(b) \/ stop(b) \/ Crash(b)
             \/ \E s \in Submissions : \E m \in Requests(b) : submit(b, s, m)
      PROVE  \/ UNCHANGED storeVars
             \/ store' = Created /\ store.version = 0 /\ UNCHANGED <<commits, effect, gone>>
  BY <1>2 DEF CreateState, ReadState, StartFails, stop, Crash, submit, storeVars
<1>3. ASSUME NEW b \in Brokers, NEW l \in Slots,
             \/ writeLoop(b, l) \/ StoreRead(b, l) \/ refreshCache(b, l) \/ ReadFails(b, l)
             \/ Committed(b, l) \/ WriteFails(b, l) \/ ConflictBacksOff(b, l)
             \/ ConflictGivesUp(b, l) \/ BackoffEnds(b, l)
      PROVE  UNCHANGED storeVars
  BY <1>3 DEF writeLoop, StoreRead, refreshCache, ReadFails, Committed, WriteFails,
              ConflictBacksOff, ConflictGivesUp, BackoffEnds
<1>4. ASSUME NEW b \in Brokers, NEW l \in Slots, StoreWrite(b, l) \/ OrphanWrite(b, l)
      PROVE  UNCHANGED storeVars \/ (versionMatches(loop[<<b, l>>]) /\ Land(loop[<<b, l>>]))
  BY <1>4 DEF StoreWrite, OrphanWrite
<1>5. CASE UNCHANGED vars
  BY <1>5 DEF vars
<1> QED
  BY <1>1, <1>2, <1>3, <1>4, <1>5 DEF Next

(* A job that is known stays known.                                        *)
LEMMA KnownKept ==
  ASSUME TypeOK, SnapshotsSound, [Next]_vars
  PROVE  /\ Known \subseteq Known'
         /\ store'.version = 0 => store'.state = emptyState
<1>1. CASE UNCHANGED storeVars
  BY <1>1 DEF storeVars, Known, SnapshotsSound, JobIds
<1>2. CASE store' = Created /\ store.version = 0 /\ UNCHANGED <<commits, effect, gone>>
  <2>1. JobIds(store.state) = {}
    BY <1>2, NoJobsAtFirst DEF SnapshotsSound
  <2> QED BY <1>2, <2>1 DEF Known, Created
<1>3. ASSUME NEW lp, Land(lp)
      PROVE  Known \subseteq Known' /\ (store'.version = 0 => store'.state = emptyState)
  <2>1. store' = [version |-> store.version + 1, state |-> lp.data]
    BY <1>3 DEF Land
  <2>2. JobIds(store.state)' = JobIds(lp.data)
    BY <2>1 DEF JobIds
  <2>3. gone' = gone \cup (JobIds(store.state) \ JobIds(lp.data))
    BY <1>3 DEF Land
  <2>4. store'.version # 0
    BY <2>1 DEF TypeOK
  <2> QED BY <2>2, <2>3, <2>4 DEF Known
<1> QED BY <1>1, <1>2, <1>3, StoreMoves

(* The ways a step treats the caches and the answers under way to a loop.  *)
LEMMA CacheMoves ==
  ASSUME TypeOK, [Next]_vars, NEW b \in Brokers
  PROVE  \/ cachedState'[b] = cachedState[b]
         \/ cachedState'[b] \in {emptyState, store.state}
         \/ \E l \in Slots : Answered(loop[<<b, l>>]) /\ cachedState'[b] = loop[<<b, l>>].data
<1> USE DEF TypeOK
<1>1. CASE Tick \/ UNCHANGED vars
  BY <1>1 DEF Tick, engineVars, vars
<1>2. ASSUME NEW c \in Brokers,
             \/ CreateState(c) \/ ReadState(c) \/ StartFails(c) \/ stop(c) \/ Crash(c)
             \/ \E s \in Submissions : \E m \in Requests(c) : submit(c, s, m)
      PROVE  cachedState'[b] = cachedState[b] \/ cachedState'[b] \in {emptyState, store.state}
  BY <1>2 DEF CreateState, ReadState, StartFails, stop, Crash, submit
<1>3. ASSUME NEW c \in Brokers, NEW l \in Slots,
             \/ writeLoop(c, l) \/ StoreRead(c, l) \/ StoreWrite(c, l) \/ ReadFails(c, l)
             \/ WriteFails(c, l) \/ ConflictBacksOff(c, l) \/ OrphanWrite(c, l)
             \/ ConflictGivesUp(c, l) \/ BackoffEnds(c, l)
      PROVE  cachedState'[b] = cachedState[b]
  BY <1>3 DEF writeLoop, StoreRead, StoreWrite, ReadFails, WriteFails, OrphanWrite,
              ConflictBacksOff, ConflictGivesUp, BackoffEnds
<1>4. ASSUME NEW c \in Brokers, NEW l \in Slots, refreshCache(c, l) \/ Committed(c, l)
      PROVE  \/ cachedState'[b] = cachedState[b]
             \/ b = c /\ Answered(loop[<<b, l>>]) /\ cachedState'[b] = loop[<<b, l>>].data
  BY <1>4 DEF refreshCache, Committed, Answered
<1> QED
  BY <1>1, <1>2, <1>3, <1>4 DEF Next

LEMMA AnswerMoves ==
  ASSUME TypeOK, [Next]_vars, NEW bl \in Brokers \X Slots
  PROVE  \/ loop'[bl] = loop[bl] \/ ~Answered(loop'[bl])
         \/ loop'[bl].data \in {store.state, store'.state}
<1> USE DEF TypeOK
<1>1. CASE Tick \/ UNCHANGED vars
  BY <1>1 DEF Tick, engineVars, vars
<1>2. ASSUME NEW c \in Brokers,
             \/ CreateState(c) \/ ReadState(c) \/ StartFails(c) \/ stop(c)
             \/ \E s \in Submissions : \E m \in Requests(c) : submit(c, s, m)
      PROVE  loop'[bl] = loop[bl]
  BY <1>2 DEF CreateState, ReadState, StartFails, stop, submit
<1>3. ASSUME NEW c \in Brokers, Crash(c) PROVE loop'[bl] = loop[bl] \/ ~Answered(loop'[bl])
  BY <1>3, NotAnswered DEF Crash
<1>4. ASSUME NEW c \in Brokers, NEW l \in Slots,
             \/ ReadFails(c, l) \/ OrphanWrite(c, l) \/ Committed(c, l)
             \/ ConflictGivesUp(c, l) \/ ConflictBacksOff(c, l)
             \/ writeLoop(c, l) \/ refreshCache(c, l) \/ BackoffEnds(c, l) \/ WriteFails(c, l)
      PROVE  loop'[bl] = loop[bl] \/ ~Answered(loop'[bl])
  <2>1. \E lp : loop' = [loop EXCEPT ![<<c, l>>] = lp] /\ ~Answered(lp)
    BY <1>4, NotAnswered
       DEF ReadFails, EndLoop, OrphanWrite, Committed, ConflictGivesUp, ConflictBacksOff,
           writeLoop, refreshCache, BackoffEnds, WriteFails
  <2> QED BY <2>1
<1>5. ASSUME NEW c \in Brokers, NEW l \in Slots, StoreRead(c, l)
      PROVE  loop'[bl] = loop[bl] \/ loop'[bl].data = store.state
  BY <1>5 DEF StoreRead, At
<1>6. ASSUME NEW c \in Brokers, NEW l \in Slots, StoreWrite(c, l)
      PROVE  \/ loop'[bl] = loop[bl] \/ ~Answered(loop'[bl])
             \/ loop'[bl].data = store'.state
  <2> DEFINE lp == loop[<<c, l>>]
  <2>1. CASE versionMatches(lp)
    <3>1. loop' = [loop EXCEPT ![<<c, l>>] = At("wrote", lp, lp.data, store.version + 1)]
      BY <1>6, <2>1 DEF StoreWrite
    <3>2. store'.state = lp.data
      BY <1>6, <2>1 DEF StoreWrite, Land
    <3> QED BY <3>1, <3>2 DEF At
  <2>2. CASE ~versionMatches(lp)
    <3>1. loop' = [loop EXCEPT ![<<c, l>>] = At("wrote", lp, lp.data, 0)]
      BY <1>6, <2>2 DEF StoreWrite
    <3> QED BY <3>1, NotAnswered
  <2> QED BY <2>1, <2>2
<1> QED
  BY <1>1, <1>2, <1>3, <1>4, <1>5, <1>6 DEF Next

LEMMA SnapshotsInit == Init => SnapshotsSound
  BY NotAnswered, NoJobsAtFirst DEF Init, SnapshotsSound

LEMMA SnapshotsNext == TypeOK /\ SnapshotsSound /\ [Next]_vars => SnapshotsSound'
<1> SUFFICES ASSUME TypeOK, SnapshotsSound, [Next]_vars PROVE SnapshotsSound'
  OBVIOUS
<1>1. /\ Known \subseteq Known'
      /\ JobIds(store.state) \subseteq Known /\ JobIds(emptyState) \subseteq Known
      /\ JobIds(store'.state) \subseteq Known'
  BY KnownKept, NoJobsAtFirst DEF Known, JobIds
<1>2. \A b \in Brokers : JobIds(cachedState'[b]) \subseteq Known'
  BY <1>1, CacheMoves DEF SnapshotsSound
<1>3. \A bl \in Brokers \X Slots : Answered(loop'[bl]) => JobIds(loop'[bl].data) \subseteq Known'
  BY <1>1, AnswerMoves DEF SnapshotsSound
<1>4. /\ \A bl \in Brokers \X Slots : /\ Answered(loop[bl])' = Answered(loop'[bl])
                                      /\ JobIds(loop[bl].data)' = JobIds(loop'[bl].data)
      /\ \A b \in Brokers : JobIds(cachedState[b])' = JobIds(cachedState'[b])
  BY DEF Answered, JobIds
<1> QED
  BY <1>2, <1>3, <1>4, KnownKept DEF SnapshotsSound

(* getCachedState never shows a job that no landed write put into the      *)
(* queue: what the retry loop computes stays in the loop until it lands.   *)
THEOREM SnapshotsAreCommitted == Spec => []SnapshotIsCommitted
<1>1. SnapshotsSound => SnapshotIsCommitted
  BY DEF SnapshotsSound, SnapshotIsCommitted, Known
<1> QED
  BY <1>1, TypeInit, TypeNext, SnapshotsInit, SnapshotsNext, PTL DEF Spec

(***************************************************************************)
(* Nobody is forgotten, unless a read fails.                               *)
(***************************************************************************)
(* Who waits, waits at a broker, in one of its places.                     *)
WaitsSomewhere(s) == home[s] \in Brokers /\ s \in Held(home[s])
EveryoneIsHeld == \A s \in Submissions : outcome[s] = "pending" => WaitsSomewhere(s)

LEMMA HeldIs ==
  ASSUME NEW b, NEW s
  PROVE  s \in Held(b) <=> \/ s \in ToSet(buffer[b])
                           \/ \E l \in Slots : /\ loop[<<b, l>>].pc \in Live
                                               /\ s \in ToSet(loop[<<b, l>>].batch)
  BY DEF Held

LEMMA WaitsPrimed ==
  ASSUME NEW s, home'[s] \in Brokers,
         \/ s \in ToSet(buffer'[home'[s]])
         \/ \E l \in Slots : /\ loop'[<<home'[s], l>>].pc \in Live
                             /\ s \in ToSet(loop'[<<home'[s], l>>].batch)
  PROVE  WaitsSomewhere(s)'
  BY DEF WaitsSomewhere, Held

(* A step after which nobody new waits, and that takes nobody out of a     *)
(* place but who is settled.                                               *)
LEMMA PendingKept ==
  ASSUME TypeOK, EveryoneIsHeld, NEW D, UNCHANGED home,
         \A s \in Submissions : outcome'[s] = "pending" => outcome[s] = "pending" /\ s \notin D,
         \A b \in Brokers : \A s \in ToSet(buffer[b]) \ D :
            \/ s \in ToSet(buffer'[b])
            \/ \E l \in Slots : /\ loop'[<<b, l>>].pc \in Live
                                /\ s \in ToSet(loop'[<<b, l>>].batch),
         \A b \in Brokers, l \in Slots :
            \/ loop'[<<b, l>>] = loop[<<b, l>>]
            \/ loop[<<b, l>>].pc \notin Live
            \/ ToSet(loop[<<b, l>>].batch) \subseteq D
            \/ /\ loop'[<<b, l>>].pc \in Live
               /\ loop'[<<b, l>>].batch = loop[<<b, l>>].batch
  PROVE  EveryoneIsHeld'
<1> SUFFICES ASSUME NEW s \in Submissions, outcome'[s] = "pending"
             PROVE  WaitsSomewhere(s)'
  BY DEF EveryoneIsHeld
<1> DEFINE b == home[s]
<1>1. b \in Brokers /\ s \in Held(b) /\ s \notin D
  BY DEF EveryoneIsHeld, WaitsSomewhere
<1>2. CASE s \in ToSet(buffer[b])
  BY <1>1, <1>2, WaitsPrimed
<1>3. ASSUME NEW l \in Slots, loop[<<b, l>>].pc \in Live, s \in ToSet(loop[<<b, l>>].batch)
      PROVE  WaitsSomewhere(s)'
  BY <1>1, <1>3, WaitsPrimed
<1> QED BY <1>1, <1>2, <1>3, HeldIs

LEMMA PendingStays ==
  ASSUME TypeOK, EveryoneIsHeld, UNCHANGED <<home, outcome>>,
         \A b \in Brokers : \A s \in ToSet(buffer[b]) :
            \/ s \in ToSet(buffer'[b])
            \/ \E l \in Slots : /\ loop'[<<b, l>>].pc \in Live
                                /\ s \in ToSet(loop'[<<b, l>>].batch),
         \A b \in Brokers, l \in Slots :
            \/ loop'[<<b, l>>] = loop[<<b, l>>]
            \/ loop[<<b, l>>].pc \notin Live
            \/ /\ loop'[<<b, l>>].pc \in Live
               /\ loop'[<<b, l>>].batch = loop[<<b, l>>].batch
  PROVE  EveryoneIsHeld'
<1>1. PICK D : D = {}
  OBVIOUS
<1>2. /\ \A s \in Submissions : outcome'[s] = "pending" => outcome[s] = "pending" /\ s \notin D
      /\ \A b \in Brokers : ToSet(buffer[b]) \ D = ToSet(buffer[b])
  BY <1>1
<1> QED
  BY <1>2, PendingKept

LEMMA HeldInit == Init => EveryoneIsHeld
  BY DEF Init, EveryoneIsHeld

LEMMA HeldNext ==
  "read" \notin Faults /\ TypeOK /\ PlacesSound /\ EveryoneIsHeld /\ [Next]_vars
     => EveryoneIsHeld'
<1> SUFFICES ASSUME "read" \notin Faults, TypeOK, PlacesSound, EveryoneIsHeld, [Next]_vars
             PROVE  EveryoneIsHeld'
  OBVIOUS
<1>0. /\ DOMAIN loop = Brokers \X Slots /\ DOMAIN buffer = Brokers
      /\ outcome \in [Submissions -> Outcomes] /\ home \in [Submissions -> Brokers \cup {None}]
      /\ \A b \in Brokers : ToSet(buffer[b]) \subseteq Submissions
  BY PlacesType DEF TypeOK
<1>1. CASE UNCHANGED <<buffer, loop, home, outcome>>
  BY <1>1, PendingStays
<1>2. ASSUME NEW b \in Brokers, stop(b) PROVE EveryoneIsHeld'
  <2> DEFINE D == ToSet(buffer[b])
  <2>1. /\ UNCHANGED <<home, loop>> /\ \A c \in Brokers \ {b} : buffer'[c] = buffer[c]
        /\ \A s \in Submissions : outcome'[s] = IF s \in D THEN "rejected" ELSE outcome[s]
    BY <1>0, <1>2 DEF stop, Reject, Settle
  <2>2. \A c \in Brokers : \A s \in ToSet(buffer[c]) \ D : s \in ToSet(buffer'[c])
    BY <2>1
  <2> QED BY <2>1, <2>2, PendingKept
<1>3. ASSUME NEW b \in Brokers, Crash(b) PROVE EveryoneIsHeld'
  <2> DEFINE D == {s \in Submissions : home[s] = b}
  <2>1. /\ UNCHANGED home /\ \A c \in Brokers \ {b} : buffer'[c] = buffer[c]
        /\ \A c \in Brokers \ {b}, l \in Slots : loop'[<<c, l>>] = loop[<<c, l>>]
        /\ \A s \in Submissions : outcome'[s] = "pending" => outcome[s] = "pending" /\ s \notin D
    BY <1>0, <1>3 DEF Crash, Reject, Settle
  <2>2. \A s \in ToSet(buffer[b]) : s \in D
    BY <1>0 DEF PlacesSound, BufferSound
  <2>3. \A l \in Slots : ToSet(loop[<<b, l>>].batch) \subseteq D
    <3>1. \A l \in Slots : ToSet(loop[<<b, l>>].batch) \subseteq Submissions
      BY PlacesType
    <3> QED BY <3>1 DEF PlacesSound, BatchSound
  <2>4. \A c \in Brokers : \A s \in ToSet(buffer[c]) \ D : s \in ToSet(buffer'[c])
    BY <2>1, <2>2
  <2> HIDE DEF D
  <2> QED BY <2>1, <2>3, <2>4, PendingKept
<1>4. ASSUME NEW b \in Brokers, NEW s \in Submissions, NEW m \in Requests(b),
             submit(b, s, m)
      PROVE  EveryoneIsHeld'
  <2>1. /\ home'[s] = b /\ \A t \in Submissions \ {s} : home'[t] = home[t]
        /\ \A t \in Submissions \ {s} : outcome'[t] = outcome[t]
        /\ UNCHANGED loop /\ \A c \in Brokers \ {b} : buffer'[c] = buffer[c]
    BY <1>0, <1>4 DEF submit
  <2>2. ToSet(buffer'[b]) = ToSet(buffer[b]) \cup {s}
    <3>1. buffer[b] \in Seq(Submissions) /\ buffer'[b] = Append(buffer[b], s)
      BY <1>4 DEF submit, TypeOK
    <3> QED BY <3>1, ToSetAppend
  <2>3. WaitsSomewhere(s)'
    BY <2>1, <2>2, WaitsPrimed
  <2>4. ASSUME NEW t \in Submissions \ {s}, outcome'[t] = "pending" PROVE WaitsSomewhere(t)'
    <3>1. home[t] \in Brokers /\ t \in Held(home[t])
      BY <2>1, <2>4 DEF EveryoneIsHeld, WaitsSomewhere
    <3>2. CASE t \in ToSet(buffer[home[t]])
      BY <2>1, <2>2, <3>1, <3>2, WaitsPrimed
    <3>3. CASE \E l \in Slots : /\ loop[<<home[t], l>>].pc \in Live
                                /\ t \in ToSet(loop[<<home[t], l>>].batch)
      BY <2>1, <3>1, <3>3, WaitsPrimed
    <3> QED BY <3>1, <3>2, <3>3, HeldIs
  <2> QED BY <2>3, <2>4 DEF EveryoneIsHeld
<1>5. ASSUME NEW b \in Brokers, NEW l \in Slots, writeLoop(b, l) PROVE EveryoneIsHeld'
  <2> DEFINE lp == NextAttempt(b, buffer[b], 0)
  <2>1. lp.batch = buffer[b] /\ lp.pc \in Live
    BY DEF NextAttempt, Attempt, NewLoop, Live
  <2> HIDE DEF lp
  <2>2. /\ loop'[<<b, l>>] = lp /\ loop[<<b, l>>].pc \notin Live
        /\ \A c \in Brokers, k \in Slots :
              (c # b \/ k # l) => loop'[<<c, k>>] = loop[<<c, k>>]
    <3>1. loop' = [loop EXCEPT ![<<b, l>>] = lp] /\ loop[<<b, l>>].pc \notin Live
      BY <1>5 DEF writeLoop, lp, Live
    <3> QED BY <1>0, <3>1
  <2>3. /\ UNCHANGED <<home, outcome>> /\ \A c \in Brokers \ {b} : buffer'[c] = buffer[c]
    BY <1>0, <1>5 DEF writeLoop, promiseVars
  <2>4. \A c \in Brokers : \A s \in ToSet(buffer[c]) :
            \/ s \in ToSet(buffer'[c])
            \/ \E k \in Slots : loop'[<<c, k>>].pc \in Live /\ s \in ToSet(loop'[<<c, k>>].batch)
    BY <2>1, <2>2, <2>3
  <2>5. \A c \in Brokers, k \in Slots :
            loop'[<<c, k>>] = loop[<<c, k>>] \/ loop[<<c, k>>].pc \notin Live
    BY <2>2
  <2> QED BY <2>3, <2>4, <2>5, PendingStays
<1>6. ASSUME NEW b \in Brokers, NEW l \in Slots, NEW lp,
             loop' = [loop EXCEPT ![<<b, l>>] = lp], UNCHANGED <<buffer, home, outcome>>,
             loop[<<b, l>>].pc \notin Live \/ (lp.pc \in Live /\ lp.batch = loop[<<b, l>>].batch)
      PROVE  EveryoneIsHeld'
  <2>1. \A c \in Brokers, k \in Slots :
           IF c = b /\ k = l THEN loop'[<<c, k>>] = lp ELSE loop'[<<c, k>>] = loop[<<c, k>>]
    BY <1>0, <1>6
  <2> QED BY <1>6, <2>1, PendingStays
<1>7. ASSUME NEW b \in Brokers, NEW l \in Slots,
             \/ StoreRead(b, l) \/ refreshCache(b, l) \/ StoreWrite(b, l)
             \/ ConflictBacksOff(b, l) \/ BackoffEnds(b, l) \/ OrphanWrite(b, l)
      PROVE  EveryoneIsHeld'
  <2>1. /\ UNCHANGED <<buffer, home, outcome>>
        /\ \E lp : /\ loop' = [loop EXCEPT ![<<b, l>>] = lp]
                   /\ \/ loop[<<b, l>>].pc \notin Live
                      \/ lp.pc \in Live /\ lp.batch = loop[<<b, l>>].batch
    BY <1>7 DEF StoreRead, refreshCache, StoreWrite, ConflictBacksOff, BackoffEnds, OrphanWrite,
                At, Attempt, NextAttempt, NewLoop, Live, promiseVars
  <2> QED BY <1>6, <2>1
<1>8. ASSUME NEW b \in Brokers, NEW l \in Slots,
             Committed(b, l) \/ WriteFails(b, l) \/ ConflictGivesUp(b, l)
      PROVE  EveryoneIsHeld'
  <2> DEFINE D == ToSet(loop[<<b, l>>].batch)
  <2>1. /\ UNCHANGED <<buffer, home>>
        /\ \A s \in Submissions : outcome'[s] = "pending" => outcome[s] = "pending" /\ s \notin D
        /\ \E lp : loop' = [loop EXCEPT ![<<b, l>>] = lp]
    BY <1>0, <1>8 DEF Committed, WriteFails, ConflictGivesUp, EndLoop, Reject, Settle
  <2>2. \A c \in Brokers, k \in Slots :
           loop'[<<c, k>>] = loop[<<c, k>>] \/ ToSet(loop[<<c, k>>].batch) \subseteq D
    <3>1. PICK lp : loop' = [loop EXCEPT ![<<b, l>>] = lp]
      BY <2>1
    <3> QED BY <1>0, <3>1
  <2> HIDE DEF D
  <2> QED BY <2>1, <2>2, PendingKept
<1>9. ASSUME NEW b \in Brokers,
             \/ CreateState(b) \/ ReadState(b) \/ StartFails(b)
             \/ \E l \in Slots : ReadFails(b, l)
      PROVE  EveryoneIsHeld'
  BY <1>1, <1>9 DEF CreateState, ReadState, StartFails, ReadFails, promiseVars
<1>10. CASE Tick \/ UNCHANGED vars
  BY <1>1, <1>10 DEF Tick, vars, engineVars, promiseVars
<1> QED
  BY <1>2, <1>3, <1>4, <1>5, <1>7, <1>8, <1>9, <1>10 DEF Next

(* Unless a read of the object fails in the middle of a retry, whoever     *)
(* still waits for submit()'s promise is in the buffer or in the batch of  *)
(* a live write loop of the broker it asked.  (With failing reads it is    *)
(* false: processBuffer throws, and the drained batch is forgotten.)       *)
THEOREM NobodyIsForgotten ==
  ASSUME "read" \notin Faults
  PROVE  Spec => []PendingIsHeld
<1>1. EveryoneIsHeld => PendingIsHeld
  BY DEF EveryoneIsHeld, PendingIsHeld, WaitsSomewhere
<1>2. TypeOK /\ PlacesSound /\ EveryoneIsHeld /\ [Next]_vars => EveryoneIsHeld'
  BY HeldNext
<1> QED
  BY <1>1, <1>2, TypeInit, TypeNext, PlacesInit, PlacesNext, HeldInit, PTL DEF Spec
=============================================================================
