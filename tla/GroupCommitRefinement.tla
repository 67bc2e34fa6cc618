------------------------ MODULE GroupCommitRefinement ------------------------
(***************************************************************************)
(* Every behaviour of the engines is a behaviour of AtomicQueue: a write   *)
(* that lands is one atomic application of its batch to the queue as it is *)
(* at that moment, whatever cache its pass was computed from.              *)
(***************************************************************************)
EXTENDS GroupCommitProofs, QueueStateProofs, FiniteSetTheorems

(***************************************************************************)
(* What a step may do to one write loop.                                   *)
(***************************************************************************)
LEMMA LoopMoves ==
  ASSUME TypeOK, [Next]_vars, NEW b \in Brokers, NEW l \in Slots
  PROVE  LET old == loop[<<b, l>>]
             new == loop'[<<b, l>>]
         IN \/ new = old
            \/ new = IdleLoop
            \/ old.pc # "idle" /\ new.pc # "idle" /\ new.batch = old.batch
            \/ buffer[b] # <<>> /\ new.batch = buffer[b]
<1> DEFINE old == loop[<<b, l>>]
           new == loop'[<<b, l>>]
           Moved == \/ new = old
                    \/ new = IdleLoop
                    \/ old.pc # "idle" /\ new.pc # "idle" /\ new.batch = old.batch
                    \/ buffer[b] # <<>> /\ new.batch = buffer[b]
<1>0. DOMAIN loop = Brokers \X Slots
  BY DEF TypeOK
<1>2. ASSUME NEW c \in Brokers, Crash(c) PROVE Moved
  BY <1>0, <1>2 DEF Crash, At
<1>3. ASSUME NEW c \in Brokers, NEW k \in Slots,
             \/ ReadFails(c, k) \/ OrphanWrite(c, k) \/ Committed(c, k) \/ ConflictGivesUp(c, k)
             \/ ConflictBacksOff(c, k) \/ writeLoop(c, k) \/ refreshCache(c, k)
             \/ BackoffEnds(c, k) \/ WriteFails(c, k) \/ StoreRead(c, k) \/ StoreWrite(c, k)
      PROVE  Moved
  <2>1. \E lp : /\ loop' = [loop EXCEPT ![<<c, k>>] = lp]
                /\ \/ lp = IdleLoop
                   \/ /\ loop[<<c, k>>].pc # "idle" /\ lp.pc # "idle"
                      /\ lp.batch = loop[<<c, k>>].batch
                   \/ buffer[c] # <<>> /\ lp.batch = buffer[c]
    <3>1. CASE \/ ReadFails(c, k) \/ OrphanWrite(c, k) \/ Committed(c, k)
               \/ ConflictGivesUp(c, k)
      BY <3>1 DEF ReadFails, EndLoop, OrphanWrite, Committed, ConflictGivesUp
    <3>2. CASE ConflictBacksOff(c, k) \/ refreshCache(c, k) \/ StoreRead(c, k)
      BY <3>2 DEF ConflictBacksOff, refreshCache, StoreRead, isConflict, At, Attempt, NewLoop
    <3>3. CASE StoreWrite(c, k) \/ WriteFails(c, k)
      BY <3>3 DEF StoreWrite, WriteFails, At
    <3>4. CASE BackoffEnds(c, k) \/ writeLoop(c, k)
      BY <3>4 DEF BackoffEnds, writeLoop, NextAttempt, Attempt, NewLoop
    <3> QED BY <1>3, <3>1, <3>2, <3>3, <3>4
  <2> QED BY <1>0, <2>1
<1>4. ASSUME NEW c \in Brokers,
             \/ CreateState(c) \/ ReadState(c) \/ StartFails(c) \/ stop(c)
             \/ \E s \in Submissions : \E m \in Requests(c) : submit(c, s, m)
      PROVE  Moved
  BY <1>4 DEF CreateState, ReadState, StartFails, stop, submit
<1>5. ASSUME Tick \/ UNCHANGED vars PROVE Moved
  BY <1>5 DEF Tick, vars, engineVars
<1> HIDE DEF Moved
<1>6. Moved
  BY <1>2, <1>3, <1>4, <1>5 DEF Next
<1> QED BY <1>6 DEF Moved

LEMMA BufferMoves ==
  ASSUME TypeOK, [Next]_vars, NEW b \in Brokers
  PROVE  \/ buffer'[b] = buffer[b]
         \/ buffer'[b] = <<>>
         \/ \E s \in Submissions : outcome[s] = "new" /\ buffer'[b] = Append(buffer[b], s)
<1> USE DEF TypeOK
<1>1. ASSUME NEW c \in Brokers, NEW s \in Submissions, NEW m \in Requests(c), submit(c, s, m)
      PROVE  \/ buffer'[b] = buffer[b]
             \/ outcome[s] = "new" /\ buffer'[b] = Append(buffer[b], s)
  BY <1>1 DEF submit
<1>2. ASSUME NEW c \in Brokers, Crash(c) \/ stop(c)
      PROVE  buffer'[b] = buffer[b] \/ buffer'[b] = <<>>
  BY <1>2 DEF Crash, stop
<1>3. ASSUME NEW c \in Brokers, NEW k \in Slots, ReadFails(c, k) \/ writeLoop(c, k)
      PROVE  buffer'[b] = buffer[b] \/ buffer'[b] = <<>>
  BY <1>3 DEF ReadFails, writeLoop
<1>4. ASSUME NEW c \in Brokers, NEW k \in Slots,
             \/ OrphanWrite(c, k) \/ Committed(c, k) \/ ConflictGivesUp(c, k)
             \/ ConflictBacksOff(c, k) \/ refreshCache(c, k)
             \/ BackoffEnds(c, k) \/ WriteFails(c, k) \/ StoreRead(c, k) \/ StoreWrite(c, k)
      PROVE  buffer'[b] = buffer[b]
  BY <1>4
     DEF OrphanWrite, Committed, ConflictGivesUp, ConflictBacksOff, refreshCache, BackoffEnds,
         WriteFails, StoreRead, StoreWrite
<1>5. ASSUME NEW c \in Brokers, CreateState(c) \/ ReadState(c) \/ StartFails(c)
      PROVE  buffer'[b] = buffer[b]
  BY <1>5 DEF CreateState, ReadState, StartFails
<1>6. CASE Tick \/ UNCHANGED vars
  BY <1>6 DEF Tick, vars, engineVars
<1> QED
  BY <1>1, <1>2, <1>3, <1>4, <1>5, <1>6 DEF Next

(***************************************************************************)
(* Batches.                                                                *)
(***************************************************************************)
LEMMA InjectiveAppend ==
  ASSUME NEW S, NEW q \in Seq(S), NEW x \in S, IsInjective(q), x \notin ToSet(q)
  PROVE  IsInjective(Append(q, x))
<1>1. /\ DOMAIN q = 1..Len(q) /\ Len(q) \in Nat
      /\ DOMAIN Append(q, x) = 1..Len(q) + 1
      /\ \A i \in 1..Len(q) : Append(q, x)[i] = q[i]
      /\ Append(q, x)[Len(q) + 1] = x
  OBVIOUS
<1>2. \A i \in 1..Len(q) + 1 : i \in 1..Len(q) \/ i = Len(q) + 1
  BY <1>1
<1> QED
  BY <1>1, <1>2 DEF ToSet, IsInjective

LEMMA InjectiveEmpty == IsInjective(<<>>)
  BY DEF IsInjective

LEMMA DistinctInit == Init => BatchesDistinct
  BY InjectiveEmpty DEF Init, BatchesDistinct, IdleLoop, NewLoop

LEMMA DistinctNext ==
  TypeOK /\ PlacesSound /\ BatchesDistinct /\ [Next]_vars => BatchesDistinct'
<1> SUFFICES ASSUME TypeOK, PlacesSound, BatchesDistinct, [Next]_vars PROVE BatchesDistinct'
  OBVIOUS
<1>1. ASSUME NEW b \in Brokers PROVE IsInjective(buffer'[b])
  <2>1. CASE \E s \in Submissions : outcome[s] = "new" /\ buffer'[b] = Append(buffer[b], s)
    <3>1. PICK s \in Submissions : outcome[s] = "new" /\ buffer'[b] = Append(buffer[b], s)
      BY <2>1
    <3>2. s \notin ToSet(buffer[b]) /\ buffer[b] \in Seq(Submissions) /\ IsInjective(buffer[b])
      BY <3>1 DEF PlacesSound, BufferSound, TypeOK, BatchesDistinct
    <3> QED BY <3>1, <3>2, InjectiveAppend
  <2> QED BY <2>1, BufferMoves, InjectiveEmpty DEF BatchesDistinct
<1>2. ASSUME NEW b \in Brokers, NEW l \in Slots
      PROVE  /\ IsInjective(loop'[<<b, l>>].batch)
             /\ loop'[<<b, l>>].pc # "idle" => loop'[<<b, l>>].batch # <<>>
  BY LoopMoves, InjectiveEmpty DEF BatchesDistinct, IdleLoop, NewLoop
<1>3. \A bl \in Brokers \X Slots : \E b \in Brokers, l \in Slots : bl = <<b, l>>
  OBVIOUS
<1>4. /\ \A b \in Brokers : IsInjective(buffer[b])' = IsInjective(buffer'[b])
      /\ \A bl \in Brokers \X Slots : IsInjective(loop[bl].batch)' = IsInjective(loop'[bl].batch)
  BY DEF IsInjective
<1>5. \A bl \in Brokers \X Slots :
         /\ IsInjective(loop'[bl].batch)
         /\ loop'[bl].pc # "idle" => loop'[bl].batch # <<>>
  BY <1>2, <1>3
<1> QED
  BY <1>1, <1>4, <1>5 DEF BatchesDistinct

(***************************************************************************)
(* What is carried by a write under way.  The mutations and the time are   *)
(* arguments, so that the next state's can be given.                       *)
(***************************************************************************)
WorkOf(mut, batch, n) ==
    [i \in DOMAIN batch |-> [mutation |-> mut[batch[i]], seed |-> <<batch[i], n>>]]

PassAt(lp, mut, state, now) ==
    LET pass == applyBatch(state, WorkOf(mut, lp.batch, lp.attempt), now)
    IN lp.data = pass.state /\ lp.results = pass.results

CarriesPass(lp, mut, st, time) ==
    /\ lp.expected <= st.version
    /\ lp.expected = st.version => \E now \in 0..time : PassAt(lp, mut, st.state, now)

LEMMA PassSoundIs ==
  /\ PassSound = \A bl \in Brokers \X Slots : InFlight(loop[bl]) =>
                    CarriesPass(loop[bl], mutation, store, clock)
  /\ PassSound' = \A bl \in Brokers \X Slots : InFlight(loop'[bl]) =>
                    CarriesPass(loop'[bl], mutation', store', clock')
  BY DEF PassSound, InFlight, CarriesPass, IsPassOf, Work, PassAt, WorkOf

(* What a request carries does not change, and a new one is made from the  *)
(* cache with its version, or from the answer of the loop's own read.      *)
LEMMA InFlightMoves ==
  ASSUME TypeOK, [Next]_vars, NEW b \in Brokers, NEW l \in Slots, InFlight(loop'[<<b, l>>])
  PROVE  LET old == loop[<<b, l>>]
             new == loop'[<<b, l>>]
         IN \/ /\ InFlight(old)
               /\ new.batch = old.batch /\ new.attempt = old.attempt
               /\ new.expected = old.expected
               /\ new.data = old.data /\ new.results = old.results
            \/ /\ UNCHANGED <<store, clock, mutation>>
               /\ \E batch, n, state, version :
                    /\ new = Attempt(batch, n, state, version)
                    /\ \/ /\ version = cachedVersion[b] /\ version # 0
                          /\ state = cachedState[b]
                       \/ Answered(old) /\ version = old.answer /\ state = old.data
<1> DEFINE old == loop[<<b, l>>]
           new == loop'[<<b, l>>]
           Same == /\ InFlight(old)
                   /\ new.batch = old.batch /\ new.attempt = old.attempt
                   /\ new.expected = old.expected
                   /\ new.data = old.data /\ new.results = old.results
           Fresh == /\ UNCHANGED <<store, clock, mutation>>
                    /\ \E batch, n, state, version :
                         /\ new = Attempt(batch, n, state, version)
                         /\ \/ /\ version = cachedVersion[b] /\ version # 0
                               /\ state = cachedState[b]
                            \/ Answered(old) /\ version = old.answer /\ state = old.data
<1>0. DOMAIN loop = Brokers \X Slots
  BY DEF TypeOK
<1>1. ASSUME new = old PROVE Same
  BY <1>1
<1>2. ASSUME NEW c \in Brokers, Crash(c) PROVE Same
  BY <1>0, <1>2 DEF Crash, At, InFlight, IdleLoop, NewLoop
<1>3. ASSUME NEW c \in Brokers, NEW k \in Slots, NEW lp,
             loop' = [loop EXCEPT ![<<c, k>>] = lp], ~InFlight(lp)
      PROVE  Same
  BY <1>0, <1>3
<1>4. ASSUME NEW c \in Brokers, NEW k \in Slots,
             \/ ReadFails(c, k) \/ OrphanWrite(c, k) \/ Committed(c, k) \/ ConflictGivesUp(c, k)
             \/ ConflictBacksOff(c, k) \/ StoreRead(c, k) \/ StoreWrite(c, k)
      PROVE  Same
  <2>1. \E lp : loop' = [loop EXCEPT ![<<c, k>>] = lp] /\ ~InFlight(lp)
    BY <1>4 DEF ReadFails, EndLoop, OrphanWrite, Committed, ConflictGivesUp, ConflictBacksOff,
                StoreRead, StoreWrite, At, IdleLoop, NewLoop, InFlight
  <2> HIDE DEF Same
  <2> QED BY <1>3, <2>1
<1>5. ASSUME NEW c \in Brokers, NEW k \in Slots, WriteFails(c, k) PROVE Same
  BY <1>0, <1>5 DEF WriteFails, At, InFlight, IdleLoop, NewLoop
<1>6. ASSUME NEW c \in Brokers, NEW k \in Slots,
             refreshCache(c, k) \/ BackoffEnds(c, k) \/ writeLoop(c, k)
      PROVE  Same \/ Fresh
  <2>1. CASE c # b \/ k # l
    <3>1. new = old
      BY <1>0, <1>6, <2>1 DEF refreshCache, BackoffEnds, writeLoop
    <3> QED BY <1>1, <3>1
  <2>2. CASE c = b /\ k = l
    <3>1. UNCHANGED <<store, clock, mutation>>
      BY <1>6 DEF refreshCache, BackoffEnds, writeLoop, storeVars, promiseVars
    <3>2. CASE refreshCache(b, l)
      <4>1. new = Attempt(old.batch, old.attempt, old.data, old.answer) /\ Answered(old)
        BY <1>0, <3>2 DEF refreshCache, Answered
      <4> QED BY <3>1, <4>1
    <3>3. CASE BackoffEnds(b, l) \/ writeLoop(b, l)
      <4>1. \E batch, n : new = NextAttempt(b, batch, n)
        BY <1>0, <3>3 DEF BackoffEnds, writeLoop
      <4>2. PICK batch, n : new = NextAttempt(b, batch, n)
        BY <4>1
      <4>3. cachedVersion[b] # 0
            /\ new = Attempt(batch, n, cachedState[b], cachedVersion[b])
        BY <4>2 DEF NextAttempt, NewLoop, InFlight
      <4> QED BY <3>1, <4>3
    <3> QED BY <1>6, <2>2, <3>2, <3>3
  <2> QED BY <2>1, <2>2
<1>7. ASSUME NEW c \in Brokers,
             \/ CreateState(c) \/ ReadState(c) \/ StartFails(c) \/ stop(c)
             \/ \E s \in Submissions : \E m \in Requests(c) : submit(c, s, m)
      PROVE  Same
  BY <1>1, <1>7 DEF CreateState, ReadState, StartFails, stop, submit
<1>8. ASSUME Tick \/ UNCHANGED vars PROVE Same
  BY <1>1, <1>8 DEF Tick, vars, engineVars
<1> HIDE DEF Same, Fresh
<1>9. Same \/ Fresh
  BY <1>2, <1>4, <1>5, <1>6, <1>7, <1>8 DEF Next
<1> QED BY <1>9 DEF Same, Fresh

(* Time and versions only grow, and a mutation is fixed by its submission. *)
LEMMA Frame ==
  ASSUME TypeOK, DOMAIN mutation = Submissions, [Next]_vars
  PROVE  /\ store' = store \/ store.version < store'.version
         /\ clock \in Nat /\ clock' \in Nat /\ clock <= clock'
         /\ DOMAIN mutation' = Submissions
         /\ \A s \in Submissions : outcome[s] # "new" => mutation'[s] = mutation[s]
<1>1. store' = store \/ store.version < store'.version
  <2>1. store.version \in Nat
    BY DEF TypeOK
  <2>2. CASE UNCHANGED storeVars
    BY <2>2 DEF storeVars
  <2>3. CASE store' = Created /\ store.version = 0
    BY <2>3 DEF Created
  <2>4. ASSUME NEW lp, Land(lp) PROVE store.version < store'.version
    <3>1. store'.version = store.version + 1
      BY <2>4 DEF Land
    <3> QED BY <2>1, <3>1
  <2> QED BY <2>2, <2>3, <2>4, StoreMoves
<1>2. clock \in Nat /\ clock' \in Nat /\ clock <= clock'
  <2>1. clock' = clock \/ clock' = clock + 1
    <3>1. CASE Tick \/ UNCHANGED vars
      BY <3>1 DEF Tick, vars
    <3>2. ASSUME NEW b \in Brokers,
                 \/ CreateState(b) \/ ReadState(b) \/ StartFails(b) \/ stop(b) \/ Crash(b)
                 \/ \E s \in Submissions : \E m \in Requests(b) : submit(b, s, m)
          PROVE  clock' = clock
      BY <3>2 DEF CreateState, ReadState, StartFails, stop, Crash, submit
    <3>3. ASSUME NEW b \in Brokers, NEW l \in Slots,
                 \/ writeLoop(b, l) \/ StoreRead(b, l) \/ refreshCache(b, l) \/ ReadFails(b, l)
                 \/ StoreWrite(b, l) \/ Committed(b, l) \/ WriteFails(b, l)
                 \/ ConflictBacksOff(b, l) \/ ConflictGivesUp(b, l)
                 \/ BackoffEnds(b, l) \/ OrphanWrite(b, l)
          PROVE  clock' = clock
      BY <3>3 DEF writeLoop, StoreRead, refreshCache, ReadFails, StoreWrite, Committed,
                  WriteFails, ConflictBacksOff, ConflictGivesUp, BackoffEnds, OrphanWrite
    <3> QED BY <3>1, <3>2, <3>3 DEF Next
  <2> QED BY <2>1 DEF TypeOK
<1>3. \/ mutation' = mutation
      \/ \E s \in Submissions : \E m : outcome[s] = "new" /\ mutation' = [mutation EXCEPT ![s] = m]
  <2>1. ASSUME NEW b \in Brokers, NEW s \in Submissions, NEW m \in Requests(b),
               submit(b, s, m)
        PROVE  outcome[s] = "new" /\ mutation' = [mutation EXCEPT ![s] = m]
    BY <2>1 DEF submit
  <2>2. CASE Tick \/ UNCHANGED vars
    BY <2>2 DEF Tick, vars, promiseVars
  <2>3. ASSUME NEW b \in Brokers,
               CreateState(b) \/ ReadState(b) \/ StartFails(b) \/ stop(b) \/ Crash(b)
        PROVE  mutation' = mutation
    BY <2>3 DEF CreateState, ReadState, StartFails, stop, Crash, promiseVars
  <2>4. ASSUME NEW b \in Brokers, NEW l \in Slots,
               \/ writeLoop(b, l) \/ StoreRead(b, l) \/ refreshCache(b, l) \/ ReadFails(b, l)
               \/ StoreWrite(b, l) \/ Committed(b, l) \/ WriteFails(b, l)
               \/ ConflictBacksOff(b, l) \/ ConflictGivesUp(b, l)
               \/ BackoffEnds(b, l) \/ OrphanWrite(b, l)
        PROVE  mutation' = mutation
    BY <2>4 DEF writeLoop, StoreRead, refreshCache, ReadFails, StoreWrite, Committed,
                WriteFails, ConflictBacksOff, ConflictGivesUp, BackoffEnds, OrphanWrite,
                promiseVars
  <2> QED BY <2>1, <2>2, <2>3, <2>4 DEF Next
<1> QED BY <1>1, <1>2, <1>3

LEMMA PassInit == Init => PassSound
  BY DEF Init, PassSound, InFlight, IdleLoop, NewLoop

(* A request under way keeps its pass, and a new one that expects the      *)
(* stored version carries a pass over the stored state.                    *)
LEMMA RequestMoves ==
  ASSUME TypeOK, VersionsSound, PlacesSound, DOMAIN mutation = Submissions, [Next]_vars,
         NEW b \in Brokers, NEW l \in Slots, InFlight(loop'[<<b, l>>])
  PROVE  LET old == loop[<<b, l>>]
             new == loop'[<<b, l>>]
         IN \/ /\ InFlight(old) /\ new.expected = old.expected
               /\ \A state, now : PassAt(old, mutation, state, now)
                                     => PassAt(new, mutation', state, now)
            \/ /\ UNCHANGED <<store, clock, mutation>>
               /\ new.expected <= store.version
               /\ new.expected = store.version => PassAt(new, mutation', store.state, clock)
<1> DEFINE old == loop[<<b, l>>]
           new == loop'[<<b, l>>]
           Kept == /\ InFlight(old) /\ new.expected = old.expected
                   /\ \A state, now : PassAt(old, mutation, state, now)
                                         => PassAt(new, mutation', state, now)
           Made == /\ UNCHANGED <<store, clock, mutation>>
                   /\ new.expected <= store.version
                   /\ new.expected = store.version => PassAt(new, mutation', store.state, clock)
<1>1. ASSUME InFlight(old),
             new.batch = old.batch, new.attempt = old.attempt, new.expected = old.expected,
             new.data = old.data, new.results = old.results
      PROVE  Kept
  <2>1. \A s \in ToSet(old.batch) : mutation'[s] = mutation[s]
    <3>1. ToSet(old.batch) \subseteq Submissions
      BY PlacesType
    <3>2. \A s \in ToSet(old.batch) : outcome[s] # "new"
      BY DEF PlacesSound, BatchSound
    <3> QED BY <3>1, <3>2, Frame
  <2>2. WorkOf(mutation', old.batch, old.attempt) = WorkOf(mutation, old.batch, old.attempt)
    BY <2>1 DEF WorkOf, ToSet
  <2>3. \A state, now : PassAt(old, mutation, state, now) => PassAt(new, mutation', state, now)
    BY <1>1, <2>2 DEF PassAt
  <2> QED BY <1>1, <2>3
<1>2. ASSUME UNCHANGED <<store, clock, mutation>>,
             NEW batch, NEW n, NEW state, NEW version,
             new = Attempt(batch, n, state, version),
             \/ version = cachedVersion[b] /\ version # 0 /\ state = cachedState[b]
             \/ Answered(old) /\ version = old.answer /\ state = old.data
      PROVE  Made
  <2>1. version <= store.version /\ (version = store.version => state = store.state)
    BY <1>2 DEF VersionsSound
  <2>2. new.expected = version /\ PassAt(new, mutation, state, clock)
    BY <1>2 DEF Attempt, PassAt, WorkOf, Work
  <2> QED BY <1>2, <2>1, <2>2
<1>3. ASSUME UNCHANGED <<store, clock, mutation>>,
             \E batch, n, state, version :
                /\ new = Attempt(batch, n, state, version)
                /\ \/ version = cachedVersion[b] /\ version # 0 /\ state = cachedState[b]
                   \/ Answered(old) /\ version = old.answer /\ state = old.data
      PROVE  Made
  <2> HIDE DEF new, old, Made
  <2> QED BY <1>2, <1>3
<1>4. Kept \/ Made
  <2> HIDE DEF Kept, Made
  <2> QED BY <1>1, <1>3, InFlightMoves
<1> QED
  BY <1>4

LEMMA PassNext ==
  /\ TypeOK /\ VersionsSound /\ PlacesSound /\ PassSound /\ DOMAIN mutation = Submissions
  /\ [Next]_vars
  => PassSound'
<1> SUFFICES ASSUME TypeOK, VersionsSound, PlacesSound, PassSound,
                    DOMAIN mutation = Submissions, [Next]_vars
             PROVE  PassSound'
  OBVIOUS
<1> SUFFICES ASSUME NEW b \in Brokers, NEW l \in Slots, InFlight(loop'[<<b, l>>])
             PROVE  CarriesPass(loop'[<<b, l>>], mutation', store', clock')
  BY PassSoundIs
<1> DEFINE old == loop[<<b, l>>]
           new == loop'[<<b, l>>]
<1>1. CASE /\ InFlight(old) /\ new.expected = old.expected
           /\ \A state, now : PassAt(old, mutation, state, now)
                                 => PassAt(new, mutation', state, now)
  <2>1. CarriesPass(old, mutation, store, clock)
    BY <1>1, PassSoundIs
  <2>2. /\ store' = store \/ store.version < store'.version
        /\ clock \in Nat /\ clock' \in Nat /\ clock <= clock'
    BY Frame
  <2>3. CASE store' = store
    <3>1. \A now \in 0..clock : now \in 0..clock'
      BY <2>2
    <3> QED BY <1>1, <2>1, <2>3, <3>1 DEF CarriesPass
  <2>4. CASE store.version < store'.version
    <3>1. old.expected \in Nat /\ store.version \in Nat /\ store'.version \in Nat
      <4>1. TypeOK'
        BY TypeNext
      <4> QED BY <4>1 DEF TypeOK, LoopOK
    <3>2. new.expected <= store'.version /\ new.expected # store'.version
      BY <1>1, <2>1, <2>4, <3>1 DEF CarriesPass
    <3> QED BY <3>2 DEF CarriesPass
  <2> QED BY <2>2, <2>3, <2>4
<1>2. CASE /\ UNCHANGED <<store, clock, mutation>>
           /\ new.expected <= store.version
           /\ new.expected = store.version => PassAt(new, mutation', store.state, clock)
  <2>1. clock \in 0..clock
    BY DEF TypeOK
  <2> QED BY <1>2, <2>1 DEF CarriesPass
<1> QED
  BY <1>1, <1>2, RequestMoves

(***************************************************************************)
(* The invariant the refinement rests on.                                  *)
(***************************************************************************)
EngineSound ==
    /\ TypeOK /\ VersionsSound /\ PlacesSound /\ SnapshotsSound
    /\ BatchesDistinct /\ PassSound
    /\ DOMAIN mutation = Submissions

LEMMA EngineInit == Init => EngineSound
  BY TypeInit, VersionsInit, PlacesInit, SnapshotsInit, DistinctInit, PassInit
     DEF EngineSound, Init

LEMMA EngineNext == EngineSound /\ [Next]_vars => EngineSound'
<1> SUFFICES ASSUME EngineSound, [Next]_vars PROVE EngineSound'
  OBVIOUS
<1>1. /\ TypeOK /\ VersionsSound /\ PlacesSound /\ SnapshotsSound
      /\ BatchesDistinct /\ PassSound
      /\ DOMAIN mutation = Submissions
  BY DEF EngineSound
<1>2. DOMAIN mutation' = Submissions
  BY <1>1, Frame
<1>3. TypeOK' /\ VersionsSound' /\ PlacesSound' /\ SnapshotsSound'
  BY <1>1, TypeNext, VersionsNext, PlacesNext, SnapshotsNext
<1>4. BatchesDistinct' /\ PassSound'
  BY <1>1, DistinctNext, PassNext
<1> QED BY <1>2, <1>3, <1>4 DEF EngineSound

(* What a write carries that may land is the pass over its batch of the    *)
(* stored state: no cached, delayed or retried state is ever made the      *)
(* queue's next state unless it still is the queue's state.                *)
THEOREM WritesArePasses == Spec => []PassSound
<1>1. EngineSound => PassSound
  BY DEF EngineSound
<1> QED
  BY <1>1, EngineInit, EngineNext, PTL DEF Spec

(***************************************************************************)
(* The refinement, step by step.                                           *)
(***************************************************************************)
LEMMA SameBatch ==
  \A state, batch, now : AQ!applyBatch(state, batch, now) = applyBatch(state, batch, now)
  BY DEF AQ!applyBatch, applyBatch, AQ!applyNext, applyNext, AQ!applyMutation, applyMutation,
         AQ!enqueueJobs, enqueueJobs, AQ!claimJob, claimJob, AQ!heartbeatJob, heartbeatJob,
         AQ!completeJob, completeJob, AQ!registerBroker, registerBroker,
         AQ!heldIndex, heldIndex, AQ!SelectInSeq, SelectInSeq,
         AQ!matchesJobTypeFilter, matchesJobTypeFilter,
         AQ!expireHeartbeats, expireHeartbeats, AQ!expireJob, expireJob,
         AQ!isStale, isStale, AQ!usedUp, usedUp, AQ!maxAttemptsOf, maxAttemptsOf,
         AQ!RemoveAt, RemoveAt, AQ!Min, Min

LEMMA SameCardinality == \A S : AQ!Cardinality(S) = Cardinality(S)
  BY DEF AQ!Cardinality, Cardinality

(* A sequence without repetition is an ordering of the set of its elements. *)
LEMMA InjectiveOrders ==
  ASSUME NEW S, NEW q \in Seq(S), IsInjective(q)
  PROVE  q \in AQ!SetToSeqs(ToSet(q))
<1> DEFINE T == ToSet(q)
           n == Len(q)
<1>1. n \in Nat /\ DOMAIN q = 1..n /\ q \in [1..n -> T]
  <2>1. n \in Nat /\ q \in [1..n -> S]
    OBVIOUS
  <2> QED BY <2>1 DEF ToSet
<1>2. q \in Bijection(1..n, T)
  BY <1>1 DEF ToSet, IsInjective, Bijection, Injection, Surjection
<1>3. Cardinality(T) = n
  BY <1>1, <1>2, FS_CountingElements DEF ExistsBijection
<1>4. AQ!SetToSeqs(T) = {f \in [1..Cardinality(T) -> T] :
                            \A i, j \in 1..Cardinality(T) : i # j => f[i] # f[j]}
  BY SameCardinality DEF AQ!SetToSeqs
<1> QED BY <1>1, <1>3, <1>4 DEF IsInjective

(* A write that lands is a pass over its batch of what was stored, and     *)
(* gives each of its submissions the result it had there.                  *)
LEMMA LandingIs ==
  ASSUME EngineSound, NEW b \in Brokers, NEW l \in Slots, InFlight(loop[<<b, l>>]),
         versionMatches(loop[<<b, l>>]), Land(loop[<<b, l>>])
  PROVE  LET lp == loop[<<b, l>>]
             B == ToSet(lp.batch)
         IN /\ lp.batch \in Seq(Submissions) /\ lp.attempt \in 0..MaxRetries
            /\ IsInjective(lp.batch) /\ lp.batch # <<>> /\ B \subseteq Submissions
            /\ \E now \in 0..clock : PassAt(lp, mutation, store.state, now)
            /\ \A s \in B : outcome[s] \in {"pending", "rejected"} /\ commits[s] = 0
            /\ store'.state = lp.data
            /\ commits' = [s \in Submissions |-> commits[s] + (IF s \in B THEN 1 ELSE 0)]
            /\ \A s \in Submissions : s \notin B => effect'[s] = effect[s]
            /\ \A i \in DOMAIN lp.batch : effect'[lp.batch[i]] = lp.results[i]
<1> DEFINE lp == loop[<<b, l>>]
           B == ToSet(lp.batch)
<1>0. TypeOK /\ PlacesSound /\ BatchesDistinct /\ PassSound
  BY DEF EngineSound
<1>1. /\ lp.batch \in Seq(Submissions) /\ lp.attempt \in 0..MaxRetries
      /\ IsInjective(lp.batch) /\ lp.batch # <<>> /\ B \subseteq Submissions
  BY <1>0, PlacesType DEF TypeOK, LoopOK, BatchesDistinct, InFlight
<1>2. \E now \in 0..clock : PassAt(lp, mutation, store.state, now)
  BY <1>0, PassSoundIs DEF CarriesPass, versionMatches
<1>3. \A s \in B : outcome[s] \in {"pending", "rejected"} /\ commits[s] = 0
  BY <1>0 DEF PlacesSound, BatchSound, Landed, InFlight
<1>4. /\ store'.state = lp.data
      /\ commits' = [s \in Submissions |-> commits[s] + (IF s \in B THEN 1 ELSE 0)]
      /\ \A s \in Submissions : effect'[s] = IF s \in B THEN ResultOf(lp, s) ELSE effect[s]
  BY DEF Land
<1>5. \A i \in DOMAIN lp.batch : effect'[lp.batch[i]] = lp.results[i]
  <2> SUFFICES ASSUME NEW i \in DOMAIN lp.batch PROVE effect'[lp.batch[i]] = lp.results[i]
    OBVIOUS
  <2>1. lp.batch[i] \in B
    BY DEF ToSet
  <2>2. (CHOOSE k \in DOMAIN lp.batch : lp.batch[k] = lp.batch[i]) = i
    BY <1>1 DEF IsInjective
  <2> QED BY <1>1, <1>4, <2>1, <2>2 DEF ResultOf
<1> HIDE DEF lp, B
<1>6. \A s \in Submissions : s \notin B => effect'[s] = effect[s]
  BY <1>4
<1> QED
  BY <1>1, <1>2, <1>3, <1>4, <1>5, <1>6 DEF lp, B

LEMMA LandingCommits ==
  ASSUME EngineSound, NEW b \in Brokers, NEW l \in Slots, InFlight(loop[<<b, l>>]),
         versionMatches(loop[<<b, l>>]), Land(loop[<<b, l>>]),
         UNCHANGED <<clock, promiseVars>>
  PROVE  AQ!Commit(ToSet(loop[<<b, l>>].batch))
<1> DEFINE lp == loop[<<b, l>>]
           B == ToSet(lp.batch)
<1>1. /\ lp.batch \in Seq(Submissions) /\ IsInjective(lp.batch) /\ lp.batch # <<>>
      /\ lp.attempt \in 0..MaxRetries
      /\ \A s \in B : outcome[s] \in {"pending", "rejected"} /\ commits[s] = 0
      /\ store'.state = lp.data
      /\ commits' = [s \in Submissions |-> commits[s] + (IF s \in B THEN 1 ELSE 0)]
      /\ \A i \in DOMAIN lp.batch : effect'[lp.batch[i]] = lp.results[i]
      /\ \E now \in 0..clock : PassAt(lp, mutation, store.state, now)
  BY LandingIs
<1>2. PICK now \in 0..clock : PassAt(lp, mutation, store.state, now)
  BY <1>1
<1>3. \A s \in Submissions : effect'[s] = IF s \in B THEN ResultOf(lp, s) ELSE effect[s]
  BY DEF Land
<1>4. B # {}
  <2>1. 1 \in DOMAIN lp.batch
    BY <1>1
  <2> QED BY <2>1 DEF ToSet
<1> HIDE DEF lp, B
<1>5. AQ!CommitAs(lp.batch, now, lp.attempt)
  BY <1>1, <1>2, SameBatch DEF AQ!CommitAs, PassAt, WorkOf
<1>6. lp.batch \in AQ!SetToSeqs(B)
  BY <1>1, InjectiveOrders DEF B
<1>7. UNCHANGED <<clock, mutation, outcome, result>>
  BY DEF promiseVars
<1> QED
  BY <1>1, <1>2, <1>3, <1>4, <1>5, <1>6, <1>7 DEF AQ!Commit, AQ!promises, lp, B

LEMMA AbstractInit == Init => AQ!Init
  BY DEF Init, AQ!Init, AQ!emptyState, emptyState

(* Settling the promises of D as refused is one abstract step.             *)
LEMMA RejectRefuses ==
  ASSUME NEW D \in SUBSET Submissions, Reject(D), \A s \in D : outcome[s] = "pending",
         UNCHANGED <<storeVars, clock, mutation>>
  PROVE  AQ!Next
<1>1. AQ!Refuse(D)
  BY DEF Reject, Settle, AQ!Refuse, AQ!history, storeVars
<1> QED BY <1>1 DEF AQ!Next

LEMMA AbstractStutter ==
  ASSUME UNCHANGED <<store.state, clock, mutation, outcome, result, commits, effect>>
  PROVE  UNCHANGED AQ!vars
  BY DEF AQ!vars

LEMMA LandingSteps ==
  ASSUME EngineSound, NEW b \in Brokers, NEW l \in Slots, InFlight(loop[<<b, l>>]),
         versionMatches(loop[<<b, l>>]), Land(loop[<<b, l>>]),
         UNCHANGED <<clock, promiseVars>>
  PROVE  AQ!Next
<1>1. ToSet(loop[<<b, l>>].batch) \in SUBSET Submissions
  BY PlacesType DEF EngineSound
<1> QED
  BY <1>1, LandingCommits DEF AQ!Next

LEMMA AbstractNext == EngineSound /\ [Next]_vars => [AQ!Next]_(AQ!vars)
<1> SUFFICES ASSUME EngineSound, [Next]_vars PROVE AQ!Next \/ UNCHANGED AQ!vars
  OBVIOUS
<1>0. /\ TypeOK /\ PlacesSound /\ SnapshotsSound /\ DOMAIN mutation = Submissions
      /\ \A c \in Brokers : /\ ToSet(buffer[c]) \subseteq Submissions
                            /\ \A k \in Slots : ToSet(loop[<<c, k>>].batch) \subseteq Submissions
      /\ outcome = [s \in Submissions |-> outcome[s]]
  BY PlacesType DEF EngineSound, TypeOK
<1>1. CASE Tick
  <2>1. AQ!Tick
    BY <1>0, <1>1 DEF Tick, AQ!Tick, AQ!promises, AQ!history, storeVars, promiseVars, TypeOK
  <2> QED BY <2>1 DEF AQ!Next
<1>2. ASSUME NEW b \in Brokers, CreateState(b) \/ StartFails(b)
      PROVE  UNCHANGED AQ!vars
  <2>1. store' = store \/ (store.version = 0 /\ store' = Created)
    BY <1>2 DEF CreateState, StartFails
  <2>2. store'.state = store.state
    BY <1>0, <2>1 DEF SnapshotsSound, Created
  <2> QED BY <1>2, <2>2, AbstractStutter DEF CreateState, StartFails, promiseVars
<1>3. ASSUME NEW b \in Brokers, NEW s \in Submissions, NEW m \in Requests(b), submit(b, s, m)
      PROVE  AQ!Next
  <2>1. AQ!Submit(s)
    BY <1>0, <1>3 DEF submit, AQ!Submit, AQ!history, storeVars
  <2> QED BY <2>1 DEF AQ!Next
<1>4. ASSUME NEW b \in Brokers, stop(b) \/ \E l \in Slots : ReadFails(b, l) PROVE AQ!Next
  <2>1. Reject(ToSet(buffer[b])) /\ UNCHANGED <<storeVars, clock, mutation>>
    BY <1>4 DEF stop, ReadFails
  <2>2. \A s \in ToSet(buffer[b]) : outcome[s] = "pending"
    BY <1>0 DEF PlacesSound, BufferSound
  <2> QED BY <1>0, <2>1, <2>2, RejectRefuses
<1>5. ASSUME NEW b \in Brokers, Crash(b) PROVE AQ!Next
  <2> DEFINE D == {s \in Submissions : home[s] = b /\ outcome[s] = "pending"}
  <2>1. Reject(D) /\ UNCHANGED <<storeVars, clock, mutation>>
    BY <1>5 DEF Crash
  <2>2. D \in SUBSET Submissions /\ \A s \in D : outcome[s] = "pending"
    OBVIOUS
  <2> HIDE DEF D
  <2> QED BY <2>1, <2>2, RejectRefuses
<1>6. ASSUME NEW b \in Brokers, NEW l \in Slots, WriteFails(b, l) \/ ConflictGivesUp(b, l)
      PROVE  AQ!Next
  <2> DEFINE D == ToSet(loop[<<b, l>>].batch)
  <2>1. /\ Reject(D) /\ UNCHANGED <<storeVars, clock, mutation>>
        /\ loop[<<b, l>>].pc # "orphan"
    BY <1>6 DEF WriteFails, ConflictGivesUp, isConflict
  <2>2. D \in SUBSET Submissions /\ \A s \in D : outcome[s] = "pending"
    BY <1>0, <2>1 DEF PlacesSound, BatchSound
  <2> HIDE DEF D
  <2> QED BY <2>1, <2>2, RejectRefuses
<1>7. ASSUME NEW b \in Brokers, NEW l \in Slots, StoreWrite(b, l) \/ OrphanWrite(b, l)
      PROVE  AQ!Next \/ UNCHANGED AQ!vars
  <2>1. InFlight(loop[<<b, l>>]) /\ UNCHANGED <<clock, promiseVars>>
    BY <1>7 DEF StoreWrite, OrphanWrite, InFlight
  <2>2. CASE versionMatches(loop[<<b, l>>]) /\ Land(loop[<<b, l>>])
    BY <2>1, <2>2, LandingSteps
  <2>3. CASE UNCHANGED storeVars
    BY <2>1, <2>3, AbstractStutter DEF storeVars, promiseVars
  <2> QED BY <1>7, <2>2, <2>3 DEF StoreWrite, OrphanWrite
<1>8. ASSUME NEW b \in Brokers, NEW l \in Slots, Committed(b, l) PROVE AQ!Next
  <2> DEFINE lp == loop[<<b, l>>]
             D == ToSet(lp.batch)
  <2>1. D \in SUBSET Submissions /\ Landed(lp)
    BY <1>0, <1>8 DEF Committed, Landed
  <2>2. \A s \in D : /\ outcome[s] = "pending" /\ commits[s] = 1
                     /\ effect[s] = ResultOf(lp, s)
    BY <1>0, <2>1 DEF PlacesSound, BatchSound, Landed
  <2>3. /\ outcome' = [s \in Submissions |-> IF s \in D THEN "resolved" ELSE outcome[s]]
        /\ result' = [s \in Submissions |-> IF s \in D THEN ResultOf(lp, s) ELSE result[s]]
        /\ UNCHANGED <<store, commits, effect, clock, mutation>>
    BY <1>8 DEF Committed, Settle, storeVars
  <2> HIDE DEF D
  <2>4. result' = [s \in Submissions |-> IF s \in D THEN effect[s] ELSE result[s]]
    BY <2>2, <2>3
  <2>5. AQ!Answer(D)
    BY <2>2, <2>3, <2>4 DEF AQ!Answer, AQ!history
  <2> QED BY <2>1, <2>5 DEF AQ!Next
<1>9. ASSUME NEW b \in Brokers, NEW l \in Slots,
             \/ writeLoop(b, l) \/ StoreRead(b, l) \/ refreshCache(b, l)
             \/ ConflictBacksOff(b, l) \/ BackoffEnds(b, l)
      PROVE  UNCHANGED AQ!vars
  BY <1>9, AbstractStutter DEF writeLoop, StoreRead, refreshCache, ConflictBacksOff, BackoffEnds,
         storeVars, promiseVars
<1>10. ASSUME NEW b \in Brokers, ReadState(b) PROVE UNCHANGED AQ!vars
  BY <1>10, AbstractStutter DEF ReadState, storeVars, promiseVars
<1>11. CASE UNCHANGED vars
  BY <1>11, AbstractStutter DEF vars, storeVars, promiseVars
<1> QED
  BY <1>1, <1>2, <1>3, <1>4, <1>5, <1>6, <1>7, <1>8, <1>9, <1>10, <1>11 DEF Next

(* All the engines on one object are one queue to which whole batches are  *)
(* applied atomically, each mutation at most once and between its submit() *)
(* and its answer, with the result that is answered: for any number of     *)
(* brokers, write loops, retries and faults.                               *)
THEOREM EnginesImplementQueue == Spec => ImplementsAtomicQueue
  BY AbstractInit, AbstractNext, EngineInit, EngineNext, PTL
     DEF Spec, ImplementsAtomicQueue, AQ!Spec
=============================================================================
