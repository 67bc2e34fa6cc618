----------------------------- MODULE GroupCommit -----------------------------
(***************************************************************************)
(* The group-commit engine (packages/core/src/group-commit.ts): brokers    *)
(* buffer the mutations submitted to them, and a write loop applies a whole *)
(* buffer to the cached queue state and writes the result back with a       *)
(* compare-and-swap on the version of the one queue object in storage.      *)
(*                                                                         *)
(* A step of a broker is what its event loop runs from the completion of   *)
(* one timer or storage request to the next await.  A storage request is   *)
(* three events: it is issued, it takes effect in the store, its answer    *)
(* arrives; anything may happen between them.  One engine may have several  *)
(* write loops in flight: each occupies a slot.                             *)
(***************************************************************************)
EXTENDS QueueState, FiniteSets

CONSTANTS Brokers,      \* broker processes; a restarted one is a new element
          Slots,        \* write loops one engine may have in flight: 1..n
          Submissions,  \* calls of submit, 1..n, made in this order
          Workers,
          JobSpecs,     \* job lists a client may enqueue
          Filters,      \* sets of job types a claim may ask for
          RequestKinds, \* the mutation types that are submitted
          MaxRetries,
          MaxClock,     \* bound on the clock
          Faults        \* subset of {"read", "write", "stop", "crash"}

ASSUME SlotsAssumption == Slots \subseteq Nat
ASSUME SubmissionsAssumption == Submissions \subseteq Nat
ASSUME RetriesAssumption == MaxRetries \in Nat
ASSUME JobSpecsAssumption ==
    \A specs \in JobSpecs : /\ specs \in Seq(ToSet(specs))
                            /\ \A i \in DOMAIN specs : specs[i].maxAttempts \in {None} \cup Int
ASSUME JobIdsAssumption == None \notin Submissions \X (0..MaxRetries) \X Nat

VARIABLES
    store,          \* the queue object: [version, state], version 0: absent
    clock,          \* Date.now(), the same at every process
    phase,          \* where each broker process is in the engine's life
    buffer,         \* this.buffer: submissions waiting for a write loop
    armed,          \* this.loopTimer is set and has not fired
    cachedState,    \* this.cachedState
    cachedVersion,  \* this.cachedVersion, 0 for null
    loop,           \* the invocations of writeLoop
    mutation,       \* what each submission asks for
    home,           \* the broker it was submitted to
    outcome,        \* its promise: new, pending, resolved, rejected
    result,         \* what the promise was resolved with
    commits,        \* history: how many landed writes contained it
    effect,         \* history: its result in the write that landed
    gone            \* history: ids that were in the queue and left it

storeVars   == <<store, commits, effect, gone>>
engineVars  == <<phase, buffer, armed, cachedState, cachedVersion, loop>>
promiseVars == <<mutation, home, outcome, result>>
vars == <<storeVars, clock, engineVars, promiseVars>>

\* A write loop: its batch and attempt, the version it expects in the store, the
\* data and results of its pass, and the version the store answered (0: conflict).
NewLoop(pc, batch, n) ==
    [pc |-> pc, batch |-> batch, attempt |-> n, expected |-> 0,
     data |-> emptyState, results |-> <<>>, answer |-> 0]
IdleLoop == NewLoop("idle", <<>>, 0)

\* The loop lp, gone on to pc with an answer of the store.
At(pc, lp, data, answer) ==
    [pc |-> pc, batch |-> lp.batch, attempt |-> lp.attempt, expected |-> lp.expected,
     data |-> data, results |-> lp.results, answer |-> answer]

Init ==
    /\ store = [version |-> 0, state |-> emptyState]
    /\ clock = 0
    /\ phase = [b \in Brokers |-> "new"]
    /\ buffer = [b \in Brokers |-> <<>>]
    /\ armed = [b \in Brokers |-> FALSE]
    /\ cachedState = [b \in Brokers |-> emptyState]
    /\ cachedVersion = [b \in Brokers |-> 0]
    /\ loop = [bl \in Brokers \X Slots |-> IdleLoop]
    /\ mutation = [s \in Submissions |-> None]
    /\ home = [s \in Submissions |-> None]
    /\ outcome = [s \in Submissions |-> "new"]
    /\ result = [s \in Submissions |-> None]
    /\ commits = [s \in Submissions |-> 0]
    /\ effect = [s \in Submissions |-> None]
    /\ gone = {}

running(b) == phase[b] = "up"

-----------------------------------------------------------------------------
(* The promises of a set of submissions are settled together.              *)

Settle(S, verdict) ==
    outcome' = [s \in Submissions |-> IF s \in S THEN verdict ELSE outcome[s]]

Reject(S) == Settle(S, "rejected") /\ UNCHANGED result

-----------------------------------------------------------------------------
(* Starting: createIfNotExists, and a read when the object was there.      *)

Created == [version |-> 1, state |-> emptyState]

CreateState(b) ==
    /\ phase[b] = "new"
    /\ IF store.version = 0
       THEN /\ store' = Created
            /\ phase' = [phase EXCEPT ![b] = "up"]
            /\ armed' = [armed EXCEPT ![b] = TRUE]
            /\ cachedState' = [cachedState EXCEPT ![b] = emptyState]
            /\ cachedVersion' = [cachedVersion EXCEPT ![b] = 1]
       ELSE /\ phase' = [phase EXCEPT ![b] = "reading"]
            /\ UNCHANGED <<store, armed, cachedState, cachedVersion>>
    /\ UNCHANGED <<commits, effect, gone, clock, buffer, loop, promiseVars>>

ReadState(b) ==
    /\ phase[b] = "reading"
    /\ phase' = [phase EXCEPT ![b] = "up"]
    /\ armed' = [armed EXCEPT ![b] = TRUE]
    /\ cachedState' = [cachedState EXCEPT ![b] = store.state]
    /\ cachedVersion' = [cachedVersion EXCEPT ![b] = store.version]
    /\ UNCHANGED <<storeVars, clock, buffer, loop, promiseVars>>

\* The create or the read fails; a failed create may have reached the store.
StartFails(b) ==
    /\ "read" \in Faults
    /\ phase[b] \in {"new", "reading"}
    /\ phase' = [phase EXCEPT ![b] = "failed"]
    /\ store' \in IF store.version = 0 THEN {store, Created} ELSE {store}
    /\ UNCHANGED <<commits, effect, gone, clock, buffer, armed, cachedState,
                   cachedVersion, loop, promiseVars>>

-----------------------------------------------------------------------------
(* submit(): a handler or the broker's own heartbeat pushes a mutation and  *)
(* awaits its promise.  Workers report on the jobs they were told they hold. *)

Granted == {<<result[s].claimedJob, mutation[s].workerId>> :
              s \in {t \in Submissions :
                       /\ outcome[t] = "resolved"
                       /\ mutation[t].type = "claim"
                       /\ result[t].claimedJob # None}}

Requests(b) ==
    {m \in [type : {"enqueue"}, jobs : JobSpecs]
        \cup [type : {"claim"}, workerId : Workers, jobTypes : Filters]
        \cup {[type |-> kind, jobId |-> held[1], workerId |-> held[2]] :
                 kind \in {"heartbeat", "complete"}, held \in Granted}
        \cup {[type |-> "register_broker", brokerAddress |-> b, timestamp |-> clock]} :
     m.type \in RequestKinds}

\* A mutation that arrives to an empty buffer sets the timer to fire at once.
NeverKicks(b) == FALSE   \* mutant: the loop only polls
kicks(b) == running(b) /\ buffer[b] = <<>>

submit(b, s, m) ==
    /\ outcome[s] = "new"
    /\ \A t \in Submissions : t < s => outcome[t] # "new"
    /\ phase[b] \in {"up", "stopped"}
    /\ mutation' = [mutation EXCEPT ![s] = m]
    /\ home' = [home EXCEPT ![s] = b]
    /\ outcome' = [outcome EXCEPT ![s] = "pending"]
    /\ buffer' = [buffer EXCEPT ![b] = Append(@, s)]
    /\ armed' = [armed EXCEPT ![b] = @ \/ kicks(b)]
    /\ UNCHANGED <<storeVars, clock, phase, cachedState, cachedVersion, loop, result>>

-----------------------------------------------------------------------------
(* The write loop.                                                         *)

Work(batch, n) ==
    [i \in DOMAIN batch |-> [mutation |-> mutation[batch[i]], seed |-> <<batch[i], n>>]]

\* The n-th attempt at a batch on a state that was read at `version`, up to the
\* write it issues.
Attempt(batch, n, state, version) ==
    LET pass == applyBatch(state, Work(batch, n), clock)
    IN [pc |-> "writing", batch |-> batch, attempt |-> n, expected |-> version,
        data |-> pass.state, results |-> pass.results, answer |-> 0]

\* The head of the retry loop: without a cached version the object is read first.
NextAttempt(b, batch, n) ==
    IF cachedVersion[b] = 0
    THEN NewLoop("reading", batch, n)
    ELSE Attempt(batch, n, cachedState[b], cachedVersion[b])

\* writeLoop ends: it sets the timer for the next one while the engine runs.
EndLoop(b, l) ==
    /\ loop' = [loop EXCEPT ![<<b, l>>] = IdleLoop]
    /\ armed' = [armed EXCEPT ![b] = @ \/ running(b)]

\* The timer fires and a write loop drains the buffer; with an empty buffer it
\* only sets the timer again.  The free slots are interchangeable.
writeLoop(b, l) ==
    /\ running(b) /\ armed[b] /\ buffer[b] # <<>>
    /\ loop[<<b, l>>].pc = "idle"
    /\ \A k \in Slots : k < l => loop[<<b, k>>].pc # "idle"
    /\ armed' = [armed EXCEPT ![b] = FALSE]
    /\ loop' = [loop EXCEPT ![<<b, l>>] = NextAttempt(b, buffer[b], 0)]
    /\ buffer' = [buffer EXCEPT ![b] = <<>>]
    /\ UNCHANGED <<storeVars, clock, phase, cachedState, cachedVersion, promiseVars>>

StoreRead(b, l) ==
    /\ loop[<<b, l>>].pc = "reading"
    /\ loop' = [loop EXCEPT ![<<b, l>>] =
                 At("read", loop[<<b, l>>], store.state, store.version)]
    /\ UNCHANGED <<storeVars, clock, phase, buffer, armed, cachedState,
                   cachedVersion, promiseVars>>

\* The answer of the read replaces the cache, and the batch is applied to it.
refreshCache(b, l) ==
    LET lp == loop[<<b, l>>]
    IN /\ lp.pc = "read"
       /\ cachedState' = [cachedState EXCEPT ![b] = lp.data]
       /\ cachedVersion' = [cachedVersion EXCEPT ![b] = lp.answer]
       /\ loop' = [loop EXCEPT ![<<b, l>>] = Attempt(lp.batch, lp.attempt, lp.data, lp.answer)]
       /\ UNCHANGED <<storeVars, clock, phase, buffer, armed, promiseVars>>

\* processBuffer throws: writeLoop rejects what is in the buffer by now, and
\* nobody settles the batch that was drained from it.
ReadFails(b, l) ==
    /\ "read" \in Faults
    /\ loop[<<b, l>>].pc \in {"reading", "read"}
    /\ EndLoop(b, l)
    /\ Reject(ToSet(buffer[b]))
    /\ buffer' = [buffer EXCEPT ![b] = <<>>]
    /\ UNCHANGED <<storeVars, clock, phase, cachedState, cachedVersion, mutation, home>>

ResultOf(lp, s) == lp.results[CHOOSE i \in DOMAIN lp.batch : lp.batch[i] = s]

\* The compare-and-swap of the storage backend.
BlindWrite(lp) == TRUE   \* mutant: an unconditional put
versionMatches(lp) == store.version = lp.expected

\* The conditional write of a loop takes effect in the store.
Land(lp) ==
    /\ store' = [version |-> store.version + 1, state |-> lp.data]
    /\ commits' = [s \in Submissions |->
                     commits[s] + (IF s \in ToSet(lp.batch) THEN 1 ELSE 0)]
    /\ effect' = [s \in Submissions |->
                    IF s \in ToSet(lp.batch) THEN ResultOf(lp, s) ELSE effect[s]]
    /\ gone' = gone \cup (JobIds(store.state) \ JobIds(lp.data))

StoreWrite(b, l) ==
    LET lp == loop[<<b, l>>]
    IN /\ lp.pc = "writing"
       /\ IF versionMatches(lp)
          THEN /\ Land(lp)
               /\ loop' = [loop EXCEPT ![<<b, l>>] =
                              At("wrote", lp, lp.data, store.version + 1)]
          ELSE /\ loop' = [loop EXCEPT ![<<b, l>>] = At("wrote", lp, lp.data, 0)]
               /\ UNCHANGED storeVars
       /\ UNCHANGED <<clock, phase, buffer, armed, cachedState, cachedVersion, promiseVars>>

\* Mutant: the version is looked up after the write instead of taken from it.
CommittedLookup(b, l) ==
    LET lp == loop[<<b, l>>]
    IN /\ lp.pc = "wrote" /\ lp.answer # 0
       /\ cachedState' = [cachedState EXCEPT ![b] = lp.data]
       /\ cachedVersion' = [cachedVersion EXCEPT ![b] = store.version]
       /\ Settle(ToSet(lp.batch), "resolved")
       /\ result' = [s \in Submissions |->
                       IF s \in ToSet(lp.batch) THEN effect[s] ELSE result[s]]
       /\ EndLoop(b, l)
       /\ UNCHANGED <<storeVars, clock, phase, buffer, mutation, home>>

\* The write was acknowledged with the version it created.
Committed(b, l) ==
    LET lp == loop[<<b, l>>]
    IN /\ lp.pc = "wrote" /\ lp.answer # 0
       /\ cachedState' = [cachedState EXCEPT ![b] = lp.data]
       /\ cachedVersion' = [cachedVersion EXCEPT ![b] = lp.answer]
       /\ Settle(ToSet(lp.batch), "resolved")
       /\ result' = [s \in Submissions |->
                       IF s \in ToSet(lp.batch) THEN ResultOf(lp, s) ELSE result[s]]
       /\ EndLoop(b, l)
       /\ UNCHANGED <<storeVars, clock, phase, buffer, mutation, home>>

AnyErrorIsConflict(lp) == lp.pc = "wrote"   \* mutant: retry after a lost answer
isConflict(lp) == lp.pc = "wrote" /\ lp.answer = 0
OneRetryMore(lp) == lp.attempt <= MaxRetries   \* mutant
mayRetry(lp) == lp.attempt < MaxRetries

\* Mutant: the speculative state is kept for the readers of the cache.
ConflictKeepsData(b, l) ==
    LET lp == loop[<<b, l>>]
    IN /\ isConflict(lp) /\ mayRetry(lp)
       /\ cachedVersion' = [cachedVersion EXCEPT ![b] = 0]
       /\ cachedState' = [cachedState EXCEPT ![b] = lp.data]
       /\ loop' = [loop EXCEPT ![<<b, l>>] =
                                    NewLoop("backoff", lp.batch, lp.attempt)]
       /\ UNCHANGED <<storeVars, clock, phase, buffer, armed, promiseVars>>

\* CASConflictError: drop the cached version, keep the cached state for reads.
ConflictBacksOff(b, l) ==
    LET lp == loop[<<b, l>>]
    IN /\ isConflict(lp) /\ mayRetry(lp)
       /\ cachedVersion' = [cachedVersion EXCEPT ![b] = 0]
       /\ loop' = [loop EXCEPT ![<<b, l>>] =
                                    NewLoop("backoff", lp.batch, lp.attempt)]
       /\ UNCHANGED <<storeVars, clock, phase, buffer, armed, cachedState, promiseVars>>

\* Mutant: the callers are told it worked.
GivingUpResolves(b, l) ==
    LET lp == loop[<<b, l>>]
    IN /\ isConflict(lp) /\ ~mayRetry(lp)
       /\ cachedVersion' = [cachedVersion EXCEPT ![b] = 0]
       /\ EndLoop(b, l)
       /\ Settle(ToSet(lp.batch), "resolved")
       /\ UNCHANGED <<storeVars, clock, phase, buffer, cachedState, mutation, home, result>>

\* Mutant: the callers are told nothing.
GivingUpForgets(b, l) ==
    LET lp == loop[<<b, l>>]
    IN /\ isConflict(lp) /\ ~mayRetry(lp)
       /\ cachedVersion' = [cachedVersion EXCEPT ![b] = 0]
       /\ EndLoop(b, l)
       /\ UNCHANGED <<storeVars, clock, phase, buffer, cachedState, promiseVars>>

\* The conflict of the last attempt rejects the batch.
ConflictGivesUp(b, l) ==
    LET lp == loop[<<b, l>>]
    IN /\ isConflict(lp) /\ ~mayRetry(lp)
       /\ cachedVersion' = [cachedVersion EXCEPT ![b] = 0]
       /\ EndLoop(b, l)
       /\ Reject(ToSet(lp.batch))
       /\ UNCHANGED <<storeVars, clock, phase, buffer, cachedState, mutation, home>>

BackoffEnds(b, l) ==
    LET lp == loop[<<b, l>>]
    IN /\ lp.pc = "backoff"
       /\ loop' = [loop EXCEPT ![<<b, l>>] = NextAttempt(b, lp.batch, lp.attempt + 1)]
       /\ UNCHANGED <<storeVars, clock, phase, buffer, armed, cachedState,
                      cachedVersion, promiseVars>>

\* Any other error of the write rejects the batch, although the request may
\* have reached the store or may still do so ("orphan").
WriteFails(b, l) ==
    LET lp == loop[<<b, l>>]
    IN /\ "write" \in Faults
       /\ lp.pc \in {"writing", "wrote"}
       /\ loop' = [loop EXCEPT ![<<b, l>>] =
                     IF lp.pc = "writing"
                     THEN At("orphan", lp, lp.data, 0) ELSE IdleLoop]
       /\ armed' = [armed EXCEPT ![b] = @ \/ running(b)]
       /\ Reject(ToSet(lp.batch))
       /\ UNCHANGED <<storeVars, clock, phase, buffer, cachedState, cachedVersion,
                      mutation, home>>

\* A request whose sender gave up or died lands, is refused, or is lost.
OrphanWrite(b, l) ==
    LET lp == loop[<<b, l>>]
    IN /\ lp.pc = "orphan"
       /\ loop' = [loop EXCEPT ![<<b, l>>] = IdleLoop]
       /\ \/ versionMatches(lp) /\ Land(lp)
          \/ UNCHANGED storeVars
       /\ UNCHANGED <<clock, phase, buffer, armed, cachedState, cachedVersion, promiseVars>>

-----------------------------------------------------------------------------
(* stop() rejects what is buffered; a loop in flight runs on.              *)

\* Mutant: stop keeps what is buffered, and nobody will flush it.
StopForgets(b) ==
    /\ "stop" \in Faults
    /\ running(b)
    /\ phase' = [phase EXCEPT ![b] = "stopped"]
    /\ armed' = [armed EXCEPT ![b] = FALSE]
    /\ UNCHANGED <<storeVars, clock, buffer, cachedState, cachedVersion, loop, promiseVars>>

stop(b) ==
    /\ "stop" \in Faults
    /\ running(b)
    /\ phase' = [phase EXCEPT ![b] = "stopped"]
    /\ armed' = [armed EXCEPT ![b] = FALSE]
    /\ Reject(ToSet(buffer[b]))
    /\ buffer' = [buffer EXCEPT ![b] = <<>>]
    /\ UNCHANGED <<storeVars, clock, cachedState, cachedVersion, loop, mutation, home>>

\* The process dies: its callers' connections break, requests it sent may land.
Crash(b) ==
    /\ "crash" \in Faults
    /\ phase[b] \in {"reading", "up", "stopped"}
    /\ phase' = [phase EXCEPT ![b] = "crashed"]
    /\ armed' = [armed EXCEPT ![b] = FALSE]
    /\ buffer' = [buffer EXCEPT ![b] = <<>>]
    /\ loop' = [bl \in DOMAIN loop |->
                  IF bl[1] # b THEN loop[bl]
                  ELSE IF loop[bl].pc \in {"writing", "orphan"}
                       THEN At("orphan", loop[bl], loop[bl].data, 0) ELSE IdleLoop]
    /\ Reject({s \in Submissions : home[s] = b /\ outcome[s] = "pending"})
    /\ UNCHANGED <<storeVars, clock, cachedState, cachedVersion, mutation, home>>

Tick ==
    /\ clock < MaxClock
    /\ clock' = clock + 1
    /\ UNCHANGED <<storeVars, engineVars, promiseVars>>

Next ==
    \/ Tick
    \/ \E b \in Brokers :
         \/ CreateState(b) \/ ReadState(b) \/ StartFails(b)
         \/ stop(b) \/ Crash(b)
         \/ \E s \in Submissions : \E m \in Requests(b) : submit(b, s, m)
         \/ \E l \in Slots :
              \/ writeLoop(b, l)
              \/ StoreRead(b, l) \/ refreshCache(b, l) \/ ReadFails(b, l)
              \/ StoreWrite(b, l) \/ Committed(b, l) \/ WriteFails(b, l)
              \/ ConflictBacksOff(b, l) \/ ConflictGivesUp(b, l)
              \/ BackoffEnds(b, l) \/ OrphanWrite(b, l)

\* Timers fire and storage answers: every process keeps running until it crashes.
Fairness ==
    \A b \in Brokers :
        /\ WF_vars(CreateState(b)) /\ WF_vars(ReadState(b))
        /\ \A l \in Slots :
             /\ WF_vars(writeLoop(b, l))
             /\ WF_vars(StoreRead(b, l)) /\ WF_vars(refreshCache(b, l))
             /\ WF_vars(StoreWrite(b, l)) /\ WF_vars(Committed(b, l))
             /\ WF_vars(ConflictBacksOff(b, l)) /\ WF_vars(ConflictGivesUp(b, l))
             /\ WF_vars(BackoffEnds(b, l)) /\ WF_vars(OrphanWrite(b, l))

Spec == Init /\ [][Next]_vars
FairSpec == Spec /\ Fairness
=============================================================================
