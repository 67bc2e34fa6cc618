----------------------------- MODULE QueueState -----------------------------
(***************************************************************************)
(* The contents of the queue object and the pure functions that transform  *)
(* them (packages/core/src/state.ts).  A state is                          *)
(*   [broker, brokerHeartbeat, jobs, completedTotal]                       *)
(* and a job is                                                            *)
(*   [id, type, status, workerId, heartbeat, attempts, maxAttempts].       *)
(* A job's payload and creation time are carried and never looked at, so   *)
(* they are left out.  None stands for undefined and null.                 *)
(***************************************************************************)
EXTENDS Integers, SequencesExt

CONSTANTS None,               \* an absent optional field
          DefaultMaxAttempts, \* DEFAULT_MAX_ATTEMPTS
          HeartbeatTimeout    \* DEFAULT_HEARTBEAT_TIMEOUT_MS, in clock ticks

ASSUME TimeoutAssumption == HeartbeatTimeout \in Nat
ASSUME AttemptsAssumption == DefaultMaxAttempts \in Int

emptyState == [broker |-> None, brokerHeartbeat |-> 0,
               jobs |-> <<>>, completedTotal |-> 0]

JobIds(state) == {state.jobs[i].id : i \in DOMAIN state.jobs}
JobOf(state, id) ==
    state.jobs[CHOOSE i \in DOMAIN state.jobs : state.jobs[i].id = id]

maxAttemptsOf(job) ==
    IF job.maxAttempts = None THEN DefaultMaxAttempts ELSE job.maxAttempts

matchesJobTypeFilter(job, jobTypes) ==
    jobTypes = {} \/ (job.type # None /\ job.type \in jobTypes)

-----------------------------------------------------------------------------
(* Each mutation returns the new state and the result its caller gets.     *)

\* crypto.randomUUID() never repeats: the ids come from a seed that every
\* application of a batch makes afresh, and the index of the new job.
enqueueJobs(state, specs, seed) ==
    LET job(i) == [id |-> Append(seed, i), type |-> specs[i].jobType,
                   status |-> "unclaimed", workerId |-> None,
                   heartbeat |-> None, attempts |-> 0,
                   maxAttempts |-> specs[i].maxAttempts]
    IN [state  |-> [state EXCEPT !.jobs = @ \o [i \in DOMAIN specs |-> job(i)]],
        result |-> [enqueuedIds |-> {Append(seed, i) : i \in DOMAIN specs}]]

claimJob(state, worker, jobTypes, now) ==
    LET idx == SelectInSeq(state.jobs, LAMBDA job :
                   job.status = "unclaimed" /\ matchesJobTypeFilter(job, jobTypes))
    IN IF idx = 0
       THEN [state |-> state, result |-> [claimedJob |-> None]]
       ELSE LET job == state.jobs[idx]
                updatedJob == [job EXCEPT !.status = "in_progress", !.workerId = worker,
                                          !.heartbeat = now, !.attempts = job.attempts + 1]
            IN [state |-> [state EXCEPT !.jobs[idx] = updatedJob],
                result |-> [claimedJob |-> job.id]]

\* The position of job `id`, held by `worker`; 0 when that is not so (any more).
heldIndex(state, id, worker) ==
    SelectInSeq(state.jobs, LAMBDA job :
        job.id = id /\ job.workerId = worker /\ job.status = "in_progress")

heartbeatJob(state, id, worker, now) ==
    LET idx == heldIndex(state, id, worker)
    IN IF idx = 0 THEN state ELSE [state EXCEPT !.jobs[idx].heartbeat = now]

\* Mutant: a completion is counted although the job is not the worker's.
CompleteAlwaysCounts(state, id, worker) ==
    LET idx == heldIndex(state, id, worker)
    IN [state EXCEPT !.jobs = IF idx = 0 THEN @ ELSE RemoveAt(@, idx),
                     !.completedTotal = @ + 1]

completeJob(state, id, worker) ==
    LET idx == heldIndex(state, id, worker)
    IN IF idx = 0 THEN state
       ELSE [state EXCEPT !.jobs = RemoveAt(@, idx), !.completedTotal = @ + 1]

registerBroker(state, address, timestamp) ==
    [state EXCEPT !.broker = address, !.brokerHeartbeat = timestamp]

applyMutation(state, m, seed, now) ==
    CASE m.type = "enqueue"   -> enqueueJobs(state, m.jobs, seed)
      [] m.type = "claim"     -> claimJob(state, m.workerId, m.jobTypes, now)
      [] m.type = "heartbeat" ->
           [state |-> heartbeatJob(state, m.jobId, m.workerId, now), result |-> <<>>]
      [] m.type = "complete"  ->
           [state |-> completeJob(state, m.jobId, m.workerId), result |-> <<>>]
      [] m.type = "register_broker" ->
           [state |-> registerBroker(state, m.brokerAddress, m.timestamp),
            result |-> <<>>]

-----------------------------------------------------------------------------
StaleAtTimeout(job, now) ==   \* mutant: >= for >
    /\ job.status = "in_progress"
    /\ job.heartbeat # None
    /\ now - job.heartbeat >= HeartbeatTimeout

isStale(job, now) ==
    /\ job.status = "in_progress"
    /\ job.heartbeat # None
    /\ now - job.heartbeat > HeartbeatTimeout

OneAttemptMore(job) == job.attempts > maxAttemptsOf(job)   \* mutant
usedUp(job) == job.attempts >= maxAttemptsOf(job)

\* Mutant: an expired job starts over with fresh attempts.
ExpiryForgetsAttempts(state, now) ==
    [state EXCEPT !.jobs = [i \in DOMAIN @ |->
        IF isStale(@[i], now)
        THEN [@[i] EXCEPT !.status = "unclaimed", !.workerId = None,
                          !.heartbeat = None, !.attempts = 0]
        ELSE @[i]]]

\* A stale job goes back to unclaimed with its attempts counted, or is dropped
\* when they are used up.
expireJob(kept, job, now) ==
    IF ~isStale(job, now) THEN Append(kept, job)
    ELSE IF usedUp(job) THEN kept
    ELSE Append(kept, [job EXCEPT !.status = "unclaimed",
                                  !.workerId = None, !.heartbeat = None])

expireHeartbeats(state, now) ==
    LET kept[i \in 0..Len(state.jobs)] ==
            IF i = 0 THEN <<>> ELSE expireJob(kept[i - 1], state.jobs[i], now)
    IN [state EXCEPT !.jobs = kept[Len(state.jobs)]]

-----------------------------------------------------------------------------
(* One pass over a drained batch: expiry first, then every mutation in     *)
(* order, all with the same `now`.  A batch is a sequence of               *)
(* [mutation, seed].                                                       *)

applyNext(pass, work, now) ==
    LET step == applyMutation(pass.state, work.mutation, work.seed, now)
    IN [state |-> step.state, results |-> Append(pass.results, step.result)]

applyBatch(state, batch, now) ==
    LET pass[i \in 0..Len(batch)] ==
            IF i = 0 THEN [state |-> expireHeartbeats(state, now), results |-> <<>>]
            ELSE applyNext(pass[i - 1], batch[i], now)
    IN pass[Len(batch)]
=============================================================================
