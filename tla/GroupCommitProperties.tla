----------------------- MODULE GroupCommitProperties -----------------------
(***************************************************************************)
(* What the group-commit engine promises its callers and the queue.        *)
(***************************************************************************)
EXTENDS GroupCommit

Phases   == {"new", "reading", "up", "stopped", "failed", "crashed"}
Outcomes == {"new", "pending", "resolved", "rejected"}
LoopPcs  == {"idle", "reading", "read", "writing", "wrote", "backoff", "orphan"}

LoopOK(lp) ==
    /\ lp.pc \in LoopPcs
    /\ lp.batch \in Seq(Submissions)
    /\ lp.attempt \in 0..MaxRetries
    /\ lp.pc = "backoff" => lp.attempt < MaxRetries
    /\ lp.expected \in Nat
    /\ lp.answer \in Nat

(* Every control variable keeps its shape: versions are naturals, buffers   *)
(* and batches are sequences of submissions, attempts stay within           *)
(* maxRetries.  The queue state itself is left opaque.                      *)
TypeOK ==
    /\ store.version \in Nat
    /\ clock \in Nat
    /\ phase \in [Brokers -> Phases]
    /\ buffer \in [Brokers -> Seq(Submissions)]
    /\ armed \in [Brokers -> BOOLEAN]
    /\ DOMAIN cachedState = Brokers
    /\ cachedVersion \in [Brokers -> Nat]
    /\ DOMAIN loop = Brokers \X Slots
    /\ \A bl \in Brokers \X Slots : LoopOK(loop[bl])
    /\ outcome \in [Submissions -> Outcomes]
    /\ home \in [Submissions -> Brokers \cup {None}]
    /\ commits \in [Submissions -> Nat]

-----------------------------------------------------------------------------
(* The cache.                                                              *)

(* A cached state whose version is the stored one IS the stored state,     *)
(* whatever mix of reads, landed writes and delayed answers produced it:   *)
(* this is what makes the compare-and-swap on the cached version sound.    *)
CacheCoherent ==
    \A b \in Brokers :
        cachedVersion[b] = store.version /\ store.version # 0
            => cachedState[b] = store.state

(* The inductive form.  An answer that is under way to a loop is no newer   *)
(* than the store, and carries the stored state when it is as new; so it   *)
(* may replace the cache at any later time.                                *)
Answered(lp) == lp.pc = "read" \/ (lp.pc = "wrote" /\ lp.answer # 0)

VersionsSound ==
    /\ \A b \in Brokers :
         /\ cachedVersion[b] <= store.version
         /\ cachedVersion[b] = store.version /\ store.version # 0
                => cachedState[b] = store.state
    /\ \A bl \in Brokers \X Slots : Answered(loop[bl]) =>
         /\ loop[bl].answer <= store.version
         /\ loop[bl].answer = store.version => loop[bl].data = store.state

(* Readers of getCachedState (stats, job list) see a stale state at worst: *)
(* never a job that no landed write put into the queue.                    *)
SnapshotIsCommitted ==
    \A b \in Brokers :
        JobIds(cachedState[b]) \subseteq JobIds(store.state) \cup gone

-----------------------------------------------------------------------------
(* Submissions and the queue.                                              *)

Applied == {s \in Submissions : commits[s] # 0}

(* No retry, conflict, delayed answer or orphaned write applies a mutation *)
(* to the queue twice.                                                     *)
AppliedOnce == \A s \in Submissions : commits[s] <= 1

(* A resolved promise tells the truth: its mutation is in the queue's      *)
(* history, with the very result (ids, claimed job) the caller was given.  *)
AckedIsApplied ==
    \A s \in Submissions :
        outcome[s] = "resolved" => s \in Applied /\ result[s] = effect[s]

(* The inductive form.  A submission that is not settled is in one place   *)
(* only, the buffer or one batch of the broker it was made to, and has     *)
(* been applied exactly when that batch carries a landed write's answer.   *)
Landed(lp) == lp.pc = "wrote" /\ lp.answer # 0

BufferSound ==
    \A b \in Brokers : \A s \in ToSet(buffer[b]) :
        home[s] = b /\ outcome[s] = "pending" /\ commits[s] = 0

BatchSound ==
    \A b \in Brokers, l \in Slots : \A s \in ToSet(loop[<<b, l>>].batch) :
        /\ home[s] = b /\ s \notin ToSet(buffer[b])
        /\ loop[<<b, l>>].pc # "idle"
        /\ outcome[s] = IF loop[<<b, l>>].pc = "orphan" THEN "rejected" ELSE "pending"
        /\ IF Landed(loop[<<b, l>>])
           THEN commits[s] = 1 /\ effect[s] = ResultOf(loop[<<b, l>>], s)
           ELSE commits[s] = 0
        /\ \A k \in Slots \ {l} : s \notin ToSet(loop[<<b, k>>].batch)

SettledSound ==
    \A s \in Submissions :
        /\ commits[s] <= 1
        /\ outcome[s] = "new" => commits[s] = 0
        /\ outcome[s] = "resolved" => commits[s] = 1 /\ result[s] = effect[s]

PlacesSound == BufferSound /\ BatchSound /\ SettledSound

(* What a write that is under way carries: the pass over its batch of the   *)
(* state it expects to replace, taken at some time that has been.  Batches *)
(* have no submission twice, and no loop runs for an empty one.             *)
InFlight(lp) == lp.pc \in {"writing", "orphan"}

IsPassOf(lp, state, now) ==
    LET pass == applyBatch(state, Work(lp.batch, lp.attempt), now)
    IN lp.data = pass.state /\ lp.results = pass.results

PassSound ==
    \A bl \in Brokers \X Slots : InFlight(loop[bl]) =>
        /\ loop[bl].expected <= store.version
        /\ loop[bl].expected = store.version =>
               \E now \in 0..clock : IsPassOf(loop[bl], store.state, now)

BatchesDistinct ==
    /\ \A b \in Brokers : IsInjective(buffer[b])
    /\ \A bl \in Brokers \X Slots :
          /\ IsInjective(loop[bl].batch)
          /\ loop[bl].pc # "idle" => loop[bl].batch # <<>>

AppliedEnqueues == {s \in Applied : mutation[s].type = "enqueue"}
ClaimsOf(id) == {s \in Applied : mutation[s].type = "claim" /\ effect[s].claimedJob = id}
maxAttemptsById(id) == maxAttemptsOf(mutation[id[1]].jobs[id[3]])
CompletesOf(id) == {s \in Applied : mutation[s].type = "complete" /\ mutation[s].jobId = id}
EnqueuedIds == UNION {effect[s].enqueuedIds : s \in AppliedEnqueues}

(* No commit ever overwrites another one: each enqueued job is in the      *)
(* queue, or was completed, or was claimed as often as it may be; and one  *)
(* that has left the queue left it for good.                               *)
hasEnded(id) ==
    CompletesOf(id) # {} \/ Cardinality(ClaimsOf(id)) >= maxAttemptsById(id)
NoJobLost ==
    \A id \in EnqueuedIds : id \in JobIds(store.state) \/ (id \in gone /\ hasEnded(id))
NoResurrection == JobIds(store.state) \cap gone = {}

(* A job's attempts counter is the number of claims that were granted it,  *)
(* and the worker on record is the one of a granted claim, so two workers  *)
(* hold a job only after an expiry counted a new attempt.                  *)
AttemptsCountClaims ==
    \A i \in DOMAIN store.state.jobs :
        LET job == store.state.jobs[i]
        IN /\ job.attempts = Cardinality(ClaimsOf(job.id))
           /\ job.status = "in_progress" =>
                \E s \in ClaimsOf(job.id) : mutation[s].workerId = job.workerId

(* A job is run at most maxAttempts times, or once when it was enqueued    *)
(* with less than one (nothing refuses that).                              *)
atMost(job) == IF maxAttemptsOf(job) < 1 THEN 1 ELSE maxAttemptsOf(job)
AttemptsBounded ==
    \A i \in DOMAIN store.state.jobs :
        LET job == store.state.jobs[i]
        IN job.attempts <= atMost(job) - (IF job.status = "unclaimed" THEN 1 ELSE 0)

-----------------------------------------------------------------------------
(* What a step may never do.                                               *)

HolderKept(id) ==
    LET old == JobOf(store.state, id)
        new == JobOf(store'.state, id)
    IN old.status = "in_progress" =>
         \/ /\ id \in JobIds(store'.state) /\ new.status = "in_progress"
            /\ new.attempts = old.attempts
            /\ new.workerId = old.workerId /\ new.heartbeat >= old.heartbeat
         \/ clock - old.heartbeat > HeartbeatTimeout
         \/ \E s \in Submissions :
              /\ commits'[s] > commits[s]
              /\ mutation[s].type = "complete" /\ mutation[s].jobId = id
              /\ mutation[s].workerId = old.workerId

(* Expiry only takes a job from a worker whose last heartbeat is older     *)
(* than the timeout when the write lands; and while the worker holds it,   *)
(* the job's heartbeat never goes back, although passes of several loops   *)
(* and brokers took their `now` in a different order.                      *)
HolderKeepsJob == [][\A id \in JobIds(store.state) : HolderKept(id)]_vars

Expired(state, now) ==
    {id \in JobIds(state) : isStale(JobOf(state, id), now) /\ usedUp(JobOf(state, id))}

(* A commit completes the job, by a worker that a claim had granted it.    *)
CompletedNow(id) ==
    \E s, c \in Submissions :
        /\ commits'[s] > commits[s]
        /\ mutation'[s].type = "complete" /\ mutation'[s].jobId = id
        /\ commits'[c] # 0 /\ mutation'[c].type = "claim" /\ effect'[c].claimedJob = id
        /\ mutation'[c].workerId = mutation'[s].workerId

LeavingCounted(now) ==
    LET left == JobIds(store.state) \ JobIds(store'.state)
        done == left \ Expired(store.state, now)
    IN /\ Expired(store.state, now) \subseteq left
       /\ \A id \in done : CompletedNow(id)
       /\ store'.state.completedTotal = store.state.completedTotal + Cardinality(done)

(* A job leaves the queue only because its heartbeat expired when it had    *)
(* used up its attempts, or because a worker that was granted it completed *)
(* it; completedTotal grows by exactly the latter ones.  Expiry comes       *)
(* first, so that the completion of a job which the same commit drops does *)
(* not count; neither does one that is late or repeated, and one of the    *)
(* last permitted run does.                                                *)
CompletedCounted ==
    [][store'.state # store.state => \E now \in 0..clock : LeavingCounted(now)]_vars

-----------------------------------------------------------------------------
(* The abstract specification.                                             *)

AQ == INSTANCE AtomicQueue WITH queue <- store.state

(* All the engines on one object, with their caches, retries and delayed   *)
(* answers, are one queue to which whole batches are applied atomically.   *)
ImplementsAtomicQueue == AQ!Spec

-----------------------------------------------------------------------------
(* Progress.                                                               *)

(* A mutation never waits for the write loop in flight: whenever something *)
(* is buffered in a running engine, its timer is set.                      *)
NoLostWakeup ==
    \A b \in Brokers : running(b) /\ buffer[b] # <<>> => armed[b]

Live == {"reading", "read", "writing", "wrote", "backoff"}
Held(b) == ToSet(buffer[b])
              \cup UNION {ToSet(loop[<<b, l>>].batch) : l \in {k \in Slots : loop[<<b, k>>].pc \in Live}}

(* Whoever still waits for an answer is in the buffer or in a batch of a   *)
(* write loop of the broker it asked: nobody is forgotten.                 *)
PendingIsHeld ==
    \A s \in Submissions : outcome[s] = "pending" => s \in Held(home[s])

(* Every mutation that waits in a running engine is eventually committed   *)
(* or rejected, also when the engine stops or dies meanwhile.  (One that   *)
(* is submitted after stop() is buffered and stays there.)                 *)
EverySubmissionSettles ==
    \A s \in Submissions :
        outcome[s] = "pending" /\ running(home[s]) ~> outcome[s] \in {"resolved", "rejected"}
=============================================================================
