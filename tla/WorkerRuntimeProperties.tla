----------------------- MODULE WorkerRuntimeProperties -----------------------
(***************************************************************************)
(* What the worker promises.                                               *)
(***************************************************************************)
EXTENDS WorkerRuntime

JobIds0 == {JobIdOf(i) : i \in DOMAIN backlog}
AtWork == {"handling", "completing", "completed"}
Pcs == AtWork \cup {"idle", "claiming", "claimed", "discarding", "discarded", "reconnecting"}
busy(w, c, id) == call[<<w, c>>].pc \in AtWork /\ call[<<w, c>>].job = id

(* The state is well formed: what the maps hold for a job is a call that   *)
(* works on it, although two calls of a worker may work on one job.        *)
TypeOK ==
    /\ phase \in [Workers -> {"running", "stopping", "stopped", "dead"}]
    /\ activeJobs \in [Workers -> Nat]
    /\ \A w \in Workers : \A c \in Slots[w] :
         /\ call[<<w, c>>].pc \in Pcs
         /\ call[<<w, c>>].job \in JobIds0 \cup {None}
         /\ call[<<w, c>>].age \in 0..Delay
    /\ \A w \in Workers :
         /\ \A id \in DOMAIN abortControllers[w] : busy(w, abortControllers[w][id], id)
         /\ \A id \in DOMAIN heartbeatTimers[w] : busy(w, heartbeatTimers[w][id], id)
    /\ \A i \in intervals : i.age \in 0..(Interval + Delay)

(* activeJobs counts the jobs at work, on every way out of a call: a slot  *)
(* of the worker is neither leaked nor given away twice.                   *)
ActiveJobsCounted ==
    \A w \in Workers :
        activeJobs[w] = Cardinality({c \in Slots[w] : call[<<w, c>>].pc \in AtWork})

(* A heartbeat timer is set only for a call that still works on that job:  *)
(* nothing keeps the lease of a job whose calls have ended, even when the  *)
(* worker claimed one job twice and the maps forgot a call.                *)
NoStrayHeartbeats ==
    \A i \in intervals : busy(i.workerId, i.call, i.jobId)

(* A worker whose timers and requests are on time keeps its job: from the  *)
(* claim until the completion is applied the queue has it in progress for  *)
(* this worker, whatever other workers do, so nobody else runs it.         *)
PunctualKeepsJob ==
    \A w \in Workers \ Faulty : \A c \in Slots[w] :
        \/ call[<<w, c>>].pc \notin {"claimed", "handling", "completing"}
        \/ call[<<w, c>>].job = None
        \/ typeOf(call[<<w, c>>].job) \in Malformed \cup Missing
        \/ heldIndex(queue, call[<<w, c>>].job, w) # 0

(* Every job leaves the queue: completed, or dropped after its attempts,   *)
(* although workers stop, die, fail and lose requests, as long as one      *)
(* worker goes on.                                                         *)
EveryJobLeaves == <>(queue.jobs = <<>>)

(* stop() returns once the handlers at work have ended.                    *)
StopEnds ==
    \A w \in Workers : phase[w] = "stopping" ~> phase[w] \in {"stopped", "dead"}

(* A worker runs at most `concurrency` handlers.                           *)
ConcurrencyRespected ==
    \A w \in Workers : Cardinality({c \in Slots[w] : call[<<w, c>>].pc \in AtWork}) <= Concurrency
=============================================================================
