---------------------------- MODULE WorkerRuntime ----------------------------
(***************************************************************************)
(* The worker (packages/worker/src/worker.ts): it polls for jobs, and runs *)
(* the handler of each job it was granted while an interval timer sends    *)
(* heartbeats.  Its requests go through a client and a broker to the queue. *)
(* By GroupCommit a mutation is applied to the queue atomically, after an  *)
(* expiry pass, at some time between the call and its answer; when the     *)
(* call fails it may have been applied, or may be applied later.           *)
(*                                                                         *)
(* A call is one invocation of tryClaimAndProcess.  Time is told from the  *)
(* present: `now` is always 0, and a tick makes every timestamp one older. *)
(***************************************************************************)
EXTENDS QueueState, FiniteSets

CONSTANTS Workers,
          Faulty,      \* workers that may be slow, lose requests, stop or die
          Slots,       \* calls each worker may have in progress: 1..n, for each
          Concurrency,
          Handled,     \* the job types in `handlers`
          Missing,     \* those whose handler is undefined
          Malformed,   \* types whose payload does not pass its schema
          Backlogs,    \* job lists the queue may hold at the start
          Interval,    \* heartbeatIntervalMs, in ticks
          Delay        \* bound on how late a timer or a request is

ASSUME ConcurrencyAssumption == Concurrency \in Nat
ASSUME SlotsAssumption ==
    Slots \in [Workers -> SUBSET Nat] /\ \A w \in Workers : IsFiniteSet(Slots[w])
ASSUME BacklogsAssumption ==
    \A specs \in Backlogs : /\ specs \in Seq(ToSet(specs))
                            /\ \A i \in DOMAIN specs : specs[i].maxAttempts \in {None} \cup Int
ASSUME TimingAssumption == Interval \in Nat /\ Delay \in Nat /\ Faulty \subseteq Workers

VARIABLES
    backlog,          \* the jobs that were enqueued
    queue,
    phase,            \* running; stopping: stop() waits; stopped: it returned; dead
    call,             \* what each call does, its job, its signal, its time
    activeJobs,
    abortControllers, \* Map<JobId, ...>: the call whose controller is on record
    heartbeatTimers,  \* Map<JobId, ...>: the call whose timer is on record
    intervals,        \* the interval timers that are set
    sent              \* requests nobody waits for any more

Calls == UNION {{w} \X Slots[w] : w \in Workers}

workerVars == <<phase, activeJobs, abortControllers, heartbeatTimers, intervals>>
vars == <<backlog, queue, call, workerVars, sent>>

now == 0
Old == now - (HeartbeatTimeout + 1)   \* stale, however long since

JobIdOf(i) == <<"backlog", i>>
typeOf(id) == backlog[id[2]].jobType

NewCall(pc, id) == [pc |-> pc, job |-> id, aborted |-> FALSE, age |-> 0]
IdleCall == NewCall("idle", None)
NoEntries == [id \in {} |-> 0]

Init ==
    /\ backlog \in Backlogs
    /\ queue = enqueueJobs(emptyState, backlog, <<"backlog">>).state
    /\ phase = [w \in Workers |-> "running"]
    /\ call = [wc \in Calls |-> IdleCall]
    /\ activeJobs = [w \in Workers |-> 0]
    /\ abortControllers = [w \in Workers |-> NoEntries]
    /\ heartbeatTimers = [w \in Workers |-> NoEntries]
    /\ intervals = {}
    /\ sent = {}

running(w) == phase[w] = "running"
GoOn(w, c, pc) == call' = [call EXCEPT ![<<w, c>>].pc = pc, ![<<w, c>>].age = 0]

-----------------------------------------------------------------------------
(* The queue, as requests find it.                                         *)

applied(m) == applyBatch(queue, <<[mutation |-> m, seed |-> <<>>]>>, now)

claimBy(w) == [type |-> "claim", workerId |-> w, jobTypes |-> Handled]
heartbeatOf(w, id) == [type |-> "heartbeat", jobId |-> id, workerId |-> w]
completionOf(w, id) == [type |-> "complete", jobId |-> id, workerId |-> w]

Request(m) == [mutation |-> m, age |-> 0]

\* The request of a call, as long as it has not been applied.
unapplied(w, c) ==
    LET id == call[<<w, c>>].job IN
    CASE call[<<w, c>>].pc = "claiming" -> {Request(claimBy(w))}
      [] call[<<w, c>>].pc \in {"completing", "discarding"} -> {Request(completionOf(w, id))}
      [] OTHER -> {}

-----------------------------------------------------------------------------
(* Polling.  The poll timer is set exactly while the worker runs, and a    *)
(* poll with all jobs active does nothing; the free calls are all alike.   *)

mayPoll(w) == running(w) /\ activeJobs[w] < Concurrency

poll(w, c) ==
    /\ mayPoll(w)
    /\ call[<<w, c>>].pc = "idle"
    /\ \A d \in Slots[w] : d < c => call[<<w, d>>].pc # "idle"
    /\ call' = [call EXCEPT ![<<w, c>>] = NewCall("claiming", None)]
    /\ UNCHANGED <<backlog, queue, workerVars, sent>>

ClaimApplied(w, c) ==
    /\ call[<<w, c>>].pc = "claiming"
    /\ queue' = applied(claimBy(w)).state
    /\ call' = [call EXCEPT ![<<w, c>>] =
                  NewCall("claimed", applied(claimBy(w)).results[1].claimedJob)]
    /\ UNCHANGED <<backlog, workerVars, sent>>

\* The answer to a claim: no job, one with a bad payload, one without a handler,
\* or one to run.
hasJob(w, c) == call[<<w, c>>].pc = "claimed" /\ call[<<w, c>>].job # None

FindsNoJob(w, c) ==
    /\ call[<<w, c>>].pc = "claimed" /\ call[<<w, c>>].job = None
    /\ call' = [call EXCEPT ![<<w, c>>] = IdleCall]
    /\ UNCHANGED <<backlog, queue, workerVars, sent>>

FindsBadPayload(w, c) ==
    /\ hasJob(w, c) /\ typeOf(call[<<w, c>>].job) \in Malformed
    /\ GoOn(w, c, "discarding")
    /\ UNCHANGED <<backlog, queue, workerVars, sent>>

FindsNoHandler(w, c) ==
    /\ hasJob(w, c) /\ typeOf(call[<<w, c>>].job) \in Missing \ Malformed
    /\ call' = [call EXCEPT ![<<w, c>>] = IdleCall]
    /\ UNCHANGED <<backlog, queue, workerVars, sent>>

IntervalOf(w, c, n) ==
    [workerId |-> w, call |-> c, jobId |-> call[<<w, c>>].job, age |-> n]

With(map, w, id, c) ==
    [map EXCEPT ![w] = [k \in {id} \cup DOMAIN map[w] |-> IF k = id THEN c ELSE map[w][k]]]

StartsHandler(w, c) ==
    LET id == call[<<w, c>>].job IN
    /\ hasJob(w, c) /\ typeOf(id) \notin Missing \cup Malformed
    /\ GoOn(w, c, "handling")
    /\ activeJobs' = [activeJobs EXCEPT ![w] = @ + 1]
    /\ abortControllers' = With(abortControllers, w, id, c)
    /\ heartbeatTimers' = With(heartbeatTimers, w, id, c)
    /\ intervals' = intervals \cup {IntervalOf(w, c, 0)}
    /\ UNCHANGED <<backlog, queue, phase, sent>>

-----------------------------------------------------------------------------
(* A job at work.                                                          *)

Heartbeat(i) ==
    /\ i \in intervals
    /\ i.workerId \in Faulty \/ i.age >= Interval
    /\ intervals' = (intervals \ {i}) \cup {[i EXCEPT !.age = 0]}
    /\ sent' = sent \cup {Request(heartbeatOf(i.workerId, i.jobId))}
    /\ UNCHANGED <<backlog, queue, call, phase, activeJobs, abortControllers, heartbeatTimers>>

\* Mutant: the timer on record for the job is cleared, not the call's own.
ClearTimerOnRecord(w, c) ==
    {i \in intervals : i.workerId = w /\ i.jobId = call[<<w, c>>].job
                          /\ i.jobId \in DOMAIN heartbeatTimers[w]
                          /\ heartbeatTimers[w][i.jobId] = i.call}
ownInterval(w, c) == {i \in intervals : i.workerId = w /\ i.call = c}

Without(map, w, id) == [map EXCEPT ![w] = Restrict(@, DOMAIN @ \ {id})]

\* Mutant: the job stays in the maps.
FinallyKeepsEntries(w, c) ==
    /\ intervals' = intervals \ ownInterval(w, c)
    /\ activeJobs' = [activeJobs EXCEPT ![w] = @ - 1]
    /\ call' = [call EXCEPT ![<<w, c>>] = IdleCall]
    /\ UNCHANGED <<backlog, phase, abortControllers, heartbeatTimers>>

\* The finally block: the maps forget the job, whichever call they hold for it.
Finally(w, c) ==
    /\ intervals' = intervals \ ownInterval(w, c)
    /\ heartbeatTimers' = Without(heartbeatTimers, w, call[<<w, c>>].job)
    /\ abortControllers' = Without(abortControllers, w, call[<<w, c>>].job)
    /\ activeJobs' = [activeJobs EXCEPT ![w] = @ - 1]
    /\ call' = [call EXCEPT ![<<w, c>>] = IdleCall]
    /\ UNCHANGED <<backlog, phase>>

\* Mutant: the heartbeats end with the handler.
ReturnEndsHeartbeats(w, c) ==
    /\ call[<<w, c>>].pc = "handling"
    /\ GoOn(w, c, "completing")
    /\ intervals' = intervals \ ownInterval(w, c)
    /\ UNCHANGED <<backlog, queue, phase, activeJobs, abortControllers, heartbeatTimers, sent>>

HandlerReturns(w, c) ==
    /\ call[<<w, c>>].pc = "handling"
    /\ GoOn(w, c, "completing")
    /\ UNCHANGED <<backlog, queue, workerVars, sent>>

\* Mutants: a failed job stays counted, or goes on sending heartbeats.
ThrowForgetsCount(w, c) ==
    /\ call[<<w, c>>].pc = "handling"
    /\ call' = [call EXCEPT ![<<w, c>>] = IdleCall]
    /\ intervals' = intervals \ ownInterval(w, c)
    /\ heartbeatTimers' = Without(heartbeatTimers, w, call[<<w, c>>].job)
    /\ abortControllers' = Without(abortControllers, w, call[<<w, c>>].job)
    /\ UNCHANGED <<backlog, queue, phase, activeJobs, sent>>

ThrowKeepsHeartbeats(w, c) ==
    /\ call[<<w, c>>].pc = "handling"
    /\ call' = [call EXCEPT ![<<w, c>>] = IdleCall]
    /\ activeJobs' = [activeJobs EXCEPT ![w] = @ - 1]
    /\ abortControllers' = Without(abortControllers, w, call[<<w, c>>].job)
    /\ UNCHANGED <<backlog, queue, phase, heartbeatTimers, intervals, sent>>

\* A handler throws, on its own or when its signal is aborted: no completion.
HandlerThrows(w, c) ==
    /\ call[<<w, c>>].pc = "handling"
    /\ Finally(w, c)
    /\ UNCHANGED <<queue, sent>>

CompletionApplied(w, c) ==
    /\ call[<<w, c>>].pc \in {"completing", "discarding"}
    /\ queue' = applied(completionOf(w, call[<<w, c>>].job)).state
    /\ GoOn(w, c, IF call[<<w, c>>].pc = "completing" THEN "completed" ELSE "discarded")
    /\ UNCHANGED <<backlog, workerVars, sent>>

CompletionAnswered(w, c) ==
    /\ call[<<w, c>>].pc = "completed"
    /\ Finally(w, c)
    /\ UNCHANGED <<queue, sent>>

DiscardAnswered(w, c) ==
    /\ call[<<w, c>>].pc = "discarded"
    /\ call' = [call EXCEPT ![<<w, c>>] = IdleCall]
    /\ UNCHANGED <<backlog, queue, workerVars, sent>>

-----------------------------------------------------------------------------
(* Requests that fail at the client, whatever becomes of them later.       *)

Unanswered(w, c) == sent' = sent \cup unapplied(w, c)

CompletionFails(w, c) ==
    /\ w \in Faulty
    /\ call[<<w, c>>].pc \in {"completing", "completed"}
    /\ Unanswered(w, c)
    /\ Finally(w, c)
    /\ UNCHANGED queue

ClaimFails(w, c) ==
    /\ w \in Faulty
    /\ call[<<w, c>>].pc \in {"claiming", "claimed", "discarding", "discarded"}
    /\ Unanswered(w, c)
    /\ call' = [call EXCEPT ![<<w, c>>] = NewCall("reconnecting", None)]
    /\ UNCHANGED <<backlog, queue, workerVars>>

\* client.reconnect() is over, for better or worse.
Reconnected(w, c) ==
    /\ call[<<w, c>>].pc = "reconnecting"
    /\ call' = [call EXCEPT ![<<w, c>>] = IdleCall]
    /\ UNCHANGED <<backlog, queue, workerVars, sent>>

\* A request of the heartbeat timer, or of a call that gave it up, is applied...
SentApplied(r) ==
    /\ r \in sent
    /\ queue' = applied(r.mutation).state
    /\ sent' = sent \ {r}
    /\ UNCHANGED <<backlog, call, workerVars>>

\* ... or never arrives.
SentLost(r) ==
    /\ r \in sent /\ r.mutation.workerId \in Faulty
    /\ sent' = sent \ {r}
    /\ UNCHANGED <<backlog, queue, call, workerVars>>

-----------------------------------------------------------------------------
(* stop() aborts and clears what is on record, and waits for activeJobs.   *)

stop(w) ==
    /\ w \in Faulty /\ running(w)
    /\ phase' = [phase EXCEPT ![w] = "stopping"]
    /\ heartbeatTimers' = [heartbeatTimers EXCEPT ![w] = NoEntries]
    /\ intervals' = {i \in intervals : i.workerId = w => i.call \notin Range(heartbeatTimers[w])}
    /\ call' = [wc \in Calls |->
                  [call[wc] EXCEPT !.aborted = @ \/ (wc[1] = w /\ wc[2] \in Range(abortControllers[w]))]]
    /\ UNCHANGED <<backlog, queue, activeJobs, abortControllers, sent>>

StopReturns(w) ==
    /\ phase[w] = "stopping" /\ activeJobs[w] = 0
    /\ phase' = [phase EXCEPT ![w] = "stopped"]
    /\ UNCHANGED <<backlog, queue, call, activeJobs, abortControllers,
                   heartbeatTimers, intervals, sent>>

\* The process dies or exits; what it sent may still arrive.
Crash(w) ==
    /\ w \in Faulty /\ phase[w] # "dead"
    /\ phase' = [phase EXCEPT ![w] = "dead"]
    /\ sent' = sent \cup UNION {unapplied(w, c) : c \in Slots[w]}
    /\ call' = [wc \in Calls |-> IF wc[1] = w THEN IdleCall ELSE call[wc]]
    /\ activeJobs' = [activeJobs EXCEPT ![w] = 0]
    /\ abortControllers' = [abortControllers EXCEPT ![w] = NoEntries]
    /\ heartbeatTimers' = [heartbeatTimers EXCEPT ![w] = NoEntries]
    /\ intervals' = {i \in intervals : i.workerId # w}
    /\ UNCHANGED <<backlog, queue>>

-----------------------------------------------------------------------------
(* Time passes while nothing of a punctual worker is overdue.              *)

inTime ==
    /\ \A wc \in Calls : wc[1] \notin Faulty /\ hasJob(wc[1], wc[2]) => call[wc].age < Delay
    /\ \A i \in intervals : i.workerId \notin Faulty => i.age < Interval + Delay
    /\ \A r \in sent : r.mutation.workerId \notin Faulty => r.age < Delay

agedJob(job) ==
    IF job.heartbeat = None \/ job.heartbeat <= Old THEN job
    ELSE [job EXCEPT !.heartbeat = @ - 1]

older(w, n) == IF w \in Faulty THEN 0 ELSE n + 1

Tick ==
    /\ inTime
    /\ queue' = [queue EXCEPT !.jobs = [i \in DOMAIN @ |-> agedJob(@[i])]]
    /\ call' = [wc \in Calls |->
                  IF hasJob(wc[1], wc[2])
                  THEN [call[wc] EXCEPT !.age = older(wc[1], @)] ELSE call[wc]]
    /\ intervals' = {[i EXCEPT !.age = older(i.workerId, @)] : i \in intervals}
    /\ sent' = {[r EXCEPT !.age = older(r.mutation.workerId, @)] : r \in sent}
    /\ UNCHANGED <<backlog, phase, activeJobs, abortControllers, heartbeatTimers>>

Next ==
    \/ Tick
    \/ \E i \in intervals : Heartbeat(i)
    \/ \E r \in sent : SentApplied(r) \/ SentLost(r)
    \/ \E w \in Workers :
         \/ stop(w) \/ StopReturns(w) \/ Crash(w)
         \/ \E c \in Slots[w] :
              \/ poll(w, c) \/ ClaimApplied(w, c) \/ FindsNoJob(w, c)
              \/ FindsBadPayload(w, c) \/ FindsNoHandler(w, c) \/ StartsHandler(w, c)
              \/ HandlerReturns(w, c) \/ HandlerThrows(w, c)
              \/ CompletionApplied(w, c) \/ CompletionAnswered(w, c) \/ DiscardAnswered(w, c)
              \/ ClaimFails(w, c) \/ CompletionFails(w, c) \/ Reconnected(w, c)

Answers(w, c) ==
    \/ ClaimApplied(w, c) \/ FindsNoJob(w, c) \/ FindsBadPayload(w, c)
    \/ FindsNoHandler(w, c) \/ StartsHandler(w, c) \/ CompletionApplied(w, c)
    \/ CompletionAnswered(w, c) \/ DiscardAnswered(w, c)
    \/ ClaimFails(w, c) \/ CompletionFails(w, c) \/ Reconnected(w, c)

\* Clocks tick, polls are made, calls are answered or fail, handlers end; the
\* requests of a punctual worker arrive.
Fairness ==
    /\ WF_vars(Tick)
    /\ WF_vars(\E i \in intervals : i.workerId \notin Faulty /\ Heartbeat(i))
    /\ WF_vars(\E r \in sent : r.mutation.workerId \notin Faulty /\ SentApplied(r))
    /\ \A w \in Workers :
         /\ WF_vars(StopReturns(w))
         /\ \A c \in Slots[w] :
              /\ WF_vars(poll(w, c)) /\ WF_vars(Answers(w, c))
              /\ WF_vars(HandlerReturns(w, c) \/ HandlerThrows(w, c))

Spec == Init /\ [][Next]_vars
FairSpec == Spec /\ Fairness
=============================================================================
