------------------------- MODULE WorkerRuntimeProofs -------------------------
(***************************************************************************)
(* Proofs about the worker, for any workers, any number of calls and any   *)
(* backlog: its books are right, and a worker that is on time keeps the    *)
(* jobs it claimed.                                                        *)
(***************************************************************************)
EXTENDS WorkerRuntimeProperties, QueueStateProofs, FiniteSetTheorems

(***************************************************************************)
(* The inductive invariant.                                                *)
(***************************************************************************)
Phases == {"running", "stopping", "stopped", "dead"}
Discarding == {"discarding", "discarded"}
CallRecords == [pc : Pcs, job : JobIds0 \cup {None}, aborted : BOOLEAN, age : 0..Delay]

CallsSound ==
    /\ call \in [Calls -> CallRecords]
    /\ \A w \in Workers : \A c \in Slots[w] :
         call[<<w, c>>].pc \in Discarding => typeOf(call[<<w, c>>].job) \in Malformed

\* The calls of a state at work: all of a worker's, and one of them on a job.
atWork(calls, w) == {c \in Slots[w] : calls[<<w, c>>].pc \in AtWork}
works(calls, w, c, id) == calls[<<w, c>>].pc \in AtWork /\ calls[<<w, c>>].job = id

Entries(map, calls) ==
    /\ map = [w \in Workers |-> map[w]]
    /\ \A w \in Workers : \A id \in DOMAIN map[w] :
         map[w][id] \in Slots[w] /\ works(calls, w, map[w][id], id)

MapsSound == Entries(abortControllers, call) /\ Entries(heartbeatTimers, call)

CountsSound ==
    /\ activeJobs = [w \in Workers |-> activeJobs[w]]
    /\ \A w \in Workers : activeJobs[w] = Cardinality(atWork(call, w))

IsTimer(i, calls) ==
    /\ i = [workerId |-> i.workerId, call |-> i.call, jobId |-> i.jobId, age |-> i.age]
    /\ i.workerId \in Workers /\ i.call \in Slots[i.workerId]
    /\ i.age \in 0..(Interval + Delay)
    /\ works(calls, i.workerId, i.call, i.jobId)

TimersSound == \A i \in intervals : IsTimer(i, call)

\* A request of a punctual worker that nobody waits for is a heartbeat.
IsRequest(r) ==
    /\ r = [mutation |-> r.mutation, age |-> r.age]
    /\ r.mutation.workerId \in Workers
    /\ r.mutation.type \in {"claim", "complete", "heartbeat"}
    /\ r.age \in Nat
    /\ r.mutation.workerId \notin Faulty => r.mutation.type = "heartbeat" /\ r.age <= Delay

RequestsSound == \A r \in sent : IsRequest(r)

QueueSound ==
    /\ IsState(queue) /\ JobIds(queue) \subseteq JobIds0 /\ HeartbeatsPast(queue, now)

WorkerSound ==
    /\ phase \in [Workers -> Phases]
    /\ CallsSound /\ MapsSound /\ CountsSound /\ TimersSound /\ RequestsSound /\ QueueSound

(***************************************************************************)
(* Calls.                                                                  *)
(***************************************************************************)
LEMMA CallsAre ==
  /\ \A w \in Workers : \A c \in Slots[w] : <<w, c>> \in Calls
  /\ \A wc \in Calls : /\ wc[1] \in Workers /\ wc[2] \in Slots[wc[1]]
                       /\ wc = <<wc[1], wc[2]>>
<1>1. Calls = UNION {{w} \X Slots[w] : w \in Workers}
  BY DEF Calls
<1>2. ASSUME NEW w \in Workers, NEW c \in Slots[w] PROVE <<w, c>> \in Calls
  <2>1. <<w, c>> \in {w} \X Slots[w]
    OBVIOUS
  <2> QED BY <1>1, <2>1
<1>3. ASSUME NEW wc \in Calls
      PROVE  wc[1] \in Workers /\ wc[2] \in Slots[wc[1]] /\ wc = <<wc[1], wc[2]>>
  <2>1. PICK w \in Workers : wc \in {w} \X Slots[w]
    BY <1>1, <1>3
  <2> QED BY <2>1
<1> QED BY <1>2, <1>3

Sets(w, c, rec) == call' = [call EXCEPT ![<<w, c>>] = rec]

\* One call goes on as rec.
Turns(w, c, rec) ==
    /\ call' \in [Calls -> CallRecords] /\ rec \in CallRecords
    /\ \A v \in Workers : \A d \in Slots[v] :
         call'[<<v, d>>] = IF v = w /\ d = c THEN rec ELSE call[<<v, d>>]

LEMMA OneCall ==
  ASSUME call \in [Calls -> CallRecords], NEW w \in Workers, NEW c \in Slots[w],
         NEW rec \in CallRecords, Sets(w, c, rec)
  PROVE  Turns(w, c, rec)
<1> DEFINE R == CallRecords
<1>1. <<w, c>> \in Calls /\ \A v \in Workers : \A d \in Slots[v] : <<v, d>> \in Calls
  BY CallsAre
<1> HIDE DEF R
<1>2. call \in [Calls -> R] /\ rec \in R
  BY DEF R
<1>3. call' \in [Calls -> R]
  BY <1>1, <1>2 DEF Sets
<1>4. \A v \in Workers : \A d \in Slots[v] :
         call'[<<v, d>>] = IF v = w /\ d = c THEN rec ELSE call[<<v, d>>]
  BY <1>1, <1>2 DEF Sets
<1> QED BY <1>2, <1>3, <1>4 DEF Turns, R

LEMMA CallIs ==
  ASSUME CallsSound, NEW w \in Workers, NEW c \in Slots[w]
  PROVE  /\ call[<<w, c>>] \in CallRecords
         /\ call[<<w, c>>].pc \in Pcs /\ call[<<w, c>>].job \in JobIds0 \cup {None}
         /\ call[<<w, c>>].age \in 0..Delay
<1>1. call[<<w, c>>] \in CallRecords
  BY CallsAre DEF CallsSound
<1> QED BY <1>1 DEF CallRecords

LEMMA NewCallIs ==
  ASSUME NEW pc \in Pcs, NEW id \in JobIds0 \cup {None}
  PROVE  /\ NewCall(pc, id) \in CallRecords
         /\ NewCall(pc, id).pc = pc /\ NewCall(pc, id).job = id /\ NewCall(pc, id).age = 0
  BY TimingAssumption DEF NewCall, CallRecords

LEMMA BecomesNew ==
  ASSUME CallsSound, NEW w \in Workers, NEW c \in Slots[w],
         NEW pc \in Pcs, NEW id \in JobIds0 \cup {None},
         Sets(w, c, NewCall(pc, id))
  PROVE  \E rec : Turns(w, c, rec) /\ rec.pc = pc /\ rec.job = id /\ rec.age = 0
<1> DEFINE rec == NewCall(pc, id)
<1>1. rec \in CallRecords /\ rec.pc = pc /\ rec.job = id /\ rec.age = 0
  BY NewCallIs
<1> HIDE DEF rec
<1>2. call \in [Calls -> CallRecords] /\ Sets(w, c, rec)
  BY DEF CallsSound, rec
<1>3. Turns(w, c, rec)
  BY <1>1, <1>2, OneCall
<1> QED BY <1>1, <1>3

LEMMA BecomesIdle ==
  ASSUME CallsSound, NEW w \in Workers, NEW c \in Slots[w],
         Sets(w, c, IdleCall)
  PROVE  \E rec : Turns(w, c, rec) /\ rec.pc = "idle" /\ rec.job = None
<1>1. "idle" \in Pcs /\ None \in JobIds0 \cup {None}
  BY DEF Pcs
<1>2. Sets(w, c, NewCall("idle", None))
  BY DEF IdleCall
<1>3. \E rec : Turns(w, c, rec) /\ rec.pc = "idle" /\ rec.job = None /\ rec.age = 0
  BY <1>1, <1>2, BecomesNew
<1> QED BY <1>3

LEMMA GoesOn ==
  ASSUME CallsSound, NEW w \in Workers, NEW c \in Slots[w], NEW pc \in Pcs, GoOn(w, c, pc)
  PROVE  \E rec : Turns(w, c, rec) /\ rec.pc = pc /\ rec.job = call[<<w, c>>].job /\ rec.age = 0
<1> DEFINE old == call[<<w, c>>]
           rec == [old EXCEPT !.pc = pc, !.age = 0]
<1>1. call \in [Calls -> CallRecords] /\ <<w, c>> \in Calls /\ old \in CallRecords
  BY CallsAre, CallIs DEF CallsSound
<1>2. call' = [call EXCEPT ![<<w, c>>] = rec]
  <2>1. call' = [call EXCEPT ![<<w, c>>].pc = pc, ![<<w, c>>].age = 0]
    BY DEF GoOn
  <2> QED BY <1>1, <2>1
<1>3. rec \in CallRecords /\ rec.pc = pc /\ rec.job = old.job /\ rec.age = 0
  <2> DEFINE ids == JobIds0 \cup {None}
             ages == 0..Delay
  <2>1. old \in [pc : Pcs, job : ids, aborted : BOOLEAN, age : ages] /\ 0 \in ages
    BY <1>1, TimingAssumption DEF CallRecords
  <2> HIDE DEF ids, ages, old
  <2>2. /\ rec \in [pc : Pcs, job : ids, aborted : BOOLEAN, age : ages]
        /\ rec.pc = pc /\ rec.job = old.job /\ rec.age = 0
    BY <2>1
  <2> QED BY <2>2 DEF CallRecords, ids, ages
<1> HIDE DEF rec, old
<1>4. Turns(w, c, rec)
  BY <1>1, <1>2, <1>3, OneCall DEF Sets
<1> QED BY <1>3, <1>4 DEF old

(***************************************************************************)
(* Requests, applied to the queue.                                         *)
(***************************************************************************)
Kinds == {"claim", "complete", "heartbeat"}

\* The queue after the expiry pass of a request.
Expired(st) ==
    /\ IsState(st) /\ HeartbeatsPast(st, now) /\ JobIds(st) \subseteq JobIds(queue)
    /\ \A old \in JobsOf(queue) :
         old.status = "in_progress" /\ ~isStale(old, now) => HeldIn(st, old)

Lands(st, m) ==
    LET step == applyMutation(st, m, <<>>, now)
    IN applied(m).state = step.state /\ applied(m).results[1] = step.result

LEMMA ExpiryIds ==
  ASSUME NEW st, IsState(st), NEW time
  PROVE  JobIds(expireHeartbeats(st, time)) \subseteq JobIds(st)
<1> DEFINE st2 == expireHeartbeats(st, time)
<1>1. \A job \in JobsOf(st2) : \E old \in JobsOf(st) : job = survivor(old, time)
  BY ExpireHeartbeats
<1>2. \A old \in JobsOf(st) : survivor(old, time).id = old.id
  BY JobsAreJobs, SurvivorIs
<1> HIDE DEF st2
<1> QED BY <1>1, <1>2, JobsAndIds DEF st2

LEMMA AppliedIs ==
  ASSUME QueueSound, NEW m
  PROVE  \E st : Expired(st) /\ Lands(st, m)
<1> DEFINE work == [mutation |-> m, seed |-> <<>>]
           batch == <<work>>
           st == expireHeartbeats(queue, now)
<1>0. IsState(queue) /\ HeartbeatsPast(queue, now) /\ now \in Int
  BY DEF QueueSound, now
<1>1. Len(batch) = 1 /\ batch[1] = work /\ work.mutation = m /\ work.seed = <<>>
  OBVIOUS
<1> HIDE DEF batch, work
<1>2. PICK at : /\ at[0] = st /\ at[Len(batch)] = applyBatch(queue, batch, now).state
                /\ \A i \in 1..Len(batch) :
                     LET step == applyMutation(at[i - 1], batch[i].mutation, batch[i].seed, now)
                     IN at[i] = step.state /\ applyBatch(queue, batch, now).results[i] = step.result
  <2>1. Len(batch) \in Nat
    BY <1>1
  <2> QED BY <2>1, BatchSteps
<1>3. applied(m) = applyBatch(queue, batch, now)
  BY DEF applied, batch, work
<1>4. Lands(st, m)
  <2>1. 1 \in 1..Len(batch) /\ 1 - 1 = 0
    BY <1>1
  <2> DEFINE step == applyMutation(at[1 - 1], batch[1].mutation, batch[1].seed, now)
  <2>2. at[1] = step.state /\ applyBatch(queue, batch, now).results[1] = step.result
    BY <1>2, <2>1
  <2>3. step = applyMutation(st, m, <<>>, now)
    BY <1>1, <1>2, <2>1
  <2> HIDE DEF step
  <2> QED BY <1>1, <1>2, <1>3, <2>2, <2>3 DEF Lands
<1>5. Expired(st)
  <2>1. IsState(st)
    BY <1>0, ExpireHeartbeats
  <2>2. JobIds(st) \subseteq JobIds(queue)
    BY <1>0, ExpiryIds
  <2>3. /\ HeartbeatsPast(st, now)
        /\ \A old \in JobsOf(queue) :
             old.status = "in_progress" /\ ~isStale(old, now) => HeldIn(st, old)
    BY <1>0, ExpiryKeepsHolders
  <2> QED BY <2>1, <2>2, <2>3 DEF Expired
<1> QED BY <1>4, <1>5

LEMMA ClaimLands ==
  ASSUME NEW st, Expired(st), NEW m, m.type = "claim", Lands(st, m)
  PROVE  LET new == applied(m)
         IN \/ new.state = st /\ new.results[1].claimedJob = None
            \/ \E job \in JobsOf(st) :
                 /\ job.status = "unclaimed" /\ IsState(new.state)
                 /\ new.results[1].claimedJob = job.id
                 /\ JobsOf(new.state) =
                      (JobsOf(st) \ {job}) \cup {claimedBy(job, m.workerId, now)}
<1> DEFINE step == claimJob(st, m.workerId, m.jobTypes, now)
<1>1. applied(m).state = step.state /\ applied(m).results[1] = step.result
  BY DEF Lands, applyMutation
<1>2. IsState(st) /\ now \in Int
  BY DEF Expired, now
<1>3. \/ step.state = st /\ step.result.claimedJob = None
      \/ \E job \in JobsOf(st) :
           /\ job.status = "unclaimed" /\ step.result.claimedJob = job.id /\ IsState(step.state)
           /\ JobsOf(step.state) = (JobsOf(st) \ {job}) \cup {claimedBy(job, m.workerId, now)}
  BY <1>2, ClaimJob
<1> HIDE DEF step
<1> QED BY <1>1, <1>3

(* A request keeps the queue sound, and every job that is held and not     *)
(* stale, unless it completes the job.                                     *)
LEMMA RequestLands ==
  ASSUME NEW st, Expired(st), NEW m, m.type \in Kinds, Lands(st, m)
  PROVE  /\ IsState(applied(m).state) /\ HoldersKept(st, applied(m).state, m, now)
         /\ JobIds(applied(m).state) \subseteq JobIds(st)
<1> DEFINE new == applied(m).state
           worker == m.workerId
<1>1. IsState(st) /\ HeartbeatsPast(st, now) /\ now \in Int
  BY DEF Expired, now
<1>2. CASE m.type = "claim"
  <2> DEFINE step == claimJob(st, worker, m.jobTypes, now)
  <2>1. new = step.state
    BY <1>2 DEF Lands, applyMutation
  <2>2. HoldersKept(st, step.state, m, now)
    BY <1>1, ClaimKeepsHolders
  <2>3. \/ new = st
        \/ \E job \in JobsOf(st) :
             IsState(new) /\ JobsOf(new) = (JobsOf(st) \ {job}) \cup {claimedBy(job, worker, now)}
    BY <1>2, ClaimLands
  <2> HIDE DEF new, step, worker
  <2>4. ASSUME NEW job \in JobsOf(st), IsState(new),
               JobsOf(new) = (JobsOf(st) \ {job}) \cup {claimedBy(job, worker, now)}
        PROVE  JobIds(new) \subseteq JobIds(st)
    <3>1. claimedBy(job, worker, now).id = job.id
      BY <1>1, JobsAreJobs DEF claimedBy, IsJob
    <3>2. \A j \in JobsOf(new) : \E k \in JobsOf(st) : j.id = k.id
      BY <2>4, <3>1
    <3> QED BY <3>2, JobsAndIds
  <2>5. IsState(new) /\ JobIds(new) \subseteq JobIds(st)
    BY <1>1, <2>3, <2>4
  <2>6. HoldersKept(st, new, m, now)
    BY <2>1, <2>2
  <2> QED BY <2>5, <2>6 DEF new
<1>3. CASE m.type = "heartbeat"
  <2> DEFINE id == m.jobId
             step == heartbeatJob(st, id, worker, now)
  <2>1. new = step
    BY <1>3 DEF Lands, applyMutation
  <2>2. HoldersKept(st, step, m, now)
    BY <1>1, HeartbeatKeepsHolders
  <2> HIDE DEF id, worker
  <2>3. \/ step = st
        \/ \E job \in JobsOf(st) :
             IsState(step) /\ JobsOf(step) = (JobsOf(st) \ {job}) \cup {[job EXCEPT !.heartbeat = now]}
    BY <1>1, HeartbeatJob
  <2> HIDE DEF new, step
  <2>4. ASSUME NEW job \in JobsOf(st), IsState(step),
               JobsOf(step) = (JobsOf(st) \ {job}) \cup {[job EXCEPT !.heartbeat = now]}
        PROVE  JobIds(step) \subseteq JobIds(st)
    <3> DEFINE beaten == [job EXCEPT !.heartbeat = now]
    <3>1. beaten.id = job.id
      BY <1>1, JobsAreJobs DEF IsJob
    <3>a. JobsOf(step) = (JobsOf(st) \ {job}) \cup {beaten}
      BY <2>4
    <3> HIDE DEF beaten
    <3>2. \A j \in JobsOf(step) : \E k \in JobsOf(st) : j.id = k.id
      BY <3>a, <3>1
    <3> QED BY <3>2, JobsAndIds
  <2>5. IsState(step) /\ JobIds(step) \subseteq JobIds(st)
    BY <1>1, <2>3, <2>4
  <2> QED BY <2>1, <2>2, <2>5 DEF new
<1>4. CASE m.type = "complete"
  <2> DEFINE id == m.jobId
             step == completeJob(st, id, worker)
  <2>1. new = step
    BY <1>4 DEF Lands, applyMutation
  <2>2. HoldersKept(st, step, m, now)
    BY <1>1, <1>4, CompleteKeepsHolders
  <2> HIDE DEF id, worker
  <2>3. \/ step = st
        \/ \E job \in JobsOf(st) : IsState(step) /\ JobsOf(step) = JobsOf(st) \ {job}
    BY <1>1, CompleteJob
  <2> HIDE DEF new, step
  <2>4. ASSUME NEW job \in JobsOf(st), IsState(step), JobsOf(step) = JobsOf(st) \ {job}
        PROVE  JobIds(step) \subseteq JobIds(st)
    BY <2>4, JobsAndIds
  <2>5. IsState(step) /\ JobIds(step) \subseteq JobIds(st)
    BY <1>1, <2>3, <2>4
  <2> QED BY <2>1, <2>2, <2>5 DEF new
<1> QED BY <1>2, <1>3, <1>4 DEF Kinds

LEMMA RequestApplied ==
  ASSUME QueueSound, NEW m, m.type \in Kinds
  PROVE  LET new == applied(m).state
         IN /\ IsState(new) /\ JobIds(new) \subseteq JobIds0 /\ HeartbeatsPast(new, now)
            /\ \A old \in JobsOf(queue) :
                 old.status = "in_progress" /\ ~isStale(old, now) =>
                     HeldIn(new, old) \/ DoneBy(m, old)
<1> DEFINE new == applied(m).state
<1>1. PICK st : Expired(st) /\ Lands(st, m)
  BY AppliedIs
<1>2. IsState(new) /\ HoldersKept(st, new, m, now) /\ JobIds(new) \subseteq JobIds(st)
  BY <1>1, RequestLands
<1> HIDE DEF new
<1>3. ASSUME NEW old \in JobsOf(queue), old.status = "in_progress", ~isStale(old, now)
      PROVE  HeldIn(new, old) \/ DoneBy(m, old)
  <2>1. PICK job \in JobsOf(st) : StillHeld(old, job)
    BY <1>1, <1>3 DEF Expired, HeldIn
  <2>2. IsJob(old) /\ IsJob(job) /\ old.heartbeat \in Int
    BY <1>1, <1>3, JobsAreJobs DEF QueueSound, Expired, IsJob
  <2>3. HeldIn(new, job) \/ DoneBy(m, job)
    BY <1>2, <2>1 DEF HoldersKept, StillHeld
  <2>4. DoneBy(m, job) => DoneBy(m, old)
    BY <2>1 DEF DoneBy, StillHeld
  <2>5. ASSUME NEW k \in JobsOf(new), StillHeld(job, k) PROVE HeldIn(new, old)
    <3>1. IsJob(k)
      BY <1>2, JobsAreJobs
    <3>2. StillHeld(old, k)
      BY <2>1, <2>2, <2>5, <3>1, HeldTransitive
    <3> QED BY <3>2 DEF HeldIn
  <2> QED BY <2>3, <2>4, <2>5 DEF HeldIn
<1>4. JobIds(new) \subseteq JobIds0 /\ HeartbeatsPast(new, now)
  BY <1>1, <1>2 DEF Expired, QueueSound, HoldersKept
<1> QED BY <1>2, <1>3, <1>4 DEF new

(***************************************************************************)
(* The steps of a call.                                                    *)
(***************************************************************************)
\* A step that neither starts nor ends the work on a job.
Quiet(w, c, rec) ==
    /\ Turns(w, c, rec) /\ UNCHANGED <<backlog, workerVars>>
    /\ rec.pc \in AtWork <=> call[<<w, c>>].pc \in AtWork
    /\ rec.pc \in AtWork => rec.job = call[<<w, c>>].job
    /\ rec.pc \in Discarding => typeOf(rec.job) \in Malformed

QuietStep(w, c) ==
    \/ poll(w, c) \/ ClaimApplied(w, c) \/ FindsNoJob(w, c)
    \/ FindsBadPayload(w, c) \/ FindsNoHandler(w, c)
    \/ HandlerReturns(w, c) \/ CompletionApplied(w, c) \/ DiscardAnswered(w, c)
    \/ ClaimFails(w, c) \/ Reconnected(w, c)

EndStep(w, c) == HandlerThrows(w, c) \/ CompletionAnswered(w, c) \/ CompletionFails(w, c)

LEMMA ClaimedJobIs ==
  ASSUME QueueSound, NEW w
  PROVE  applied(claimBy(w)).results[1].claimedJob \in JobIds0 \cup {None}
<1> DEFINE m == claimBy(w)
           result == applied(m).results[1].claimedJob
<1>1. PICK st : Expired(st) /\ Lands(st, m)
  BY AppliedIs
<1>2. m.type = "claim"
  BY DEF claimBy
<1> HIDE DEF m
<1>3. result = None \/ \E job \in JobsOf(st) : result = job.id
  BY <1>1, <1>2, ClaimLands
<1>4. \A job \in JobsOf(st) : job.id \in JobIds0
  BY <1>1, JobsAreJobs DEF Expired, QueueSound
<1> HIDE DEF result
<1>5. result \in JobIds0 \cup {None}
  BY <1>3, <1>4
<1> QED BY <1>5 DEF result, m

(* The steps of a call that leave the worker's books alone.                *)
LEMMA QuietSteps ==
  ASSUME CallsSound, QueueSound, NEW w \in Workers, NEW c \in Slots[w], QuietStep(w, c)
  PROVE  \E rec : Quiet(w, c, rec)
<1> DEFINE old == call[<<w, c>>]
<1>1. /\ old.job \in JobIds0 \cup {None} /\ None \in JobIds0 \cup {None}
      /\ \A pc \in {"idle", "claiming", "claimed", "discarding", "discarded", "completing",
                    "completed", "reconnecting"} : pc \in Pcs
  BY CallIs DEF Pcs, AtWork
<1>2. CASE poll(w, c)
  <2>1. old.pc = "idle" /\ Sets(w, c, NewCall("claiming", None))
    BY <1>2 DEF poll, Sets
  <2>2. \E rec : Turns(w, c, rec) /\ rec.pc = "claiming" /\ rec.job = None /\ rec.age = 0
    BY <1>1, <2>1, BecomesNew
  <2>3. UNCHANGED <<backlog, workerVars>>
    BY <1>2 DEF poll
  <2> QED BY <2>1, <2>2, <2>3 DEF Quiet, AtWork, Discarding
<1>3. CASE ClaimApplied(w, c)
  <2> DEFINE id == applied(claimBy(w)).results[1].claimedJob
  <2>1. old.pc = "claiming" /\ Sets(w, c, NewCall("claimed", id))
    BY <1>3 DEF ClaimApplied, Sets
  <2>2. id \in JobIds0 \cup {None}
    BY ClaimedJobIs
  <2> HIDE DEF id
  <2>3. \E rec : Turns(w, c, rec) /\ rec.pc = "claimed" /\ rec.job = id /\ rec.age = 0
    BY <1>1, <2>1, <2>2, BecomesNew
  <2>4. UNCHANGED <<backlog, workerVars>>
    BY <1>3 DEF ClaimApplied
  <2> QED BY <2>1, <2>3, <2>4 DEF Quiet, AtWork, Discarding
<1>4. CASE FindsNoJob(w, c) \/ FindsNoHandler(w, c) \/ DiscardAnswered(w, c) \/ Reconnected(w, c)
  <2>1. /\ old.pc \in {"claimed", "discarded", "reconnecting"} /\ Sets(w, c, IdleCall)
        /\ UNCHANGED <<backlog, workerVars>>
    BY <1>4 DEF FindsNoJob, FindsNoHandler, DiscardAnswered, Reconnected, hasJob, Sets
  <2>2. \E rec : Turns(w, c, rec) /\ rec.pc = "idle" /\ rec.job = None
    BY <2>1, BecomesIdle
  <2> QED BY <2>1, <2>2 DEF Quiet, AtWork, Discarding
<1>5. CASE FindsBadPayload(w, c)
  <2>1. /\ old.pc = "claimed" /\ GoOn(w, c, "discarding") /\ typeOf(old.job) \in Malformed
        /\ UNCHANGED <<backlog, workerVars>>
    BY <1>5 DEF FindsBadPayload, hasJob
  <2>2. \E rec : Turns(w, c, rec) /\ rec.pc = "discarding" /\ rec.job = old.job /\ rec.age = 0
    BY <1>1, <2>1, GoesOn
  <2> QED BY <2>1, <2>2 DEF Quiet, AtWork, Discarding
<1>6. CASE HandlerReturns(w, c)
  <2>1. /\ old.pc = "handling" /\ GoOn(w, c, "completing") /\ UNCHANGED <<backlog, workerVars>>
    BY <1>6 DEF HandlerReturns
  <2>2. \E rec : Turns(w, c, rec) /\ rec.pc = "completing" /\ rec.job = old.job /\ rec.age = 0
    BY <1>1, <2>1, GoesOn
  <2> QED BY <2>1, <2>2 DEF Quiet, AtWork, Discarding
<1>7. CASE CompletionApplied(w, c) /\ old.pc = "completing"
  <2>1. GoOn(w, c, "completed") /\ UNCHANGED <<backlog, workerVars>>
    BY <1>7 DEF CompletionApplied
  <2>2. \E rec : Turns(w, c, rec) /\ rec.pc = "completed" /\ rec.job = old.job /\ rec.age = 0
    BY <1>1, <2>1, GoesOn
  <2> QED BY <1>7, <2>1, <2>2 DEF Quiet, AtWork, Discarding
<1>8. CASE CompletionApplied(w, c) /\ old.pc = "discarding"
  <2>1. GoOn(w, c, "discarded") /\ UNCHANGED <<backlog, workerVars>>
    BY <1>8 DEF CompletionApplied
  <2>2. \E rec : Turns(w, c, rec) /\ rec.pc = "discarded" /\ rec.job = old.job /\ rec.age = 0
    BY <1>1, <2>1, GoesOn
  <2>3. typeOf(old.job) \in Malformed
    BY <1>8 DEF CallsSound, Discarding
  <2> QED BY <1>8, <2>1, <2>2, <2>3 DEF Quiet, AtWork, Discarding
<1>9. CASE ClaimFails(w, c)
  <2>1. /\ old.pc \in {"claiming", "claimed", "discarding", "discarded"}
        /\ Sets(w, c, NewCall("reconnecting", None)) /\ UNCHANGED <<backlog, workerVars>>
    BY <1>9 DEF ClaimFails, Sets
  <2>2. \E rec : Turns(w, c, rec) /\ rec.pc = "reconnecting" /\ rec.job = None /\ rec.age = 0
    BY <1>1, <2>1, BecomesNew
  <2> QED BY <2>1, <2>2 DEF Quiet, AtWork, Discarding
<1>10. CompletionApplied(w, c) => old.pc = "completing" \/ old.pc = "discarding"
  BY DEF CompletionApplied
<1> QED
  BY <1>2, <1>3, <1>4, <1>5, <1>6, <1>7, <1>8, <1>9, <1>10 DEF QuietStep

(* A call changes only its own work.                                       *)
LEMMA TurnsCalls ==
  ASSUME CallsSound, NEW w \in Workers, NEW c \in Slots[w], NEW rec, Turns(w, c, rec),
         backlog' = backlog, rec.pc \in Discarding => typeOf(rec.job) \in Malformed
  PROVE  CallsSound'
<1>1. call' \in [Calls -> CallRecords]'
  BY DEF Turns, CallRecords, Pcs, JobIds0, Calls
<1>2. ASSUME NEW v \in Workers, NEW d \in Slots[v], call'[<<v, d>>].pc \in Discarding
      PROVE  typeOf(call[<<v, d>>].job)' \in Malformed
  BY <1>2 DEF Turns, CallsSound, typeOf
<1> QED BY <1>1, <1>2 DEF CallsSound

LEMMA QuietKeepsBusy ==
  ASSUME NEW w \in Workers, NEW c \in Slots[w], NEW rec, Quiet(w, c, rec)
  PROVE  \A v \in Workers : \A d \in Slots[v] :
            /\ call'[<<v, d>>].pc \in AtWork <=> call[<<v, d>>].pc \in AtWork
            /\ \A id : works(call', v, d, id) <=> works(call, v, d, id)
  BY DEF Quiet, Turns, works

LEMMA QuietKeepsBooks ==
  ASSUME CallsSound, MapsSound, CountsSound, TimersSound,
         NEW w \in Workers, NEW c \in Slots[w], NEW rec, Quiet(w, c, rec)
  PROVE  CallsSound' /\ MapsSound' /\ CountsSound' /\ TimersSound'
<1> USE DEF Quiet
<1>1. CallsSound'
  BY TurnsCalls
<1>2. /\ \A v \in Workers : \A d \in Slots[v] :
            /\ call'[<<v, d>>].pc \in AtWork <=> call[<<v, d>>].pc \in AtWork
            /\ \A id : works(call', v, d, id) <=> works(call, v, d, id)
      /\ activeJobs' = activeJobs /\ abortControllers' = abortControllers
      /\ heartbeatTimers' = heartbeatTimers /\ intervals' = intervals
  BY QuietKeepsBusy DEF workerVars
<1>3. MapsSound'
  BY <1>2 DEF MapsSound, Entries
<1>4. \A v \in Workers : atWork(call', v) = atWork(call, v)
  BY <1>2 DEF atWork
<1>5. CountsSound'
  BY <1>2, <1>4 DEF CountsSound
<1>6. TimersSound'
  BY <1>2 DEF TimersSound, IsTimer
<1> QED BY <1>1, <1>3, <1>5, <1>6

LEMMA OthersStayBusy ==
  ASSUME NEW w \in Workers, NEW c \in Slots[w], NEW rec, Turns(w, c, rec)
  PROVE  \A v \in Workers : \A d \in Slots[v] : ~(v = w /\ d = c) =>
            /\ call'[<<v, d>>].pc \in AtWork <=> call[<<v, d>>].pc \in AtWork
            /\ \A id : works(call', v, d, id) <=> works(call, v, d, id)
  BY DEF Turns, works

LEMMA DropEntry ==
  ASSUME NEW map, NEW S
  PROVE  /\ DOMAIN Restrict(map, DOMAIN map \ S) = DOMAIN map \ S
         /\ \A x \in DOMAIN map \ S : Restrict(map, DOMAIN map \ S)[x] = map[x]
  BY DEF Restrict

LEMMA SlotsAreFinite ==
  ASSUME NEW w \in Workers
  PROVE  /\ IsFiniteSet(atWork(call, w)) /\ Cardinality(atWork(call, w)) \in Nat
<1>1. IsFiniteSet(Slots[w]) /\ atWork(call, w) \subseteq Slots[w]
  BY SlotsAssumption DEF atWork
<1> QED BY <1>1, FS_Subset, FS_CardinalityType

Starts(w, c, rec) ==
    /\ Turns(w, c, rec) /\ backlog' = backlog
    /\ call[<<w, c>>].pc \notin AtWork
    /\ rec.pc = "handling" /\ rec.job = call[<<w, c>>].job /\ rec.age = 0

LEMMA StartingStarts ==
  ASSUME CallsSound, NEW w \in Workers, NEW c \in Slots[w], StartsHandler(w, c)
  PROVE  \E rec : Starts(w, c, rec)
<1>1. call[<<w, c>>].pc = "claimed" /\ GoOn(w, c, "handling") /\ backlog' = backlog
  BY DEF StartsHandler, hasJob
<1>2. "handling" \in Pcs
  BY DEF Pcs, AtWork
<1>3. \E rec : Turns(w, c, rec) /\ rec.pc = "handling" /\ rec.job = call[<<w, c>>].job /\ rec.age = 0
  BY <1>1, <1>2, GoesOn
<1> QED BY <1>1, <1>3 DEF Starts, AtWork

LEMMA StartedWorks ==
  ASSUME NEW w \in Workers, NEW c \in Slots[w], NEW rec, Starts(w, c, rec)
  PROVE  /\ works(call', w, c, call[<<w, c>>].job)
         /\ \A v \in Workers : \A d \in Slots[v] : \A id :
              works(call, v, d, id) => works(call', v, d, id) /\ ~(v = w /\ d = c)
<1>1. works(call', w, c, call[<<w, c>>].job) /\ call[<<w, c>>].pc \notin AtWork
  BY DEF Starts, Turns, works, AtWork
<1> SUFFICES ASSUME NEW v \in Workers, NEW d \in Slots[v], NEW id, works(call, v, d, id)
             PROVE  works(call', v, d, id) /\ ~(v = w /\ d = c)
  BY <1>1
<1>2. ~(v = w /\ d = c)
  BY <1>1 DEF works
<1> QED BY <1>2, OthersStayBusy DEF Starts

(* A map that gets an entry for the job a call starts on.                  *)
LEMMA StartKeepsEntries ==
  ASSUME NEW map, NEW new, NEW w \in Workers, NEW c \in Slots[w], NEW rec, Starts(w, c, rec),
         new = With(map, w, call[<<w, c>>].job, c),
         Entries(map, call)
  PROVE  Entries(new, call')
<1> DEFINE job == call[<<w, c>>].job
           entry == [k \in {job} \cup DOMAIN map[w] |-> IF k = job THEN c ELSE map[w][k]]
<1>1. new = [v \in Workers |-> IF v = w THEN entry ELSE map[v]]
  BY DEF With, Entries
<1>2. /\ DOMAIN entry = {job} \cup DOMAIN map[w]
      /\ \A x \in {job} \cup DOMAIN map[w] : entry[x] = IF x = job THEN c ELSE map[w][x]
  OBVIOUS
<1>3. works(call', w, c, job)
  BY StartedWorks
<1>4. \A v \in Workers : \A d \in Slots[v] : \A id : works(call, v, d, id) => works(call', v, d, id)
  BY StartedWorks
<1> HIDE DEF entry, job
<1>5. new = [v \in Workers |-> new[v]] /\ new[w] = entry
      /\ \A v \in Workers \ {w} : new[v] = map[v]
  BY <1>1
<1>6. \A id \in DOMAIN entry : entry[id] \in Slots[w] /\ works(call', w, entry[id], id)
  <2>1. \A id \in DOMAIN map[w] : map[w][id] \in Slots[w] /\ works(call', w, map[w][id], id)
    BY <1>4 DEF Entries
  <2> QED BY <1>2, <1>3, <2>1
<1>7. \A v \in Workers \ {w} : \A id \in DOMAIN map[v] :
         map[v][id] \in Slots[v] /\ works(call', v, map[v][id], id)
  BY <1>4 DEF Entries
<1> QED BY <1>5, <1>6, <1>7 DEF Entries

LEMMA StartKeepsBooks ==
  ASSUME CallsSound, MapsSound, CountsSound, TimersSound,
         NEW w \in Workers, NEW c \in Slots[w], StartsHandler(w, c)
  PROVE  CallsSound' /\ MapsSound' /\ CountsSound' /\ TimersSound'
<1>1. PICK rec : Starts(w, c, rec)
  BY StartingStarts
<1>2. CallsSound'
  BY <1>1, TurnsCalls DEF Starts, Discarding
<1> DEFINE job == call[<<w, c>>].job
<1>3. MapsSound'
  <2>1. /\ abortControllers' = With(abortControllers, w, job, c)
        /\ heartbeatTimers' = With(heartbeatTimers, w, job, c)
    BY DEF StartsHandler
  <2>2. Entries(abortControllers', call')
    BY <1>1, <2>1, StartKeepsEntries DEF MapsSound
  <2>3. Entries(heartbeatTimers', call')
    BY <1>1, <2>1, StartKeepsEntries DEF MapsSound
  <2> QED BY <2>2, <2>3 DEF MapsSound
<1>4. CountsSound'
  <2>1. activeJobs' = [activeJobs EXCEPT ![w] = @ + 1]
    BY DEF StartsHandler
  <2>2. c \notin atWork(call, w) /\ atWork(call', w) = atWork(call, w) \cup {c}
    BY <1>1, OthersStayBusy DEF Starts, Turns, atWork, AtWork
  <2>3. \A v \in Workers \ {w} : atWork(call', v) = atWork(call, v)
    BY <1>1, OthersStayBusy DEF Starts, atWork
  <2>4. Cardinality(atWork(call, w) \cup {c}) = Cardinality(atWork(call, w)) + 1
    BY <2>2, SlotsAreFinite, FS_AddElement
  <2>5. /\ activeJobs' = [v \in Workers |-> activeJobs'[v]]
        /\ activeJobs'[w] = activeJobs[w] + 1
        /\ \A v \in Workers \ {w} : activeJobs'[v] = activeJobs[v]
    BY <2>1 DEF CountsSound
  <2> QED BY <2>2, <2>3, <2>4, <2>5 DEF CountsSound
<1>5. TimersSound'
  <2> DEFINE new == [workerId |-> w, call |-> c, jobId |-> job, age |-> 0]
  <2>1. intervals' = intervals \cup {new}
    BY DEF StartsHandler, IntervalOf
  <2>2. works(call', w, c, job)
    BY <1>1, StartedWorks
  <2>3. /\ new = [workerId |-> new.workerId, call |-> new.call, jobId |-> new.jobId, age |-> new.age]
        /\ new.workerId = w /\ new.call = c /\ new.jobId = job /\ new.age = 0
    OBVIOUS
  <2> HIDE DEF new, job
  <2>4. 0 \in 0..(Interval + Delay)
    BY TimingAssumption
  <2>5. IsTimer(new, call')
    BY <2>2, <2>3, <2>4 DEF IsTimer
  <2>6. \A i \in intervals : IsTimer(i, call')
    BY <1>1, StartedWorks DEF TimersSound, IsTimer
  <2> QED BY <2>1, <2>5, <2>6 DEF TimersSound
<1> QED BY <1>2, <1>3, <1>4, <1>5

(* The finally block.                                                      *)
Ends(w, c, rec) ==
    /\ Turns(w, c, rec) /\ backlog' = backlog
    /\ call[<<w, c>>].pc \in AtWork /\ rec.pc = "idle"

LEMMA EndingEnds ==
  ASSUME CallsSound, NEW w \in Workers, NEW c \in Slots[w], EndStep(w, c)
  PROVE  Finally(w, c) /\ \E rec : Ends(w, c, rec)
<1>1. Finally(w, c) /\ call[<<w, c>>].pc \in AtWork
  BY DEF EndStep, HandlerThrows, CompletionAnswered, CompletionFails, AtWork
<1>2. Sets(w, c, IdleCall) /\ backlog' = backlog
  BY <1>1 DEF Finally, Sets
<1>3. \E rec : Turns(w, c, rec) /\ rec.pc = "idle" /\ rec.job = None
  BY <1>2, BecomesIdle
<1>4. \E rec : Ends(w, c, rec)
  BY <1>1, <1>2, <1>3 DEF Ends
<1> QED BY <1>1, <1>4

LEMMA EndKeepsEntries ==
  ASSUME NEW map, NEW new, NEW w \in Workers, NEW c \in Slots[w], NEW rec, Ends(w, c, rec),
         new = Without(map, w, call[<<w, c>>].job),
         Entries(map, call)
  PROVE  Entries(new, call')
<1> DEFINE job == call[<<w, c>>].job
           rest == Restrict(map[w], DOMAIN map[w] \ {job})
<1>1. new = [v \in Workers |-> IF v = w THEN rest ELSE map[v]]
  BY DEF Without, Entries
<1>2. /\ DOMAIN rest = DOMAIN map[w] \ {job}
      /\ \A x \in DOMAIN map[w] \ {job} : rest[x] = map[w][x]
  BY DropEntry
<1>3. \A id : works(call, w, c, id) => id = job
  BY DEF works
<1>4. \A v \in Workers : \A d \in Slots[v] : \A id :
         works(call, v, d, id) => works(call', v, d, id) \/ (v = w /\ id = job)
  BY <1>3, OthersStayBusy DEF Ends
<1> HIDE DEF rest, job
<1>5. new = [v \in Workers |-> new[v]] /\ new[w] = rest
      /\ \A v \in Workers \ {w} : new[v] = map[v]
  BY <1>1
<1>6. \A id \in DOMAIN rest : rest[id] \in Slots[w] /\ works(call', w, rest[id], id)
  BY <1>2, <1>4 DEF Entries
<1>7. \A v \in Workers \ {w} : \A id \in DOMAIN map[v] :
         map[v][id] \in Slots[v] /\ works(call', v, map[v][id], id)
  BY <1>4 DEF Entries
<1> QED BY <1>5, <1>6, <1>7 DEF Entries

LEMMA EndKeepsBooks ==
  ASSUME CallsSound, MapsSound, CountsSound, TimersSound,
         NEW w \in Workers, NEW c \in Slots[w], EndStep(w, c)
  PROVE  CallsSound' /\ MapsSound' /\ CountsSound' /\ TimersSound'
<1>0. Finally(w, c)
  BY EndingEnds
<1>1. PICK rec : Ends(w, c, rec)
  BY EndingEnds
<1>2. CallsSound'
  BY <1>1, TurnsCalls DEF Ends, Discarding
<1> DEFINE job == call[<<w, c>>].job
<1>3. MapsSound'
  <2>1. /\ abortControllers' = Without(abortControllers, w, job)
        /\ heartbeatTimers' = Without(heartbeatTimers, w, job)
    BY <1>0 DEF Finally
  <2>2. Entries(abortControllers', call')
    BY <1>1, <2>1, EndKeepsEntries DEF MapsSound
  <2>3. Entries(heartbeatTimers', call')
    BY <1>1, <2>1, EndKeepsEntries DEF MapsSound
  <2> QED BY <2>2, <2>3 DEF MapsSound
<1>4. CountsSound'
  <2>1. activeJobs' = [activeJobs EXCEPT ![w] = @ - 1]
    BY <1>0 DEF Finally
  <2>2. c \in atWork(call, w) /\ atWork(call', w) = atWork(call, w) \ {c}
    BY <1>1, OthersStayBusy DEF Ends, Turns, atWork, AtWork
  <2>3. \A v \in Workers \ {w} : atWork(call', v) = atWork(call, v)
    BY <1>1, OthersStayBusy DEF Ends, atWork
  <2>4. Cardinality(atWork(call, w) \ {c}) = Cardinality(atWork(call, w)) - 1
    BY <2>2, SlotsAreFinite, FS_RemoveElement
  <2>5. /\ activeJobs' = [v \in Workers |-> activeJobs'[v]]
        /\ activeJobs'[w] = activeJobs[w] - 1
        /\ \A v \in Workers \ {w} : activeJobs'[v] = activeJobs[v]
    BY <2>1 DEF CountsSound
  <2> QED BY <2>2, <2>3, <2>4, <2>5 DEF CountsSound
<1>5. TimersSound'
  <2>1. \A i \in intervals' : i \in intervals /\ ~(i.workerId = w /\ i.call = c)
    BY <1>0 DEF Finally, ownInterval
  <2> QED BY <1>1, <2>1, OthersStayBusy DEF Ends, TimersSound, IsTimer
<1> QED BY <1>2, <1>3, <1>4, <1>5

(***************************************************************************)
(* The other steps, and the books.                                         *)
(***************************************************************************)
\* Every call stays at the same work, on the same job.
SameWork ==
    \A v \in Workers : \A d \in Slots[v] :
        /\ call'[<<v, d>>].pc = call[<<v, d>>].pc /\ call'[<<v, d>>].job = call[<<v, d>>].job

LEMMA SameWorkIs ==
  ASSUME SameWork
  PROVE  /\ \A v \in Workers : \A d \in Slots[v] : \A id :
              works(call, v, d, id) => works(call', v, d, id)
         /\ \A v \in Workers : atWork(call', v) = atWork(call, v)
<1>1. ASSUME NEW v \in Workers, NEW d \in Slots[v], NEW id, works(call, v, d, id)
      PROVE  works(call', v, d, id)
  BY <1>1 DEF SameWork, works
<1>2. ASSUME NEW v \in Workers PROVE atWork(call', v) = atWork(call, v)
  BY <1>2 DEF SameWork, atWork
<1> QED BY <1>1, <1>2

LEMMA SameWorkCalls ==
  ASSUME CallsSound, SameWork, call' \in [Calls -> CallRecords], backlog' = backlog
  PROVE  CallsSound'
<1>1. call' \in [Calls -> CallRecords]'
  BY DEF CallRecords, JobIds0, Calls, Pcs
<1>2. ASSUME NEW v \in Workers, NEW d \in Slots[v], call'[<<v, d>>].pc \in Discarding
      PROVE  typeOf(call[<<v, d>>].job)' \in Malformed
  BY <1>2 DEF SameWork, CallsSound, typeOf
<1> QED BY <1>1, <1>2 DEF CallsSound

LEMMA SameWorkEntries ==
  ASSUME SameWork, NEW map, Entries(map, call)
  PROVE  Entries(map, call')
  BY SameWorkIs DEF Entries

LEMMA NoEntriesIs == DOMAIN NoEntries = {}
  BY DEF NoEntries

LEMMA ClearedEntries ==
  ASSUME NEW map, NEW calls, Entries(map, calls), NEW w \in Workers
  PROVE  Entries([map EXCEPT ![w] = NoEntries], calls)
<1> DEFINE new == [map EXCEPT ![w] = NoEntries]
<1>1. new = [v \in Workers |-> IF v = w THEN NoEntries ELSE map[v]]
  BY DEF Entries
<1> HIDE DEF new
<1>2. new = [v \in Workers |-> new[v]] /\ new[w] = NoEntries
      /\ \A v \in Workers \ {w} : new[v] = map[v]
  BY <1>1
<1>3. \A v \in Workers : \A id \in DOMAIN new[v] :
         new[v][id] \in Slots[v] /\ works(calls, v, new[v][id], id)
  BY <1>2, NoEntriesIs DEF Entries
<1>4. Entries(new, calls)
  BY <1>2, <1>3 DEF Entries
<1> QED BY <1>4 DEF new

LEMMA HeartbeatKeepsBooks ==
  ASSUME CallsSound, MapsSound, CountsSound, TimersSound, NEW i \in intervals, Heartbeat(i)
  PROVE  CallsSound' /\ MapsSound' /\ CountsSound' /\ TimersSound'
<1>1. /\ call' = call /\ activeJobs' = activeJobs /\ abortControllers' = abortControllers
      /\ heartbeatTimers' = heartbeatTimers /\ backlog' = backlog
  BY DEF Heartbeat
<1>2. CallsSound' /\ MapsSound' /\ CountsSound'
  <2>1. CallsSound'
    BY <1>1 DEF CallsSound, typeOf, CallRecords, JobIds0, Pcs, Calls
  <2> QED BY <1>1, <2>1 DEF MapsSound, CountsSound
<1>3. TimersSound'
  <2> DEFINE new == [i EXCEPT !.age = 0]
  <2>1. intervals' = (intervals \ {i}) \cup {new} /\ IsTimer(i, call)
    BY DEF Heartbeat, TimersSound
  <2>2. IsTimer(new, call)
    <3>1. /\ i = [workerId |-> i.workerId, call |-> i.call, jobId |-> i.jobId, age |-> i.age]
          /\ 0 \in 0..(Interval + Delay)
      BY <2>1, TimingAssumption DEF IsTimer
    <3>2. new = [workerId |-> i.workerId, call |-> i.call, jobId |-> i.jobId, age |-> 0]
      BY <3>1
    <3> HIDE DEF new
    <3>3. /\ new.workerId = i.workerId /\ new.call = i.call /\ new.jobId = i.jobId /\ new.age = 0
          /\ new = [workerId |-> new.workerId, call |-> new.call, jobId |-> new.jobId,
                    age |-> new.age]
      BY <3>2
    <3> QED BY <2>1, <3>1, <3>3 DEF IsTimer
  <2> HIDE DEF new
  <2> QED BY <1>1, <2>1, <2>2 DEF TimersSound
<1> QED BY <1>2, <1>3

LEMMA StopKeepsBooks ==
  ASSUME CallsSound, MapsSound, CountsSound, TimersSound, NEW w \in Workers, stop(w)
  PROVE  CallsSound' /\ MapsSound' /\ CountsSound' /\ TimersSound'
<1> DEFINE aborts(wc) == call[wc].aborted \/ (wc[1] = w /\ wc[2] \in Range(abortControllers[w]))
           new(wc) == [call[wc] EXCEPT !.aborted = aborts(wc)]
<1>1. /\ call' = [wc \in Calls |-> new(wc)]
      /\ activeJobs' = activeJobs /\ abortControllers' = abortControllers
      /\ heartbeatTimers' = [heartbeatTimers EXCEPT ![w] = NoEntries] /\ backlog' = backlog
      /\ intervals' \subseteq intervals
  BY DEF stop
<1>2. \A wc \in Calls : /\ new(wc) \in CallRecords
                        /\ new(wc).pc = call[wc].pc /\ new(wc).job = call[wc].job
  <2> TAKE wc \in Calls
  <2> DEFINE ids == JobIds0 \cup {None}
             ages == 0..Delay
             old == call[wc]
             flag == aborts(wc)
  <2>1. old \in [pc : Pcs, job : ids, aborted : BOOLEAN, age : ages] /\ flag \in BOOLEAN
    BY DEF CallsSound, CallRecords
  <2> HIDE DEF ids, ages, old, aborts, flag
  <2>2. /\ [old EXCEPT !.aborted = flag] \in [pc : Pcs, job : ids, aborted : BOOLEAN, age : ages]
        /\ [old EXCEPT !.aborted = flag].pc = old.pc /\ [old EXCEPT !.aborted = flag].job = old.job
    BY <2>1
  <2> QED BY <2>2 DEF CallRecords, ids, ages, old, flag
<1> HIDE DEF new
<1>3. call' \in [Calls -> CallRecords]
  BY <1>1, <1>2
<1>4. SameWork
  BY <1>1, <1>2, CallsAre DEF SameWork
<1>5. CallsSound'
  BY <1>1, <1>3, <1>4, SameWorkCalls
<1>6. MapsSound'
  BY <1>1, <1>4, SameWorkEntries, ClearedEntries DEF MapsSound
<1>7. CountsSound'
  BY <1>1, <1>4, SameWorkIs DEF CountsSound
<1>8. TimersSound'
  BY <1>1, <1>4, SameWorkIs DEF TimersSound, IsTimer
<1> QED BY <1>5, <1>6, <1>7, <1>8

LEMMA CrashKeepsBooks ==
  ASSUME CallsSound, MapsSound, CountsSound, TimersSound, NEW w \in Workers, Crash(w)
  PROVE  CallsSound' /\ MapsSound' /\ CountsSound' /\ TimersSound'
<1>1. /\ call' = [wc \in Calls |-> IF wc[1] = w THEN IdleCall ELSE call[wc]]
      /\ activeJobs' = [activeJobs EXCEPT ![w] = 0]
      /\ abortControllers' = [abortControllers EXCEPT ![w] = NoEntries]
      /\ heartbeatTimers' = [heartbeatTimers EXCEPT ![w] = NoEntries] /\ backlog' = backlog
      /\ intervals' = {i \in intervals : i.workerId # w}
  BY DEF Crash
<1>2. IdleCall \in CallRecords /\ IdleCall.pc = "idle"
  <2>1. "idle" \in Pcs /\ None \in JobIds0 \cup {None}
    BY DEF Pcs
  <2> QED BY <2>1, NewCallIs DEF IdleCall
<1>3. call' \in [Calls -> CallRecords]
  BY <1>1, <1>2 DEF CallsSound
<1>4. \A v \in Workers : \A d \in Slots[v] :
         call'[<<v, d>>] = IF v = w THEN IdleCall ELSE call[<<v, d>>]
  BY <1>1, CallsAre
<1>5. CallsSound'
  <2>1. call' \in [Calls -> CallRecords]'
    BY <1>1, <1>3 DEF CallRecords, JobIds0, Calls, Pcs
  <2>2. ASSUME NEW v \in Workers, NEW d \in Slots[v], call'[<<v, d>>].pc \in Discarding
        PROVE  typeOf(call[<<v, d>>].job)' \in Malformed
    <3>1. v # w /\ call'[<<v, d>>] = call[<<v, d>>]
      BY <1>2, <1>4, <2>2 DEF Discarding
    <3> QED BY <1>1, <2>2, <3>1 DEF CallsSound, typeOf
  <2> QED BY <2>1, <2>2 DEF CallsSound
<1>6. \A v \in Workers \ {w} : \A d \in Slots[v] : \A id :
         works(call, v, d, id) => works(call', v, d, id)
  BY <1>4 DEF works
<1>7. ASSUME NEW map, Entries(map, call)
      PROVE  Entries([map EXCEPT ![w] = NoEntries], call')
  <2> DEFINE new == [map EXCEPT ![w] = NoEntries]
  <2>1. Entries(new, call)
    BY <1>7, ClearedEntries
  <2>2. DOMAIN new[w] = {}
    BY <1>7, NoEntriesIs DEF Entries
  <2> HIDE DEF new
  <2>3. Entries(new, call')
    BY <1>6, <2>1, <2>2 DEF Entries
  <2> QED BY <2>3 DEF new
<1>8. MapsSound'
  BY <1>1, <1>7 DEF MapsSound
<1>9. CountsSound'
  <2>1. atWork(call', w) = {}
    BY <1>2, <1>4 DEF atWork, AtWork
  <2>2. \A v \in Workers \ {w} : atWork(call', v) = atWork(call, v)
    BY <1>4 DEF atWork
  <2>3. /\ activeJobs' = [v \in Workers |-> activeJobs'[v]] /\ activeJobs'[w] = 0
        /\ \A v \in Workers \ {w} : activeJobs'[v] = activeJobs[v]
    BY <1>1 DEF CountsSound
  <2> QED BY <2>1, <2>2, <2>3, FS_EmptySet DEF CountsSound
<1>10. TimersSound'
  BY <1>1, <1>6 DEF TimersSound, IsTimer
<1> QED BY <1>5, <1>8, <1>9, <1>10

LEMMA TickKeepsBooks ==
  ASSUME CallsSound, MapsSound, CountsSound, TimersSound, Tick
  PROVE  CallsSound' /\ MapsSound' /\ CountsSound' /\ TimersSound'
<1> DEFINE new(wc) == IF hasJob(wc[1], wc[2])
                      THEN [call[wc] EXCEPT !.age = older(wc[1], @)] ELSE call[wc]
<1>1. /\ call' = [wc \in Calls |-> new(wc)]
      /\ activeJobs' = activeJobs /\ abortControllers' = abortControllers
      /\ heartbeatTimers' = heartbeatTimers /\ backlog' = backlog
      /\ intervals' = {[i EXCEPT !.age = older(i.workerId, @)] : i \in intervals}
      /\ inTime
  BY DEF Tick
<1>2. \A wc \in Calls : /\ new(wc) \in CallRecords
                        /\ new(wc).pc = call[wc].pc /\ new(wc).job = call[wc].job
  <2> TAKE wc \in Calls
  <2> DEFINE ids == JobIds0 \cup {None}
             ages == 0..Delay
             old == call[wc]
             age == older(wc[1], old.age)
  <2>1. old \in [pc : Pcs, job : ids, aborted : BOOLEAN, age : ages]
    BY DEF CallsSound, CallRecords
  <2>2. hasJob(wc[1], wc[2]) => age \in ages
    <3>1. old.age \in Nat /\ old.age <= Delay /\ Delay \in Nat
      BY <2>1, TimingAssumption
    <3>2. hasJob(wc[1], wc[2]) => wc[1] \in Faulty \/ old.age < Delay
      BY <1>1 DEF inTime
    <3> QED BY <3>1, <3>2 DEF older
  <2> HIDE DEF ids, ages, old, age
  <2>3. hasJob(wc[1], wc[2]) =>
           /\ [old EXCEPT !.age = age] \in [pc : Pcs, job : ids, aborted : BOOLEAN, age : ages]
           /\ [old EXCEPT !.age = age].pc = old.pc /\ [old EXCEPT !.age = age].job = old.job
    BY <2>1, <2>2
  <2>4. new(wc) = IF hasJob(wc[1], wc[2]) THEN [old EXCEPT !.age = age] ELSE old
    BY DEF old, age
  <2> HIDE DEF new
  <2> QED BY <2>1, <2>3, <2>4 DEF CallRecords, ids, ages, old
<1> HIDE DEF new
<1>3. call' \in [Calls -> CallRecords]
  BY <1>1, <1>2
<1>4. SameWork
  BY <1>1, <1>2, CallsAre DEF SameWork
<1>5. CallsSound'
  BY <1>1, <1>3, <1>4, SameWorkCalls
<1>6. MapsSound'
  BY <1>1, <1>4, SameWorkEntries DEF MapsSound
<1>7. CountsSound'
  BY <1>1, <1>4, SameWorkIs DEF CountsSound
<1>8. TimersSound'
  <2> SUFFICES ASSUME NEW i \in intervals
               PROVE  IsTimer([i EXCEPT !.age = older(i.workerId, @)], call')
    BY <1>1 DEF TimersSound
  <2> DEFINE age == older(i.workerId, i.age)
             aged == [i EXCEPT !.age = older(i.workerId, @)]
  <2>1. IsTimer(i, call)
    BY DEF TimersSound
  <2>2. age \in 0..(Interval + Delay)
    <3>1. /\ i.age \in Nat /\ i.age <= Interval + Delay /\ Interval + Delay \in Nat
          /\ i.workerId \in Faulty \/ i.age < Interval + Delay
      BY <1>1, <2>1, TimingAssumption DEF IsTimer, inTime
    <3> QED BY <3>1 DEF older
  <2>3. aged = [workerId |-> i.workerId, call |-> i.call, jobId |-> i.jobId, age |-> age]
    BY <2>1 DEF IsTimer
  <2> HIDE DEF age, aged
  <2>4. /\ aged.workerId = i.workerId /\ aged.call = i.call /\ aged.jobId = i.jobId
        /\ aged.age = age
        /\ aged = [workerId |-> aged.workerId, call |-> aged.call, jobId |-> aged.jobId,
                   age |-> aged.age]
    BY <2>3
  <2>5. works(call', i.workerId, i.call, i.jobId)
    BY <1>4, <2>1, SameWorkIs DEF IsTimer
  <2>6. IsTimer(aged, call')
    BY <2>1, <2>2, <2>4, <2>5 DEF IsTimer
  <2> QED BY <2>6 DEF aged
<1> QED BY <1>5, <1>6, <1>7, <1>8

SentStep(r) == SentApplied(r) \/ SentLost(r)

LEMMA BooksAside ==
  ASSUME CallsSound, MapsSound, CountsSound, TimersSound,
         backlog' = backlog, call' = call, activeJobs' = activeJobs, intervals' = intervals,
         abortControllers' = abortControllers, heartbeatTimers' = heartbeatTimers
  PROVE  CallsSound' /\ MapsSound' /\ CountsSound' /\ TimersSound'
<1>1. CallsSound'
  BY DEF CallsSound, typeOf, CallRecords, JobIds0, Pcs, Calls
<1> QED BY <1>1 DEF MapsSound, CountsSound, TimersSound

(***************************************************************************)
(* The requests nobody waits for, and the queue.                           *)
(***************************************************************************)
LEMMA UnappliedIs ==
  ASSUME NEW w \in Workers, w \in Faulty, NEW c, NEW r \in unapplied(w, c)
  PROVE  IsRequest(r)
<1> DEFINE m == r.mutation
<1>1. r = Request(claimBy(w)) \/ \E id : r = Request(completionOf(w, id))
  BY DEF unapplied
<1>2. ASSUME NEW n, r = Request(n), n.workerId = w, n.type \in {"claim", "complete"}
      PROVE  IsRequest(r)
  BY <1>2 DEF Request, IsRequest
<1>3. claimBy(w).workerId = w /\ claimBy(w).type = "claim"
  BY DEF claimBy
<1>4. \A id : completionOf(w, id).workerId = w /\ completionOf(w, id).type = "complete"
  BY DEF completionOf
<1> QED BY <1>1, <1>2, <1>3, <1>4

LEMMA TickRequests ==
  ASSUME RequestsSound, Tick
  PROVE  RequestsSound'
<1>1. sent' = {[r EXCEPT !.age = older(r.mutation.workerId, @)] : r \in sent} /\ inTime
  BY DEF Tick
<1> SUFFICES ASSUME NEW r \in sent
             PROVE  IsRequest([r EXCEPT !.age = older(r.mutation.workerId, @)])
  BY <1>1 DEF RequestsSound, IsRequest
<1> DEFINE age == older(r.mutation.workerId, r.age)
           aged == [r EXCEPT !.age = older(r.mutation.workerId, @)]
<1>2. IsRequest(r)
  BY DEF RequestsSound
<1>3. age \in Nat /\ (r.mutation.workerId \notin Faulty => age <= Delay)
  <2>1. r.age \in Nat /\ (r.mutation.workerId \notin Faulty => r.age < Delay)
    BY <1>1, <1>2 DEF IsRequest, inTime
  <2> QED BY <2>1, TimingAssumption DEF older
<1>4. aged = [mutation |-> r.mutation, age |-> age]
  BY <1>2 DEF IsRequest
<1> HIDE DEF age, aged
<1>5. /\ aged.mutation = r.mutation /\ aged.age = age
      /\ aged = [mutation |-> aged.mutation, age |-> aged.age]
  BY <1>4
<1>6. IsRequest(aged)
  BY <1>2, <1>3, <1>5 DEF IsRequest
<1> QED BY <1>6 DEF aged

HeartbeatRequest(i) == Request(heartbeatOf(i.workerId, i.jobId))

LEMMA HeartbeatRequestIs ==
  ASSUME NEW i
  PROVE  LET r == HeartbeatRequest(i)
         IN /\ r = [mutation |-> r.mutation, age |-> r.age] /\ r.age = 0
            /\ r.mutation.type = "heartbeat" /\ r.mutation.workerId = i.workerId
            /\ r.mutation.jobId = i.jobId
  BY DEF HeartbeatRequest, Request, heartbeatOf

LEMMA RequestsNext ==
  ASSUME TimersSound, RequestsSound, Next
  PROVE  RequestsSound'
<1>1. CASE sent' \subseteq sent
  BY <1>1 DEF RequestsSound, IsRequest
<1>2. CASE Tick
  BY <1>2, TickRequests
<1>3. ASSUME NEW i \in intervals, Heartbeat(i) PROVE RequestsSound'
  <2> DEFINE r == HeartbeatRequest(i)
  <2>1. sent' = sent \cup {r}
    BY <1>3 DEF Heartbeat, HeartbeatRequest
  <2>2. i.workerId \in Workers
    BY DEF TimersSound, IsTimer
  <2>3. /\ r = [mutation |-> r.mutation, age |-> r.age] /\ r.age = 0
        /\ r.mutation.type = "heartbeat" /\ r.mutation.workerId = i.workerId
    BY HeartbeatRequestIs
  <2> HIDE DEF r
  <2>4. IsRequest(r)
    BY <2>2, <2>3, TimingAssumption DEF IsRequest
  <2> QED BY <2>1, <2>4 DEF RequestsSound, IsRequest
<1>4. ASSUME NEW w \in Workers, NEW c \in Slots[w], ClaimFails(w, c) \/ CompletionFails(w, c)
      PROVE  RequestsSound'
  <2>1. sent' = sent \cup unapplied(w, c) /\ w \in Faulty
    BY <1>4 DEF ClaimFails, CompletionFails, Unanswered
  <2>2. \A r \in unapplied(w, c) : IsRequest(r)
    BY <2>1, UnappliedIs
  <2> QED BY <2>1, <2>2 DEF RequestsSound, IsRequest
<1>5. ASSUME NEW w \in Workers, Crash(w) PROVE RequestsSound'
  <2>1. sent' = sent \cup UNION {unapplied(w, c) : c \in Slots[w]} /\ w \in Faulty
    BY <1>5 DEF Crash
  <2>2. \A c \in Slots[w] : \A r \in unapplied(w, c) : IsRequest(r)
    BY <2>1, UnappliedIs
  <2> QED BY <2>1, <2>2 DEF RequestsSound, IsRequest
<1>6. ASSUME NEW r \in sent, SentStep(r) PROVE sent' \subseteq sent
  BY <1>6 DEF SentStep, SentApplied, SentLost
<1>7. ASSUME NEW w \in Workers, stop(w) \/ StopReturns(w) PROVE sent' \subseteq sent
  BY <1>7 DEF stop, StopReturns
<1>8. ASSUME NEW w \in Workers, NEW c \in Slots[w],
             QuietStep(w, c) \/ StartsHandler(w, c) \/ EndStep(w, c)
      PROVE  sent' \subseteq sent \/ ClaimFails(w, c) \/ CompletionFails(w, c)
  BY <1>8 DEF QuietStep, EndStep, poll, ClaimApplied, FindsNoJob, FindsBadPayload,
     FindsNoHandler, StartsHandler, HandlerReturns, HandlerThrows, CompletionApplied,
     CompletionAnswered, DiscardAnswered, Reconnected
<1> QED
  BY <1>1, <1>2, <1>3, <1>4, <1>5, <1>6, <1>7, <1>8 DEF Next, QuietStep, EndStep, SentStep

(* The queue when its clock ticks.                                         *)
LEMMA AgedJobIs ==
  ASSUME NEW job, IsJob(job)
  PROVE  /\ IsJob(agedJob(job)) /\ agedJob(job).id = job.id
         /\ agedJob(job).status = job.status /\ agedJob(job).workerId = job.workerId
         /\ job.status = "in_progress" =>
              /\ agedJob(job).heartbeat \in Int /\ agedJob(job).heartbeat <= job.heartbeat
              /\ agedJob(job).heartbeat >= job.heartbeat - 1
<1>1. CASE job.heartbeat = None \/ job.heartbeat <= Old
  BY <1>1 DEF agedJob, IsJob
<1>2. CASE ~(job.heartbeat = None \/ job.heartbeat <= Old)
  <2> DEFINE h == job.heartbeat - 1
             new == [job EXCEPT !.heartbeat = h]
  <2>1. agedJob(job) = new
    BY <1>2 DEF agedJob
  <2> HIDE DEF h
  <2>2. /\ DOMAIN new = DOMAIN job /\ new.id = job.id /\ new.status = job.status
        /\ new.attempts = job.attempts /\ new.maxAttempts = job.maxAttempts
        /\ new.workerId = job.workerId /\ new.heartbeat = h
    BY DEF IsJob
  <2> HIDE DEF new
  <2>3. job.status = "in_progress" => h \in Int /\ h <= job.heartbeat /\ h >= job.heartbeat - 1
    BY DEF IsJob, h
  <2>4. IsJob(new)
    BY <2>2, <2>3 DEF IsJob
  <2> QED BY <2>1, <2>2, <2>3, <2>4
<1> QED BY <1>1, <1>2

LEMMA TickQueue ==
  ASSUME QueueSound, Tick
  PROVE  QueueSound' /\ JobsOf(queue') = {agedJob(job) : job \in JobsOf(queue)}
<1> DEFINE jobs == queue.jobs
           n == Len(jobs)
           new == [i \in DOMAIN jobs |-> agedJob(jobs[i])]
<1>0. /\ IsState(queue) /\ IsSeq(jobs) /\ n \in Nat /\ DOMAIN jobs = 1..n /\ UniqueIds(jobs)
      /\ \A job \in JobsOf(queue) : IsJob(job)
  BY IsSeqFacts DEF QueueSound, IsState, IsJobList, JobsOf
<1>1. queue' = [queue EXCEPT !.jobs = new]
  BY DEF Tick
<1>2. /\ DOMAIN queue' = DOMAIN queue /\ queue'.jobs = new
      /\ queue'.completedTotal = queue.completedTotal
  BY <1>0, <1>1 DEF IsState
<1> HIDE DEF jobs, n
<1>3. \A i \in 1..n : new[i] = agedJob(jobs[i]) /\ jobs[i] \in JobsOf(queue)
  BY <1>0 DEF JobsOf, ToSet, jobs
<1>4. DOMAIN new = 1..n
  BY <1>0
<1>5. new \in [1..n -> ToSet(new)]
  BY <1>4 DEF ToSet
<1>6. IsSeq(new)
  <2>1. new \in Seq(ToSet(new))
    BY <1>0, <1>5, SeqDef
  <2> QED BY <2>1 DEF IsSeq
<1> HIDE DEF new
<1>7. UniqueIds(new)
  <2> SUFFICES ASSUME NEW i \in 1..n, NEW j \in 1..n, new[i].id = new[j].id PROVE i = j
    BY <1>4 DEF UniqueIds
  <2>1. jobs[i].id = jobs[j].id
    BY <1>0, <1>3, AgedJobIs
  <2> QED BY <1>0, <2>1 DEF UniqueIds
<1>8. ToSet(new) = {agedJob(job) : job \in JobsOf(queue)}
  <2>1. \A job \in ToSet(new) : job \in {agedJob(j) : j \in JobsOf(queue)}
    BY <1>3, <1>4 DEF ToSet
  <2>2. \A j \in JobsOf(queue) : agedJob(j) \in ToSet(new)
    BY <1>0, <1>3, <1>4 DEF ToSet, JobsOf, jobs
  <2> QED BY <2>1, <2>2
<1>9. IsState(queue')
  <2>1. \A job \in ToSet(new) : IsJob(job)
    BY <1>0, <1>8, AgedJobIs
  <2>2. IsJobList(new)
    BY <1>6, <1>7, <2>1 DEF IsJobList
  <2> QED BY <1>0, <1>2, <2>2 DEF IsState
<1>10. JobsOf(queue') = {agedJob(job) : job \in JobsOf(queue)}
  BY <1>2, <1>8 DEF JobsOf
<1>11. JobIds(queue') \subseteq JobIds0'
  <2>1. \A job \in JobsOf(queue') : \E j \in JobsOf(queue) : job.id = j.id
    BY <1>0, <1>10, AgedJobIs
  <2>2. JobIds(queue') \subseteq JobIds(queue)
    <3>1. /\ JobIds(queue') = {job.id : job \in JobsOf(queue')}
          /\ JobIds(queue) = {job.id : job \in JobsOf(queue)}
      BY JobsAndIds
    <3> QED BY <2>1, <3>1
  <2>3. JobIds0' = JobIds0
    BY DEF Tick, JobIds0
  <2> QED BY <2>2, <2>3 DEF QueueSound
<1>12. HeartbeatsPast(queue', now)
  <2> SUFFICES ASSUME NEW job \in JobsOf(queue'), job.status = "in_progress"
               PROVE  job.heartbeat \in Int /\ job.heartbeat <= 0
    BY DEF HeartbeatsPast, now
  <2>1. PICK j \in JobsOf(queue) : job = agedJob(j)
    BY <1>10
  <2>2. /\ j.status = "in_progress" /\ job.heartbeat \in Int /\ job.heartbeat <= j.heartbeat
    BY <1>0, <2>1, AgedJobIs
  <2>3. j.heartbeat \in Int /\ j.heartbeat <= 0
    BY <2>2 DEF QueueSound, HeartbeatsPast, now
  <2> QED BY <2>2, <2>3
<1>13. QueueSound'
  BY <1>9, <1>11, <1>12 DEF QueueSound, now
<1> QED BY <1>10, <1>13

LEMMA BacklogStays ==
  ASSUME Next
  PROVE  backlog' = backlog
<1>1. ASSUME NEW w \in Workers, NEW c \in Slots[w],
             QuietStep(w, c) \/ StartsHandler(w, c) \/ EndStep(w, c)
      PROVE  backlog' = backlog
  BY <1>1 DEF QuietStep, EndStep, poll, ClaimApplied, FindsNoJob, FindsBadPayload,
     FindsNoHandler, StartsHandler, HandlerReturns, HandlerThrows, CompletionApplied,
     CompletionAnswered, DiscardAnswered, ClaimFails, CompletionFails, Reconnected, Finally
<1>2. ASSUME NEW w \in Workers, stop(w) \/ StopReturns(w) \/ Crash(w) PROVE backlog' = backlog
  BY <1>2 DEF stop, StopReturns, Crash
<1>3. ASSUME \/ Tick \/ \E i \in intervals : Heartbeat(i)
             \/ \E r \in sent : SentApplied(r) \/ SentLost(r)
      PROVE  backlog' = backlog
  BY <1>3 DEF Tick, Heartbeat, SentApplied, SentLost
<1> QED BY <1>1, <1>2, <1>3 DEF Next, QuietStep, EndStep

LEMMA QueueNext ==
  ASSUME QueueSound, RequestsSound, Next
  PROVE  QueueSound'
<1>1. backlog' = backlog /\ JobIds0' = JobIds0
  BY BacklogStays DEF JobIds0
<1>2. ASSUME NEW m, m.type \in Kinds, queue' = applied(m).state PROVE QueueSound'
  <2> DEFINE new == applied(m).state
  <2>1. IsState(new) /\ JobIds(new) \subseteq JobIds0 /\ HeartbeatsPast(new, now)
    BY <1>2, RequestApplied
  <2> HIDE DEF new
  <2>2. queue' = new
    BY <1>2 DEF new
  <2> QED BY <1>1, <2>1, <2>2 DEF QueueSound, now
<1>3. ASSUME queue' = queue PROVE QueueSound'
  BY <1>1, <1>3 DEF QueueSound, now
<1>4. CASE Tick
  BY <1>4, TickQueue
<1>5. ASSUME NEW w \in Workers, NEW c \in Slots[w], ClaimApplied(w, c) PROVE QueueSound'
  <2> DEFINE m == claimBy(w)
  <2>1. queue' = applied(m).state /\ m.type \in Kinds
    BY <1>5 DEF ClaimApplied, claimBy, Kinds
  <2> QED BY <1>2, <2>1
<1>6. ASSUME NEW w \in Workers, NEW c \in Slots[w], CompletionApplied(w, c) PROVE QueueSound'
  <2> DEFINE m == completionOf(w, call[<<w, c>>].job)
  <2>1. queue' = applied(m).state /\ m.type \in Kinds
    BY <1>6 DEF CompletionApplied, completionOf, Kinds
  <2> QED BY <1>2, <2>1
<1>7. ASSUME NEW r \in sent, SentApplied(r) PROVE QueueSound'
  <2>1. queue' = applied(r.mutation).state /\ r.mutation.type \in Kinds
    BY <1>7 DEF SentApplied, RequestsSound, IsRequest, Kinds
  <2> QED BY <1>2, <2>1
<1>8. CASE \/ \E i \in intervals : Heartbeat(i)
           \/ \E r \in sent : SentLost(r)
           \/ \E w \in Workers : stop(w) \/ StopReturns(w) \/ Crash(w)
  BY <1>3, <1>8 DEF Heartbeat, SentLost, stop, StopReturns, Crash
<1>9. CASE \E w \in Workers : \E c \in Slots[w] :
              \/ poll(w, c) \/ FindsNoJob(w, c) \/ FindsBadPayload(w, c)
              \/ FindsNoHandler(w, c) \/ StartsHandler(w, c)
              \/ HandlerReturns(w, c) \/ HandlerThrows(w, c)
              \/ CompletionAnswered(w, c) \/ DiscardAnswered(w, c)
              \/ ClaimFails(w, c) \/ CompletionFails(w, c) \/ Reconnected(w, c)
  BY <1>3, <1>9 DEF poll, FindsNoJob, FindsBadPayload, FindsNoHandler, StartsHandler,
     HandlerReturns, HandlerThrows, CompletionAnswered, DiscardAnswered, ClaimFails,
     CompletionFails, Reconnected
<1> QED
  BY <1>4, <1>5, <1>6, <1>7, <1>8, <1>9 DEF Next

LEMMA BooksNext ==
  ASSUME CallsSound, MapsSound, CountsSound, TimersSound, QueueSound, Next
  PROVE  CallsSound' /\ MapsSound' /\ CountsSound' /\ TimersSound'
<1>1. CASE Tick
  BY <1>1, TickKeepsBooks
<1>2. CASE \E i \in intervals : Heartbeat(i)
  BY <1>2, HeartbeatKeepsBooks
<1>3. CASE \E r \in sent : SentApplied(r) \/ SentLost(r)
  BY <1>3, BooksAside DEF SentApplied, SentLost, workerVars
<1>4. ASSUME NEW w \in Workers, stop(w) \/ Crash(w) \/ StopReturns(w)
      PROVE  CallsSound' /\ MapsSound' /\ CountsSound' /\ TimersSound'
  BY <1>4, StopKeepsBooks, CrashKeepsBooks, BooksAside DEF StopReturns
<1>5. ASSUME NEW w \in Workers, NEW c \in Slots[w], QuietStep(w, c)
      PROVE  CallsSound' /\ MapsSound' /\ CountsSound' /\ TimersSound'
  BY <1>5, QuietSteps, QuietKeepsBooks
<1>6. ASSUME NEW w \in Workers, NEW c \in Slots[w], StartsHandler(w, c)
      PROVE  CallsSound' /\ MapsSound' /\ CountsSound' /\ TimersSound'
  BY <1>6, StartKeepsBooks
<1>7. ASSUME NEW w \in Workers, NEW c \in Slots[w], EndStep(w, c)
      PROVE  CallsSound' /\ MapsSound' /\ CountsSound' /\ TimersSound'
  BY <1>7, EndKeepsBooks
<1> QED
  BY <1>1, <1>2, <1>3, <1>4, <1>5, <1>6, <1>7 DEF Next, QuietStep, EndStep

LEMMA PhasesNext ==
  ASSUME phase \in [Workers -> Phases], Next
  PROVE  phase' \in [Workers -> Phases]
<1>1. ASSUME NEW w \in Workers, stop(w) \/ StopReturns(w) \/ Crash(w)
      PROVE  phase' \in [Workers -> Phases]
  BY <1>1 DEF stop, StopReturns, Crash, Phases
<1>2. ASSUME NEW w \in Workers, NEW c \in Slots[w],
             QuietStep(w, c) \/ StartsHandler(w, c) \/ EndStep(w, c)
      PROVE  phase' = phase
  BY <1>2 DEF QuietStep, EndStep, poll, ClaimApplied, FindsNoJob, FindsBadPayload, workerVars,
     FindsNoHandler, StartsHandler, HandlerReturns, HandlerThrows, CompletionApplied,
     CompletionAnswered, DiscardAnswered, ClaimFails, CompletionFails, Reconnected, Finally
<1>3. ASSUME \/ Tick \/ \E i \in intervals : Heartbeat(i)
             \/ \E r \in sent : SentApplied(r) \/ SentLost(r)
      PROVE  phase' = phase
  BY <1>3 DEF Tick, Heartbeat, SentApplied, SentLost, workerVars
<1> QED BY <1>1, <1>2, <1>3 DEF Next, QuietStep, EndStep

LEMMA JobIdIs ==
  ASSUME NEW i
  PROVE  Append(<<"backlog">>, i) = JobIdOf(i)
<1> DEFINE S == {"backlog", i}
           seed == <<"backlog">>
           id == JobIdOf(i)
<1>1. seed \in Seq(S) /\ Len(seed) = 1 /\ seed[1] = "backlog" /\ i \in S
  OBVIOUS
<1>2. id \in Seq(S) /\ Len(id) = 2 /\ id[1] = "backlog" /\ id[2] = i
  BY DEF JobIdOf
<1> HIDE DEF seed, S, id
<1> DEFINE t == Append(seed, i)
<1>3. IsSeq(seed)
  BY <1>1, IsSeqOf
<1>4. /\ t \in Seq(S) /\ Len(t) = Len(seed) + 1
      /\ \A k \in 1..Len(seed) : t[k] = seed[k]
      /\ t[Len(seed) + 1] = i
  <2>1. /\ Len(t) = Len(seed) + 1 /\ t[Len(seed) + 1] = i
        /\ \A k \in 1..Len(seed) : t[k] = seed[k]
    BY <1>3, AppendSeq
  <2>2. t \in Seq(S)
    BY <1>1, AppendProperties
  <2> QED BY <2>1, <2>2
<1> HIDE DEF t
<1>5. Len(t) = Len(id) /\ \A k \in 1..Len(t) : t[k] = id[k]
  <2>1. Len(t) = 2 /\ t[1] = "backlog" /\ t[2] = i
    BY <1>1, <1>4
  <2> QED BY <1>2, <2>1
<1>6. t = id
  BY <1>2, <1>4, <1>5, SeqEqual
<1> QED BY <1>6 DEF t, seed, id

LEMMA BacklogQueue ==
  ASSUME Init
  PROVE  QueueSound
<1> DEFINE seed == <<"backlog">>
           new == enqueueJobs(emptyState, backlog, seed)
<1>1. IsState(emptyState) /\ JobsOf(emptyState) = {} /\ JobIds(emptyState) = {}
  BY EmptyIsState
<1>2. IsSpecList(backlog)
  BY BacklogsAssumption DEF Init, IsSpecList, IsSeq
<1>3. IsSeq(seed) /\ \A i \in DOMAIN backlog : Append(seed, i) = JobIdOf(i)
  <2>1. seed \in Seq({"backlog"}) /\ ToSet(seed) = {"backlog"}
    BY DEF ToSet
  <2>2. \A i : Append(seed, i) = JobIdOf(i)
    BY JobIdIs
  <2> QED BY <2>1, <2>2 DEF IsSeq
<1> HIDE DEF seed
<1>4. IsState(new.state) /\ JobsOf(new.state) = JobsOf(emptyState) \cup newJobs(backlog, seed)
  <2> DEFINE st == emptyState
  <2>1. /\ IsState(st) /\ IsSpecList(backlog) /\ IsSeq(seed)
        /\ \A i \in DOMAIN backlog : Append(seed, i) \notin JobIds(st)
    BY <1>1, <1>2, <1>3
  <2> HIDE DEF st
  <2>2. /\ IsState(enqueueJobs(st, backlog, seed).state)
        /\ JobsOf(enqueueJobs(st, backlog, seed).state) = JobsOf(st) \cup newJobs(backlog, seed)
    BY <2>1, EnqueueJobs
  <2> QED BY <2>2 DEF st
<1>5. queue = new.state
  BY DEF Init, seed
<1> HIDE DEF new
<1>6. \A job \in JobsOf(queue) : \E i \in DOMAIN backlog :
         job.id = JobIdOf(i) /\ job.status = "unclaimed"
  BY <1>1, <1>3, <1>4, <1>5 DEF newJobs, newJob
<1>7. JobIds(queue) \subseteq JobIds0
  BY <1>6, JobsAndIds DEF JobIds0
<1>8. HeartbeatsPast(queue, now)
  BY <1>6 DEF HeartbeatsPast
<1> QED BY <1>4, <1>5, <1>7, <1>8 DEF QueueSound

LEMMA WorkerInit == Init => WorkerSound
<1> SUFFICES ASSUME Init PROVE WorkerSound
  OBVIOUS
<1>1. /\ phase = [w \in Workers |-> "running"] /\ call = [wc \in Calls |-> IdleCall]
      /\ activeJobs = [w \in Workers |-> 0]
      /\ abortControllers = [w \in Workers |-> NoEntries]
      /\ heartbeatTimers = [w \in Workers |-> NoEntries] /\ intervals = {} /\ sent = {}
  BY DEF Init
<1>2. IdleCall \in CallRecords /\ IdleCall.pc = "idle"
  <2>1. "idle" \in Pcs /\ None \in JobIds0 \cup {None}
    BY DEF Pcs
  <2> QED BY <2>1, NewCallIs DEF IdleCall
<1>3. \A w \in Workers : \A c \in Slots[w] : call[<<w, c>>] = IdleCall
  BY <1>1, CallsAre
<1>4. CallsSound
  BY <1>1, <1>2, <1>3 DEF CallsSound, Discarding
<1>5. MapsSound
  BY <1>1, NoEntriesIs DEF MapsSound, Entries
<1>6. CountsSound
  <2>1. \A w \in Workers : atWork(call, w) = {}
    BY <1>2, <1>3 DEF atWork, AtWork
  <2> QED BY <1>1, <2>1, FS_EmptySet DEF CountsSound
<1>7. TimersSound /\ RequestsSound
  BY <1>1 DEF TimersSound, RequestsSound
<1> QED BY <1>1, <1>4, <1>5, <1>6, <1>7, BacklogQueue DEF WorkerSound, Phases

LEMMA WorkerNext == WorkerSound /\ [Next]_vars => WorkerSound'
<1>1. ASSUME WorkerSound, Next PROVE WorkerSound'
  BY <1>1, BooksNext, QueueNext, RequestsNext, PhasesNext DEF WorkerSound, Phases
<1>2. ASSUME WorkerSound, UNCHANGED vars PROVE WorkerSound'
  <2>1. /\ backlog' = backlog /\ queue' = queue /\ phase' = phase /\ call' = call
        /\ activeJobs' = activeJobs /\ abortControllers' = abortControllers
        /\ heartbeatTimers' = heartbeatTimers /\ intervals' = intervals /\ sent' = sent
    BY <1>2 DEF vars, workerVars
  <2>2. CallsSound' /\ MapsSound' /\ CountsSound' /\ TimersSound'
    BY <1>2, <2>1, BooksAside DEF WorkerSound
  <2>3. QueueSound' /\ RequestsSound'
    BY <1>2, <2>1 DEF WorkerSound, QueueSound, RequestsSound, IsRequest, JobIds0, now
  <2> QED BY <1>2, <2>1, <2>2, <2>3 DEF WorkerSound, Phases
<1> QED BY <1>1, <1>2

LEMMA AlwaysWorkerSound == Spec => []WorkerSound
  BY WorkerInit, WorkerNext, PTL DEF Spec

(***************************************************************************)
(* The worker's books are right.                                           *)
(***************************************************************************)
(* The state is well formed: the maps hold, for a job, a call that works   *)
(* on it.                                                                  *)
THEOREM WorkerTypeOK == Spec => []TypeOK
<1>1. WorkerSound => TypeOK
  <2> SUFFICES ASSUME WorkerSound PROVE TypeOK
    OBVIOUS
  <2> USE DEF WorkerSound
  <2>1. activeJobs \in [Workers -> Nat]
    BY SlotsAreFinite DEF CountsSound
  <2>2. \A w \in Workers : \A c \in Slots[w] :
           /\ call[<<w, c>>].pc \in Pcs
           /\ call[<<w, c>>].job \in JobIds0 \cup {None}
           /\ call[<<w, c>>].age \in 0..Delay
    BY CallIs
  <2>3. \A w \in Workers :
           /\ \A id \in DOMAIN abortControllers[w] : busy(w, abortControllers[w][id], id)
           /\ \A id \in DOMAIN heartbeatTimers[w] : busy(w, heartbeatTimers[w][id], id)
    BY DEF MapsSound, Entries, works, busy
  <2>4. \A i \in intervals : i.age \in 0..(Interval + Delay)
    BY DEF TimersSound, IsTimer
  <2> QED BY <2>1, <2>2, <2>3, <2>4 DEF TypeOK, Phases
<1> QED BY <1>1, AlwaysWorkerSound, PTL

(* activeJobs counts the jobs at work, on every way out of a call, for any *)
(* number of slots and of workers: a slot is neither leaked nor given away *)
(* twice.                                                                  *)
THEOREM ActiveJobsAreCounted == Spec => []ActiveJobsCounted
<1>1. WorkerSound => ActiveJobsCounted
  BY DEF WorkerSound, CountsSound, ActiveJobsCounted, atWork
<1> QED BY <1>1, AlwaysWorkerSound, PTL

(* A heartbeat timer is set only for a call that works on that job: no job *)
(* is kept from the queue by a call that has ended.                        *)
THEOREM HeartbeatsEndWithTheirCall == Spec => []NoStrayHeartbeats
<1>1. WorkerSound => NoStrayHeartbeats
  BY DEF WorkerSound, TimersSound, IsTimer, works, NoStrayHeartbeats, busy
<1> QED BY <1>1, AlwaysWorkerSound, PTL

(***************************************************************************)
(* A punctual worker keeps its jobs.  From the claim on, either the lease  *)
(* was renewed at most Delay before the timer was last set, or a heartbeat *)
(* is on its way that will renew it.                                       *)
(***************************************************************************)
HasTime == HeartbeatTimeout >= Interval + 3 * Delay

holding(calls, w, c) ==
    /\ calls[<<w, c>>].pc \in {"claimed", "handling", "completing"}
    /\ calls[<<w, c>>].job # None
    /\ typeOf(calls[<<w, c>>].job) \notin Malformed \cup Missing

Underway(requests, w, id, beat) ==
    \E r \in requests : /\ r.mutation.workerId = w /\ r.mutation.jobId = id
                        /\ -beat <= Interval + 2 * Delay + r.age

Renewed(calls, timers, requests, w, c, beat) ==
    \/ calls[<<w, c>>].pc = "claimed" /\ -beat <= calls[<<w, c>>].age
    \/ /\ calls[<<w, c>>].pc \in {"handling", "completing"}
       /\ \E i \in timers :
            /\ i.workerId = w /\ i.call = c
            /\ -beat <= i.age + Delay \/ Underway(requests, w, i.jobId, beat)

Leased(calls, timers, requests, state, w, c) ==
    \E job \in JobsOf(state) :
        /\ job.id = calls[<<w, c>>].job /\ job.workerId = w /\ job.status = "in_progress"
        /\ Renewed(calls, timers, requests, w, c, job.heartbeat)

OneHolder(calls, w, c) ==
    \A d \in Slots[w] :
        holding(calls, w, d) /\ calls[<<w, d>>].job = calls[<<w, c>>].job => d = c

LeasesSound ==
    \A w \in Workers \ Faulty : \A c \in Slots[w] : holding(call, w, c) =>
        Leased(call, intervals, sent, queue, w, c) /\ OneHolder(call, w, c)

\* What LeasesSound is after a step, with the backlog as it was.
LeasesNext ==
    \A w \in Workers \ Faulty : \A c \in Slots[w] : holding(call', w, c) =>
        Leased(call', intervals', sent', queue', w, c) /\ OneHolder(call', w, c)

LEMMA LeasesPrimed ==
  ASSUME backlog' = backlog, LeasesNext
  PROVE  LeasesSound'
  BY DEF LeasesNext, LeasesSound, holding, typeOf, OneHolder, Leased, Renewed, Underway, JobsOf

LEMMA RenewedIsFresh ==
  ASSUME WorkerSound, HasTime, NEW w \in Workers \ Faulty, NEW c \in Slots[w],
         NEW beat \in Int, Renewed(call, intervals, sent, w, c, beat)
  PROVE  -beat <= HeartbeatTimeout
<1>0. /\ HeartbeatTimeout \in Nat /\ Interval \in Nat /\ Delay \in Nat
      /\ HeartbeatTimeout >= Interval + 3 * Delay
  BY TimeoutAssumption, TimingAssumption DEF HasTime
<1>1. CASE -beat <= call[<<w, c>>].age
  <2>1. call[<<w, c>>].age \in 0..Delay
    BY CallIs DEF WorkerSound
  <2> QED BY <1>0, <1>1, <2>1
<1>2. ASSUME NEW i \in intervals, -beat <= i.age + Delay PROVE -beat <= HeartbeatTimeout
  <2>1. i.age \in 0..(Interval + Delay)
    BY DEF WorkerSound, TimersSound, IsTimer
  <2> QED BY <1>0, <1>2, <2>1
<1>3. ASSUME NEW r \in sent, r.mutation.workerId = w, -beat <= Interval + 2 * Delay + r.age
      PROVE  -beat <= HeartbeatTimeout
  <2>1. r.age \in Nat /\ r.age <= Delay
    BY <1>3 DEF WorkerSound, RequestsSound, IsRequest
  <2> QED BY <1>0, <1>3, <2>1
<1> QED BY <1>1, <1>2, <1>3 DEF Renewed, Underway

(* A later heartbeat of the job serves as well.                            *)
LEMMA RenewedLater ==
  ASSUME NEW calls, NEW timers, NEW requests, NEW w, NEW c, NEW beat \in Int, NEW later \in Int,
         Renewed(calls, timers, requests, w, c, beat), later >= beat,
         calls[<<w, c>>].age \in Int,
         \A i \in timers : i.age \in Int, \A r \in requests : r.age \in Int
  PROVE  Renewed(calls, timers, requests, w, c, later)
<1>0. Interval \in Int /\ Delay \in Int /\ 2 * Delay \in Int
  BY TimingAssumption
<1>1. \A n \in Int : -beat <= n => -later <= n
  OBVIOUS
<1>2. ASSUME NEW id, Underway(requests, w, id, beat) PROVE Underway(requests, w, id, later)
  <2>1. \A r \in requests : Interval + 2 * Delay + r.age \in Int
    BY <1>0
  <2> QED BY <1>1, <1>2, <2>1 DEF Underway
<1>3. \A i \in timers : i.age + Delay \in Int
  BY <1>0
<1> QED BY <1>1, <1>2, <1>3 DEF Renewed

\* The queue keeps a job for its worker.
StillLeased(w, id) ==
    \A job \in JobsOf(queue) :
        job.id = id /\ job.workerId = w /\ job.status = "in_progress" /\ ~isStale(job, now) =>
            HeldIn(queue', job)

(* A call that goes on with its job keeps the lease, with its timer and    *)
(* the heartbeats under way.                                               *)
LEMMA LeaseKept ==
  ASSUME WorkerSound, LeasesSound, HasTime, IsState(queue'),
         NEW w \in Workers \ Faulty, NEW c \in Slots[w], holding(call, w, c),
         call'[<<w, c>>].job = call[<<w, c>>].job,
         \/ call'[<<w, c>>].pc = call[<<w, c>>].pc /\ call'[<<w, c>>].age = call[<<w, c>>].age
         \/ {call[<<w, c>>].pc, call'[<<w, c>>].pc} \subseteq {"handling", "completing"},
         \A i \in intervals : i.workerId = w /\ i.call = c => i \in intervals',
         \A r \in sent : r.mutation.workerId = w /\ r.mutation.jobId = call[<<w, c>>].job =>
             r \in sent',
         StillLeased(w, call[<<w, c>>].job)
  PROVE  Leased(call', intervals', sent', queue', w, c)
<1> DEFINE id == call[<<w, c>>].job
<1>1. PICK job \in JobsOf(queue) :
         /\ job.id = id /\ job.workerId = w /\ job.status = "in_progress"
         /\ Renewed(call, intervals, sent, w, c, job.heartbeat)
  BY DEF LeasesSound, Leased
<1>2. job.heartbeat \in Int /\ IsState(queue)
  BY <1>1, JobsAreJobs DEF WorkerSound, QueueSound, IsJob
<1>3. ~isStale(job, now)
  <2>1. -job.heartbeat <= HeartbeatTimeout
    BY <1>1, <1>2, RenewedIsFresh
  <2> QED BY <1>2, <2>1, TimeoutAssumption DEF isStale, now
<1>4. PICK new \in JobsOf(queue') : StillHeld(job, new)
  BY <1>1, <1>3 DEF StillLeased, HeldIn
<1>5. /\ new.id = id /\ new.workerId = w /\ new.status = "in_progress"
      /\ new.heartbeat \in Int /\ new.heartbeat >= job.heartbeat
  BY <1>1, <1>4, JobsAreJobs DEF StillHeld, IsJob
<1>6. Renewed(call, intervals, sent, w, c, new.heartbeat)
  <2>1. /\ call[<<w, c>>].age \in Int /\ \A i \in intervals : i.age \in Int
        /\ \A r \in sent : r.age \in Int
    BY CallIs DEF WorkerSound, TimersSound, IsTimer, RequestsSound, IsRequest
  <2> QED BY <1>1, <1>2, <1>5, <2>1, RenewedLater
<1>7. \A i \in intervals : i.workerId = w /\ i.call = c => i.jobId = id
  BY DEF WorkerSound, TimersSound, IsTimer, works
<1>8. \A beat : Underway(sent, w, id, beat) => Underway(sent', w, id, beat)
  BY DEF Underway
<1>9. Renewed(call', intervals', sent', w, c, new.heartbeat)
  <2>1. CASE call[<<w, c>>].pc = "claimed"
    BY <1>6, <2>1 DEF Renewed
  <2>2. CASE call[<<w, c>>].pc \in {"handling", "completing"}
    <3>1. PICK i \in intervals :
             /\ i.workerId = w /\ i.call = c
             /\ -new.heartbeat <= i.age + Delay \/ Underway(sent, w, i.jobId, new.heartbeat)
      BY <1>6, <2>2 DEF Renewed
    <3>2. /\ i \in intervals'
          /\ -new.heartbeat <= i.age + Delay \/ Underway(sent', w, i.jobId, new.heartbeat)
      BY <1>7, <1>8, <3>1
    <3> QED BY <2>2, <3>1, <3>2 DEF Renewed
  <2> QED BY <2>1, <2>2 DEF holding
<1> QED BY <1>5, <1>9 DEF Leased

KeepsLease(w, c) ==
    holding(call', w, c) =>
        /\ holding(call, w, c) /\ call'[<<w, c>>].job = call[<<w, c>>].job
        /\ Leased(call', intervals', sent', queue', w, c)

LEMMA KeptLeases ==
  ASSUME LeasesSound, \A w \in Workers \ Faulty : \A c \in Slots[w] : KeepsLease(w, c)
  PROVE  LeasesNext
  BY DEF LeasesSound, LeasesNext, KeepsLease, OneHolder

LEMMA SameQueueLeases ==
  ASSUME QueueSound, queue' = queue
  PROVE  IsState(queue') /\ \A w : \A id : StillLeased(w, id)
<1>1. IsState(queue)
  BY DEF QueueSound
<1>2. \A job \in JobsOf(queue) : job.status = "in_progress" => HeldIn(queue, job)
  BY <1>1, JobsAreJobs, HeldStays DEF HeldIn
<1> QED BY <1>1, <1>2 DEF StillLeased

LEMMA RequestLeases ==
  ASSUME QueueSound, NEW m, m.type \in Kinds, queue' = applied(m).state, NEW w, NEW id,
         ~(m.type = "complete" /\ m.jobId = id /\ m.workerId = w)
  PROVE  IsState(queue') /\ StillLeased(w, id)
<1>1. /\ IsState(applied(m).state)
      /\ \A old \in JobsOf(queue) : old.status = "in_progress" /\ ~isStale(old, now) =>
              HeldIn(applied(m).state, old) \/ DoneBy(m, old)
  BY RequestApplied
<1>2. \A old \in JobsOf(queue) : old.id = id /\ old.workerId = w => ~DoneBy(m, old)
  BY DEF DoneBy
<1> QED BY <1>1, <1>2 DEF StillLeased

(* A call whose own state a step leaves alone, or that goes from handling  *)
(* to completing.                                                          *)
LEMMA BystanderKeeps ==
  ASSUME WorkerSound, LeasesSound, HasTime, NEW w \in Workers \ Faulty, NEW c \in Slots[w],
         call'[<<w, c>>].job = call[<<w, c>>].job,
         \/ call'[<<w, c>>].pc = call[<<w, c>>].pc /\ call'[<<w, c>>].age = call[<<w, c>>].age
         \/ {call[<<w, c>>].pc, call'[<<w, c>>].pc} \subseteq {"handling", "completing"},
         \A i \in intervals : i.workerId = w /\ i.call = c => i \in intervals',
         sent \subseteq sent',
         IsState(queue'), holding(call, w, c) => StillLeased(w, call[<<w, c>>].job)
  PROVE  KeepsLease(w, c)
<1>1. holding(call', w, c) => holding(call, w, c)
  BY DEF holding
<1>2. ASSUME holding(call, w, c) PROVE Leased(call', intervals', sent', queue', w, c)
  BY <1>2, LeaseKept
<1> QED BY <1>1, <1>2 DEF KeepsLease

(* A request that is applied completes no job another call holds.          *)
LEMMA CompletionLeases ==
  ASSUME WorkerSound, LeasesSound, NEW v \in Workers, NEW d \in Slots[v], CompletionApplied(v, d),
         NEW w \in Workers \ Faulty, NEW c \in Slots[w], holding(call, w, c), ~(v = w /\ d = c)
  PROVE  IsState(queue') /\ StillLeased(w, call[<<w, c>>].job)
<1> DEFINE m == completionOf(v, call[<<v, d>>].job)
           id == call[<<w, c>>].job
<1>1. /\ queue' = applied(m).state /\ m.type \in Kinds
      /\ m.workerId = v /\ m.jobId = call[<<v, d>>].job
      /\ call[<<v, d>>].pc \in {"completing", "discarding"}
  BY DEF CompletionApplied, completionOf, Kinds
<1>2. ASSUME v = w, call[<<v, d>>].job = id PROVE FALSE
  <2>1. id # None /\ typeOf(id) \notin Malformed \cup Missing
    BY DEF holding
  <2>2. CASE call[<<v, d>>].pc = "completing"
    <3>1. holding(call, w, d)
      BY <1>2, <2>1, <2>2 DEF holding
    <3> QED BY <1>2, <3>1 DEF LeasesSound, OneHolder
  <2>3. CASE call[<<v, d>>].pc = "discarding"
    BY <1>2, <2>1, <2>3 DEF WorkerSound, CallsSound, Discarding
  <2> QED BY <1>1, <2>2, <2>3
<1> HIDE DEF m
<1>3. QueueSound
  BY DEF WorkerSound
<1> QED BY <1>1, <1>2, <1>3, RequestLeases

(* The requests still under way, and the timers, when a call goes on.      *)
LEMMA QuietEffects ==
  ASSUME NEW v \in Workers, NEW d \in Slots[v], QuietStep(v, d)
  PROVE  /\ intervals' = intervals /\ sent \subseteq sent'
         /\ queue' = queue \/ ClaimApplied(v, d) \/ CompletionApplied(v, d)
  BY DEF QuietStep, poll, ClaimApplied, FindsNoJob, FindsBadPayload, FindsNoHandler,
     HandlerReturns, CompletionApplied, DiscardAnswered, ClaimFails, Reconnected,
     workerVars, Unanswered

LEMMA QuietKeepsOthers ==
  ASSUME WorkerSound, LeasesSound, HasTime, NEW v \in Workers, NEW d \in Slots[v],
         QuietStep(v, d), NEW w \in Workers \ Faulty, NEW c \in Slots[w], ~(v = w /\ d = c)
  PROVE  KeepsLease(w, c)
<1>0. CallsSound /\ QueueSound
  BY DEF WorkerSound
<1>1. call'[<<w, c>>] = call[<<w, c>>]
  <2>1. PICK rec : Quiet(v, d, rec)
    BY <1>0, QuietSteps
  <2> QED BY <2>1 DEF Quiet, Turns
<1>2. /\ intervals' = intervals /\ sent \subseteq sent'
      /\ queue' = queue \/ ClaimApplied(v, d) \/ CompletionApplied(v, d)
  BY QuietEffects
<1>3. IsState(queue') /\ (holding(call, w, c) => StillLeased(w, call[<<w, c>>].job))
  <2>1. CASE queue' = queue
    BY <1>0, <2>1, SameQueueLeases
  <2>2. CASE ClaimApplied(v, d)
    <3> DEFINE m == claimBy(v)
    <3>1. queue' = applied(m).state /\ m.type = "claim"
      BY <2>2 DEF ClaimApplied, claimBy
    <3> HIDE DEF m
    <3> QED BY <1>0, <3>1, RequestLeases DEF Kinds
  <2>3. CASE CompletionApplied(v, d)
    <3>1. holding(call, w, c) => StillLeased(w, call[<<w, c>>].job)
      BY <2>3, CompletionLeases
    <3>2. IsState(queue')
      <4> DEFINE m == completionOf(v, call[<<v, d>>].job)
      <4>1. queue' = applied(m).state /\ m.type \in Kinds
        BY <2>3 DEF CompletionApplied, completionOf, Kinds
      <4> HIDE DEF m
      <4> QED BY <1>0, <4>1, RequestApplied
    <3> QED BY <3>1, <3>2
  <2> QED BY <1>2, <2>1, <2>2, <2>3
<1> QED BY <1>1, <1>2, <1>3, BystanderKeeps

\* What a call may have become that still holds a job.
LEMMA QuietHolders ==
  ASSUME CallsSound, QueueSound, NEW w \in Workers, NEW c \in Slots[w], QuietStep(w, c),
         holding(call', w, c)
  PROVE  \/ ClaimApplied(w, c)
         \/ HandlerReturns(w, c) /\ call'[<<w, c>>].job = call[<<w, c>>].job
              /\ call[<<w, c>>].pc = "handling" /\ call'[<<w, c>>].pc = "completing"
<1>0. <<w, c>> \in Calls /\ call \in [Calls -> CallRecords]
  BY CallsAre DEF CallsSound
<1>1. PICK rec : Quiet(w, c, rec)
  BY QuietSteps
<1>2. /\ call'[<<w, c>>] = rec
      /\ rec.pc \in AtWork <=> call[<<w, c>>].pc \in AtWork
      /\ rec.pc \in AtWork => rec.job = call[<<w, c>>].job
  BY <1>1 DEF Quiet, Turns
<1>3. CASE HandlerReturns(w, c)
  <2>1. GoOn(w, c, "completing") /\ call[<<w, c>>].pc = "handling" /\ "completing" \in Pcs
    BY <1>3 DEF HandlerReturns, Pcs, AtWork
  <2>2. PICK new : Turns(w, c, new) /\ new.pc = "completing" /\ new.job = call[<<w, c>>].job
    BY <2>1, GoesOn
  <2>3. call'[<<w, c>>] = new
    BY <2>2 DEF Turns
  <2> QED BY <1>3, <2>1, <2>2, <2>3
<1>4. CASE poll(w, c) \/ ClaimFails(w, c)
  <2>1. \E pc \in {"claiming", "reconnecting"} :
           call' = [call EXCEPT ![<<w, c>>] = NewCall(pc, None)]
    BY <1>4 DEF poll, ClaimFails
  <2>2. call'[<<w, c>>].pc \in {"claiming", "reconnecting"}
    BY <1>0, <2>1 DEF NewCall
  <2> QED BY <2>2 DEF holding
<1>5. CASE FindsNoJob(w, c) \/ FindsNoHandler(w, c) \/ DiscardAnswered(w, c) \/ Reconnected(w, c)
  <2>1. call' = [call EXCEPT ![<<w, c>>] = IdleCall]
    BY <1>5 DEF FindsNoJob, FindsNoHandler, DiscardAnswered, Reconnected
  <2>2. call'[<<w, c>>].pc = "idle"
    BY <1>0, <2>1 DEF IdleCall, NewCall
  <2> QED BY <2>2 DEF holding
<1>6. CASE FindsBadPayload(w, c) \/ CompletionApplied(w, c)
  <2>1. \E pc \in {"discarding", "completed", "discarded"} : GoOn(w, c, pc)
    BY <1>6 DEF FindsBadPayload, CompletionApplied
  <2>2. PICK pc \in {"discarding", "completed", "discarded"} : GoOn(w, c, pc)
    BY <2>1
  <2>3. pc \in Pcs
    BY DEF Pcs, AtWork
  <2>4. \E new : Turns(w, c, new) /\ new.pc = pc /\ new.job = call[<<w, c>>].job /\ new.age = 0
    BY <2>2, <2>3, GoesOn
  <2>5. PICK new : Turns(w, c, new) /\ new.pc = pc
    BY <2>4
  <2>6. call'[<<w, c>>].pc = pc
    BY <2>5 DEF Turns
  <2> QED BY <2>6 DEF holding
<1> QED BY <1>3, <1>4, <1>5, <1>6 DEF QuietStep

(* What a claim gives a call that will hold it: a job that was unclaimed,   *)
(* and that is now held in its name, as of now.                            *)
LEMMA ClaimLeases ==
  ASSUME WorkerSound, NEW w \in Workers, NEW c \in Slots[w], ClaimApplied(w, c),
         holding(call', w, c)
  PROVE  /\ IsState(queue') /\ call'[<<w, c>>].pc = "claimed" /\ call'[<<w, c>>].age = 0
         /\ \E job \in JobsOf(queue') :
              /\ job.id = call'[<<w, c>>].job /\ job.workerId = w
              /\ job.status = "in_progress" /\ job.heartbeat = now
         /\ \E st : /\ IsState(st) /\ \E job \in JobsOf(st) :
                         job.id = call'[<<w, c>>].job /\ job.status = "unclaimed"
                    /\ \A old \in JobsOf(queue) :
                         old.status = "in_progress" /\ ~isStale(old, now) => HeldIn(st, old)
<1> DEFINE m == claimBy(w)
           id == applied(m).results[1].claimedJob
           new == applied(m).state
<1>0. CallsSound /\ QueueSound
  BY DEF WorkerSound
<1>1. m.type = "claim" /\ m.workerId = w /\ queue' = new /\ Sets(w, c, NewCall("claimed", id))
  BY DEF ClaimApplied, claimBy, Sets
<1>2. id \in JobIds0 \cup {None} /\ "claimed" \in Pcs
  BY <1>0, ClaimedJobIs DEF Pcs
<1>3. PICK st : Expired(st) /\ Lands(st, m)
  BY <1>0, AppliedIs
<1> HIDE DEF m
<1>4. \/ new = st /\ id = None
      \/ \E job \in JobsOf(st) :
           /\ job.status = "unclaimed" /\ IsState(new) /\ id = job.id
           /\ JobsOf(new) = (JobsOf(st) \ {job}) \cup {claimedBy(job, m.workerId, now)}
  BY <1>1, <1>3, ClaimLands
<1> HIDE DEF id, new
<1>5. call'[<<w, c>>].pc = "claimed" /\ call'[<<w, c>>].age = 0 /\ call'[<<w, c>>].job = id
  <2>1. \E rec : Turns(w, c, rec) /\ rec.pc = "claimed" /\ rec.job = id /\ rec.age = 0
    BY <1>0, <1>1, <1>2, BecomesNew
  <2> QED BY <2>1 DEF Turns
<1>6. PICK job \in JobsOf(st) :
         /\ job.status = "unclaimed" /\ IsState(new) /\ id = job.id
         /\ JobsOf(new) = (JobsOf(st) \ {job}) \cup {claimedBy(job, m.workerId, now)}
  BY <1>4, <1>5 DEF holding
<1>7. LET mine == claimedBy(job, w, now)
      IN /\ mine.id = job.id /\ mine.workerId = w /\ mine.status = "in_progress"
         /\ mine.heartbeat = now
  BY <1>3, <1>6, JobsAreJobs DEF Expired, IsJob, claimedBy
<1> DEFINE mine == claimedBy(job, w, now)
<1>8. mine \in JobsOf(queue')
  BY <1>1, <1>6
<1> HIDE DEF mine
<1>9. \E j \in JobsOf(queue') : /\ j.id = call'[<<w, c>>].job /\ j.workerId = w
                                /\ j.status = "in_progress" /\ j.heartbeat = now
  BY <1>5, <1>6, <1>7, <1>8 DEF mine
<1> QED BY <1>1, <1>3, <1>5, <1>6, <1>9 DEF Expired

(* The queue gives a worker no job that one of its calls holds.            *)
LEMMA ClaimNextLeases ==
  ASSUME WorkerSound, LeasesSound, HasTime, NEW v \in Workers, NEW d \in Slots[v],
         ClaimApplied(v, d)
  PROVE  LeasesNext
<1> SUFFICES ASSUME NEW w \in Workers \ Faulty, NEW c \in Slots[w], holding(call', w, c)
             PROVE  /\ Leased(call', intervals', sent', queue', w, c)
                    /\ OneHolder(call', w, c)
  BY DEF LeasesNext
<1>1. QuietStep(v, d)
  BY DEF QuietStep
<1>2. \A u \in Workers \ Faulty : \A b \in Slots[u] : ~(u = v /\ b = d) => KeepsLease(u, b)
  BY <1>1, QuietKeepsOthers
<1>3. ASSUME holding(call', v, d), v \notin Faulty
      PROVE  /\ Leased(call', intervals', sent', queue', v, d)
             /\ \A b \in Slots[v] : b # d /\ holding(call', v, b) =>
                                      call'[<<v, b>>].job # call'[<<v, d>>].job
  <2>1. /\ call'[<<v, d>>].pc = "claimed" /\ call'[<<v, d>>].age = 0
        /\ \E job \in JobsOf(queue') :
             /\ job.id = call'[<<v, d>>].job /\ job.workerId = v
             /\ job.status = "in_progress" /\ job.heartbeat = now
        /\ \E st : /\ IsState(st) /\ \E job \in JobsOf(st) :
                        job.id = call'[<<v, d>>].job /\ job.status = "unclaimed"
                   /\ \A old \in JobsOf(queue) :
                        old.status = "in_progress" /\ ~isStale(old, now) => HeldIn(st, old)
    BY <1>3, ClaimLeases
  <2>2. Leased(call', intervals', sent', queue', v, d)
    BY <2>1 DEF Leased, Renewed, now
  <2>3. ASSUME NEW b \in Slots[v], b # d, holding(call', v, b),
               call'[<<v, b>>].job = call'[<<v, d>>].job
        PROVE  FALSE
    <3>1. holding(call, v, b) /\ call'[<<v, b>>].job = call[<<v, b>>].job
      BY <1>2, <1>3, <2>3 DEF KeepsLease
    <3>2. PICK old \in JobsOf(queue) :
             /\ old.id = call[<<v, b>>].job /\ old.workerId = v /\ old.status = "in_progress"
             /\ Renewed(call, intervals, sent, v, b, old.heartbeat)
      BY <1>3, <3>1 DEF LeasesSound, Leased
    <3>3. IsJob(old) /\ old.heartbeat \in Int
      BY <3>2, JobsAreJobs DEF WorkerSound, QueueSound, IsJob
    <3>4. ~isStale(old, now)
      <4>1. -old.heartbeat <= HeartbeatTimeout
        BY <1>3, <3>2, <3>3, RenewedIsFresh
      <4> QED BY <3>3, <4>1, TimeoutAssumption DEF isStale, now
    <3>5. PICK st : /\ IsState(st) /\ \E job \in JobsOf(st) :
                         job.id = call'[<<v, d>>].job /\ job.status = "unclaimed"
                    /\ HeldIn(st, old)
      BY <2>1, <3>2, <3>4
    <3>6. PICK job \in JobsOf(st) : job.id = old.id /\ job.status = "unclaimed"
      BY <2>3, <3>1, <3>2, <3>5
    <3>7. PICK held \in JobsOf(st) : held.id = old.id /\ held.status = "in_progress"
      BY <3>2, <3>5 DEF HeldIn, StillHeld
    <3>8. job = held
      BY <3>5, <3>6, <3>7, OneJobPerId DEF IsState, IsJobList, JobsOf
    <3> QED BY <3>6, <3>7, <3>8
  <2> QED BY <2>2, <2>3
<1>4. CASE w = v /\ c = d
  BY <1>3, <1>4 DEF OneHolder
<1>5. CASE ~(w = v /\ c = d)
  <2>1. /\ holding(call, w, c) /\ call'[<<w, c>>].job = call[<<w, c>>].job
        /\ Leased(call', intervals', sent', queue', w, c)
    BY <1>2, <1>5 DEF KeepsLease
  <2>2. ASSUME NEW b \in Slots[w], holding(call', w, b),
               call'[<<w, b>>].job = call'[<<w, c>>].job
        PROVE  b = c
    <3>1. CASE w = v /\ b = d
      BY <1>3, <1>5, <2>2, <3>1
    <3>2. CASE ~(w = v /\ b = d)
      <4>1. holding(call, w, b) /\ call'[<<w, b>>].job = call[<<w, b>>].job
        BY <1>2, <2>2, <3>2 DEF KeepsLease
      <4> QED BY <2>1, <2>2, <4>1 DEF LeasesSound, OneHolder
    <3> QED BY <3>1, <3>2
  <2> QED BY <2>1, <2>2 DEF OneHolder
<1> QED BY <1>4, <1>5

(* The steps of a call that neither start nor end its work.                *)
LEMMA QuietLeases ==
  ASSUME WorkerSound, LeasesSound, HasTime, NEW v \in Workers, NEW d \in Slots[v],
         QuietStep(v, d)
  PROVE  LeasesNext
<1>1. CASE ClaimApplied(v, d)
  BY <1>1, ClaimNextLeases
<1>2. CASE ~ClaimApplied(v, d)
  <2>1. \A w \in Workers \ Faulty : \A c \in Slots[w] : ~(w = v /\ c = d) => KeepsLease(w, c)
    BY QuietKeepsOthers
  <2>2. ASSUME v \notin Faulty PROVE KeepsLease(v, d)
    <3>1. CASE ~holding(call', v, d)
      BY <3>1 DEF KeepsLease
    <3>2. CASE holding(call', v, d)
      <4>1. /\ HandlerReturns(v, d) /\ call'[<<v, d>>].job = call[<<v, d>>].job
            /\ call[<<v, d>>].pc = "handling" /\ call'[<<v, d>>].pc = "completing"
        BY <1>2, <3>2, QuietHolders DEF WorkerSound
      <4>2. intervals' = intervals /\ sent' = sent /\ queue' = queue
        BY <4>1 DEF HandlerReturns, workerVars
      <4>3. IsState(queue') /\ StillLeased(v, call[<<v, d>>].job)
        BY <4>2, SameQueueLeases DEF WorkerSound
      <4> QED BY <2>2, <4>1, <4>2, <4>3, BystanderKeeps
    <3> QED BY <3>1, <3>2
  <2>3. \A w \in Workers \ Faulty : \A c \in Slots[w] : KeepsLease(w, c)
    BY <2>1, <2>2
  <2> QED BY <2>3, KeptLeases
<1> QED BY <1>1, <1>2

(* The handler starts, and with it the heartbeats.                         *)
LEMMA StartLeases ==
  ASSUME WorkerSound, LeasesSound, HasTime, NEW v \in Workers, NEW d \in Slots[v],
         StartsHandler(v, d)
  PROVE  LeasesNext
<1>1. PICK rec : Starts(v, d, rec)
  BY StartingStarts DEF WorkerSound
<1>2. /\ hasJob(v, d) /\ typeOf(call[<<v, d>>].job) \notin Missing \cup Malformed
      /\ intervals' = intervals \cup {IntervalOf(v, d, 0)} /\ queue' = queue /\ sent' = sent
  BY DEF StartsHandler
<1>3. IsState(queue') /\ \A w : \A id : StillLeased(w, id)
  BY <1>2, SameQueueLeases DEF WorkerSound
<1>4. ASSUME NEW w \in Workers \ Faulty, NEW c \in Slots[w], ~(w = v /\ c = d)
      PROVE  KeepsLease(w, c)
  <2>1. call'[<<w, c>>] = call[<<w, c>>]
    BY <1>1, <1>4 DEF Starts, Turns
  <2> QED BY <1>2, <1>3, <2>1, BystanderKeeps
<1>5. ASSUME v \notin Faulty PROVE KeepsLease(v, d)
  <2> DEFINE new == IntervalOf(v, d, 0)
             id == call[<<v, d>>].job
  <2>1. /\ holding(call, v, d) /\ call[<<v, d>>].pc = "claimed"
        /\ call'[<<v, d>>].pc = "handling" /\ call'[<<v, d>>].job = id
    BY <1>1, <1>2 DEF holding, hasJob, Starts, Turns
  <2>2. PICK job \in JobsOf(queue) :
           /\ job.id = id /\ job.workerId = v /\ job.status = "in_progress"
           /\ -job.heartbeat <= call[<<v, d>>].age
    BY <1>5, <2>1 DEF LeasesSound, Leased, Renewed
  <2>3. job.heartbeat \in Int /\ call[<<v, d>>].age \in 0..Delay
    BY <2>2, JobsAreJobs, CallIs DEF WorkerSound, QueueSound, IsJob
  <2>4. new \in intervals' /\ new.workerId = v /\ new.call = d /\ new.age = 0
    BY <1>2 DEF IntervalOf
  <2> HIDE DEF new
  <2>5. -job.heartbeat <= new.age + Delay
    BY <2>2, <2>3, <2>4, TimingAssumption
  <2>6. Renewed(call', intervals', sent', v, d, job.heartbeat)
    BY <2>1, <2>4, <2>5 DEF Renewed
  <2> QED BY <1>2, <2>1, <2>2, <2>6 DEF KeepsLease, Leased
<1> QED BY <1>4, <1>5, KeptLeases

(* The finally block leaves the other calls their timers.                  *)
LEMMA EndLeases ==
  ASSUME WorkerSound, LeasesSound, HasTime, NEW v \in Workers, NEW d \in Slots[v],
         EndStep(v, d)
  PROVE  LeasesNext
<1>0. CallsSound /\ QueueSound
  BY DEF WorkerSound
<1>1. PICK rec : Ends(v, d, rec)
  BY <1>0, EndingEnds
<1>2. intervals' = intervals \ ownInterval(v, d) /\ queue' = queue /\ sent \subseteq sent'
  BY <1>0, EndingEnds DEF Finally, EndStep, HandlerThrows, CompletionAnswered, CompletionFails,
     Unanswered
<1>3. IsState(queue') /\ \A w : \A id : StillLeased(w, id)
  BY <1>0, <1>2, SameQueueLeases
<1>4. ASSUME NEW w \in Workers \ Faulty, NEW c \in Slots[w], ~(w = v /\ c = d)
      PROVE  KeepsLease(w, c)
  <2>1. call'[<<w, c>>] = call[<<w, c>>]
    BY <1>1, <1>4 DEF Ends, Turns
  <2>2. \A i \in intervals : i.workerId = w /\ i.call = c => i \in intervals'
    BY <1>2, <1>4 DEF ownInterval
  <2> QED BY <1>2, <1>3, <2>1, <2>2, BystanderKeeps
<1>5. KeepsLease(v, d)
  BY <1>1 DEF Ends, Turns, KeepsLease, holding
<1> QED BY <1>4, <1>5, KeptLeases

(* A timer fires: the lease is renewed once its heartbeat arrives.         *)
LEMMA HeartbeatLeases ==
  ASSUME WorkerSound, LeasesSound, HasTime, NEW i \in intervals, Heartbeat(i)
  PROVE  LeasesNext
<1> DEFINE new == [i EXCEPT !.age = 0]
           r == HeartbeatRequest(i)
<1>1. /\ intervals' = (intervals \ {i}) \cup {new} /\ sent' = sent \cup {r}
      /\ queue' = queue /\ call' = call
  BY DEF Heartbeat, HeartbeatRequest
<1>2. /\ i.workerId \in Workers /\ i.call \in Slots[i.workerId]
      /\ works(call, i.workerId, i.call, i.jobId)
      /\ new.workerId = i.workerId /\ new.call = i.call /\ new.jobId = i.jobId
  <2>1. IsTimer(i, call)
    BY DEF WorkerSound, TimersSound
  <2> QED BY <2>1 DEF IsTimer
<1>3. r.mutation.workerId = i.workerId /\ r.mutation.jobId = i.jobId /\ r.age = 0
  BY HeartbeatRequestIs
<1> HIDE DEF new, r
<1>4. IsState(queue') /\ \A w : \A id : StillLeased(w, id)
  BY <1>1, SameQueueLeases DEF WorkerSound
<1> SUFFICES ASSUME NEW w \in Workers \ Faulty, NEW c \in Slots[w] PROVE KeepsLease(w, c)
  BY KeptLeases
<1>5. CASE ~(i.workerId = w /\ i.call = c)
  <2>1. \A j \in intervals : j.workerId = w /\ j.call = c => j \in intervals'
    BY <1>1, <1>5
  <2> QED BY <1>1, <1>4, <2>1, BystanderKeeps
<1>6. CASE i.workerId = w /\ i.call = c
  <2> SUFFICES ASSUME holding(call, w, c) PROVE Leased(call', intervals', sent', queue', w, c)
    BY <1>1 DEF KeepsLease
  <2>1. PICK job \in JobsOf(queue) :
           /\ job.id = call[<<w, c>>].job /\ job.workerId = w /\ job.status = "in_progress"
           /\ Renewed(call, intervals, sent, w, c, job.heartbeat)
    BY DEF LeasesSound, Leased
  <2>2. call[<<w, c>>].pc \in {"handling", "completing"} /\ call[<<w, c>>].job = i.jobId
    BY <1>2, <1>6 DEF holding, works, AtWork
  <2>3. PICK j \in intervals :
           /\ j.workerId = w /\ j.call = c
           /\ -job.heartbeat <= j.age + Delay \/ Underway(sent, w, j.jobId, job.heartbeat)
    BY <2>1, <2>2 DEF Renewed
  <2>4. j.age \in 0..(Interval + Delay) /\ j.jobId = i.jobId
    BY <2>2, <2>3 DEF WorkerSound, TimersSound, IsTimer, works
  <2>5. job.heartbeat \in Int
    BY <2>1, JobsAreJobs DEF WorkerSound, QueueSound, IsJob
  <2>6. Underway(sent', w, i.jobId, job.heartbeat)
    <3>1. CASE -job.heartbeat <= j.age + Delay
      <4>1. -job.heartbeat <= Interval + 2 * Delay + r.age
        BY <1>3, <2>4, <2>5, <3>1, TimingAssumption
      <4> QED BY <1>1, <1>3, <1>6, <4>1 DEF Underway
    <3>2. CASE Underway(sent, w, j.jobId, job.heartbeat)
      BY <1>1, <2>4, <3>2 DEF Underway
    <3> QED BY <2>3, <3>1, <3>2
  <2>7. Renewed(call', intervals', sent', w, c, job.heartbeat)
    BY <1>1, <1>2, <1>6, <2>2, <2>6 DEF Renewed
  <2> QED BY <1>1, <2>1, <2>7 DEF Leased
<1> QED BY <1>5, <1>6

(* A heartbeat that arrives renews the lease it was sent for.              *)
LEMMA ArrivedHeartbeat ==
  ASSUME WorkerSound, LeasesSound, HasTime, NEW r \in sent, SentApplied(r),
         NEW w \in Workers \ Faulty, NEW c \in Slots[w], holding(call, w, c),
         r.mutation.type = "heartbeat", r.mutation.workerId = w,
         r.mutation.jobId = call[<<w, c>>].job
  PROVE  Leased(call', intervals', sent', queue', w, c)
<1> DEFINE m == r.mutation
           id == call[<<w, c>>].job
<1>1. PICK old \in JobsOf(queue) :
         /\ old.id = id /\ old.workerId = w /\ old.status = "in_progress"
         /\ Renewed(call, intervals, sent, w, c, old.heartbeat)
  BY DEF LeasesSound, Leased
<1>2. IsJob(old) /\ old.heartbeat \in Int /\ QueueSound
  BY <1>1, JobsAreJobs DEF WorkerSound, QueueSound, IsJob
<1>3. ~isStale(old, now)
  <2>1. -old.heartbeat <= HeartbeatTimeout
    BY <1>1, <1>2, RenewedIsFresh
  <2> QED BY <1>2, <2>1, TimeoutAssumption DEF isStale, now
<1>4. PICK st : Expired(st) /\ Lands(st, m)
  BY <1>2, AppliedIs
<1>5. PICK job \in JobsOf(st) : StillHeld(old, job)
  BY <1>1, <1>3, <1>4 DEF Expired, HeldIn
<1>6. /\ job.id = id /\ job.workerId = w /\ job.status = "in_progress"
      /\ IsState(st) /\ IsJob(job)
  BY <1>1, <1>4, <1>5, JobsAreJobs DEF StillHeld, Expired
<1> DEFINE new == [job EXCEPT !.heartbeat = now]
<1>7. new \in JobsOf(queue')
  <2>1. queue' = heartbeatJob(st, job.id, job.workerId, now)
    BY <1>4, <1>6 DEF SentApplied, Lands, applyMutation
  <2>2. now \in Int
    BY DEF now
  <2>3. [job EXCEPT !.heartbeat = now] \in JobsOf(heartbeatJob(st, job.id, job.workerId, now))
    BY <1>6, <2>2, HeartbeatArrives
  <2> QED BY <2>1, <2>3
<1>8. new.id = id /\ new.workerId = w /\ new.status = "in_progress" /\ new.heartbeat = 0
  BY <1>6 DEF IsJob, now
<1> HIDE DEF new
<1>9. call' = call /\ intervals' = intervals
  BY DEF SentApplied, workerVars
<1>10. Renewed(call', intervals', sent', w, c, 0)
  <2>1. CASE call[<<w, c>>].pc = "claimed"
    <3>1. call[<<w, c>>].age \in 0..Delay
      BY CallIs DEF WorkerSound
    <3> QED BY <1>9, <2>1, <3>1 DEF Renewed
  <2>2. CASE call[<<w, c>>].pc \in {"handling", "completing"}
    <3>1. PICK i \in intervals : i.workerId = w /\ i.call = c
      BY <1>1, <2>2 DEF Renewed
    <3>2. i.age \in 0..(Interval + Delay)
      BY DEF WorkerSound, TimersSound, IsTimer
    <3>3. -0 <= i.age + Delay
      BY <3>2, TimingAssumption
    <3> QED BY <1>9, <2>2, <3>1, <3>3 DEF Renewed
  <2> QED BY <2>1, <2>2 DEF holding
<1> QED BY <1>7, <1>8, <1>9, <1>10 DEF Leased

LEMMA SentLeases ==
  ASSUME WorkerSound, LeasesSound, HasTime, NEW r \in sent, SentStep(r)
  PROVE  LeasesNext
<1> DEFINE m == r.mutation
<1>1. /\ call' = call /\ intervals' = intervals /\ sent' = sent \ {r}
      /\ \/ SentApplied(r) /\ queue' = applied(m).state
         \/ SentLost(r) /\ queue' = queue
  <2>1. CASE SentApplied(r)
    BY <2>1 DEF SentApplied, workerVars
  <2>2. CASE SentLost(r)
    BY <2>2 DEF SentLost, workerVars
  <2> QED BY <2>1, <2>2 DEF SentStep
<1>2. m.type \in Kinds /\ (m.workerId \notin Faulty => m.type = "heartbeat") /\ QueueSound
  BY DEF WorkerSound, RequestsSound, IsRequest, Kinds
<1> SUFFICES ASSUME NEW w \in Workers \ Faulty, NEW c \in Slots[w], holding(call, w, c)
             PROVE  Leased(call', intervals', sent', queue', w, c)
  BY <1>1, KeptLeases DEF KeepsLease
<1> DEFINE id == call[<<w, c>>].job
<1> HIDE DEF m
<1>3. CASE m.workerId = w /\ m.jobId = id
  <2>1. SentApplied(r) /\ m.type = "heartbeat"
    BY <1>1, <1>2, <1>3 DEF SentLost, m
  <2> QED BY <1>3, <2>1, ArrivedHeartbeat DEF m
<1>4. CASE ~(m.workerId = w /\ m.jobId = id)
  <2>1. \A q \in sent : q.mutation.workerId = w /\ q.mutation.jobId = id => q \in sent'
    BY <1>1, <1>4 DEF m
  <2>2. IsState(queue') /\ StillLeased(w, id)
    <3>1. CASE queue' = applied(m).state
      BY <1>2, <1>4, <3>1, RequestLeases
    <3>2. CASE queue' = queue
      BY <1>2, <3>2, SameQueueLeases
    <3> QED BY <1>1, <3>1, <3>2
  <2>3. call'[<<w, c>>] = call[<<w, c>>]
    BY <1>1
  <2> QED BY <1>1, <2>1, <2>2, <2>3, LeaseKept
<1> QED BY <1>3, <1>4

(* A worker that stops or dies takes no other worker's lease.              *)
LEMMA StopLeases ==
  ASSUME WorkerSound, LeasesSound, HasTime, NEW v \in Workers,
         stop(v) \/ StopReturns(v) \/ Crash(v)
  PROVE  LeasesNext
<1>1. queue' = queue /\ sent \subseteq sent'
  BY DEF stop, StopReturns, Crash
<1>2. IsState(queue') /\ \A w : \A id : StillLeased(w, id)
  BY <1>1, SameQueueLeases DEF WorkerSound
<1> SUFFICES ASSUME NEW w \in Workers \ Faulty, NEW c \in Slots[w] PROVE KeepsLease(w, c)
  BY KeptLeases
<1>3. <<w, c>> \in Calls /\ <<w, c>>[1] = w
  BY CallsAre
<1>4. CASE StopReturns(v)
  <2>1. call' = call /\ intervals' = intervals
    BY <1>4 DEF StopReturns
  <2> QED BY <1>1, <1>2, <2>1, BystanderKeeps
<1>5. CASE stop(v)
  <2>1. v # w
    BY <1>5 DEF stop
  <2>2. \E flag : call'[<<w, c>>] = [call[<<w, c>>] EXCEPT !.aborted = flag]
    BY <1>3, <1>5 DEF stop
  <2>3. /\ call'[<<w, c>>].pc = call[<<w, c>>].pc /\ call'[<<w, c>>].job = call[<<w, c>>].job
        /\ call'[<<w, c>>].age = call[<<w, c>>].age
    <3>1. call[<<w, c>>] \in CallRecords
      BY CallIs DEF WorkerSound
    <3> QED BY <2>2, <3>1 DEF CallRecords
  <2>4. \A i \in intervals : i.workerId = w => i \in intervals'
    BY <1>5, <2>1 DEF stop
  <2> QED BY <1>1, <1>2, <2>3, <2>4, BystanderKeeps
<1>6. CASE Crash(v)
  <2>1. v # w
    BY <1>6 DEF Crash
  <2>2. call'[<<w, c>>] = call[<<w, c>>]
    BY <1>3, <1>6, <2>1 DEF Crash
  <2>3. \A i \in intervals : i.workerId = w => i \in intervals'
    BY <1>6, <2>1 DEF Crash
  <2> QED BY <1>1, <1>2, <2>2, <2>3, BystanderKeeps
<1> QED BY <1>4, <1>5, <1>6

(* A tick makes the lease older, and what will renew it.                   *)
LEMMA TickLeases ==
  ASSUME WorkerSound, LeasesSound, HasTime, Tick
  PROVE  LeasesNext
<1>0. Interval \in Nat /\ Delay \in Nat /\ 2 * Delay \in Nat
  BY TimingAssumption
<1>1. /\ intervals' = {[i EXCEPT !.age = older(i.workerId, @)] : i \in intervals}
      /\ sent' = {[r EXCEPT !.age = older(r.mutation.workerId, @)] : r \in sent}
  BY DEF Tick
<1>2. JobsOf(queue') = {agedJob(job) : job \in JobsOf(queue)}
  BY TickQueue DEF WorkerSound
<1>3. \A w \in Workers : \A c \in Slots[w] :
         /\ call'[<<w, c>>].pc = call[<<w, c>>].pc /\ call'[<<w, c>>].job = call[<<w, c>>].job
         /\ hasJob(w, c) /\ w \notin Faulty => call'[<<w, c>>].age = call[<<w, c>>].age + 1
  <2> TAKE w \in Workers
  <2> TAKE c \in Slots[w]
  <2>1. <<w, c>> \in Calls /\ <<w, c>>[1] = w /\ <<w, c>>[2] = c
    BY CallsAre
  <2>2. call'[<<w, c>>] = IF hasJob(w, c)
                          THEN [call[<<w, c>>] EXCEPT !.age = older(w, @)] ELSE call[<<w, c>>]
    BY <2>1 DEF Tick
  <2>3. call[<<w, c>>] \in CallRecords
    BY CallIs DEF WorkerSound
  <2> QED BY <2>2, <2>3 DEF CallRecords, older
<1> SUFFICES ASSUME NEW w \in Workers \ Faulty, NEW c \in Slots[w] PROVE KeepsLease(w, c)
  BY KeptLeases
<1>4. holding(call', w, c) => holding(call, w, c)
  BY <1>3 DEF holding
<1> SUFFICES ASSUME holding(call, w, c) PROVE Leased(call', intervals', sent', queue', w, c)
  BY <1>3, <1>4 DEF KeepsLease
<1>5. PICK old \in JobsOf(queue) :
         /\ old.id = call[<<w, c>>].job /\ old.workerId = w /\ old.status = "in_progress"
         /\ Renewed(call, intervals, sent, w, c, old.heartbeat)
  BY DEF LeasesSound, Leased
<1> DEFINE job == agedJob(old)
<1>6. IsJob(old) /\ old.heartbeat \in Int
  BY <1>5, JobsAreJobs DEF WorkerSound, QueueSound, IsJob
<1>7. /\ job \in JobsOf(queue') /\ job.id = old.id /\ job.workerId = w
      /\ job.status = "in_progress"
      /\ job.heartbeat \in Int /\ job.heartbeat >= old.heartbeat - 1
  BY <1>2, <1>5, <1>6, AgedJobIs
<1> HIDE DEF job
<1>8. \A n \in Int : -old.heartbeat <= n => -job.heartbeat <= n + 1
  BY <1>6, <1>7
<1>9. ASSUME NEW id, Underway(sent, w, id, old.heartbeat)
      PROVE  Underway(sent', w, id, job.heartbeat)
  <2>1. PICK r \in sent : /\ r.mutation.workerId = w /\ r.mutation.jobId = id
                          /\ -old.heartbeat <= Interval + 2 * Delay + r.age
    BY <1>9 DEF Underway
  <2>2. r = [mutation |-> r.mutation, age |-> r.age] /\ r.age \in Nat
    BY DEF WorkerSound, RequestsSound, IsRequest
  <2> DEFINE aged == [r EXCEPT !.age = older(r.mutation.workerId, @)]
  <2>3. aged \in sent'
    BY <1>1
  <2>4. aged.mutation = r.mutation /\ aged.age = r.age + 1
    BY <2>1, <2>2 DEF older
  <2> HIDE DEF aged
  <2>5. -job.heartbeat <= Interval + 2 * Delay + aged.age
    <3>1. Interval + 2 * Delay + r.age \in Int
      BY <1>0, <2>2
    <3>2. -job.heartbeat <= (Interval + 2 * Delay + r.age) + 1
      BY <1>8, <2>1, <3>1
    <3> QED BY <1>0, <1>7, <2>2, <2>4, <3>2
  <2> QED BY <2>1, <2>3, <2>4, <2>5 DEF Underway
<1>10. Renewed(call', intervals', sent', w, c, job.heartbeat)
  <2>1. CASE call[<<w, c>>].pc = "claimed"
    <3>1. hasJob(w, c) /\ -old.heartbeat <= call[<<w, c>>].age
      BY <1>5, <2>1 DEF hasJob, holding, Renewed
    <3>2. call[<<w, c>>].age \in Int
      BY CallIs DEF WorkerSound
    <3> QED BY <1>3, <1>8, <2>1, <3>1, <3>2 DEF Renewed
  <2>2. CASE call[<<w, c>>].pc \in {"handling", "completing"}
    <3>1. PICK i \in intervals :
             /\ i.workerId = w /\ i.call = c
             /\ -old.heartbeat <= i.age + Delay \/ Underway(sent, w, i.jobId, old.heartbeat)
      BY <1>5, <2>2 DEF Renewed
    <3>2. /\ i = [workerId |-> i.workerId, call |-> i.call, jobId |-> i.jobId, age |-> i.age]
          /\ i.age \in 0..(Interval + Delay)
      BY DEF WorkerSound, TimersSound, IsTimer
    <3> DEFINE aged == [i EXCEPT !.age = older(i.workerId, @)]
    <3>3. aged \in intervals'
      BY <1>1
    <3>4. /\ aged.workerId = w /\ aged.call = c /\ aged.jobId = i.jobId
          /\ aged.age = i.age + 1
      BY <3>1, <3>2 DEF older
    <3> HIDE DEF aged
    <3>5. -old.heartbeat <= i.age + Delay => -job.heartbeat <= aged.age + Delay
      <4>1. i.age + Delay \in Int
        BY <1>0, <3>2
      <4>2. -old.heartbeat <= i.age + Delay => -job.heartbeat <= (i.age + Delay) + 1
        BY <1>8, <4>1
      <4> QED BY <1>0, <1>7, <3>2, <3>4, <4>2
    <3>6. -job.heartbeat <= aged.age + Delay \/ Underway(sent', w, aged.jobId, job.heartbeat)
      BY <1>9, <3>1, <3>4, <3>5
    <3> QED BY <1>3, <2>2, <3>3, <3>4, <3>6 DEF Renewed
  <2> QED BY <2>1, <2>2 DEF holding
<1> QED BY <1>3, <1>5, <1>7, <1>10 DEF Leased

LEMMA LeasesStep ==
  ASSUME WorkerSound, LeasesSound, HasTime, Next
  PROVE  LeasesNext
<1>1. ASSUME NEW w \in Workers, NEW c \in Slots[w],
             QuietStep(w, c) \/ StartsHandler(w, c) \/ EndStep(w, c)
      PROVE  LeasesNext
  BY <1>1, QuietLeases, StartLeases, EndLeases
<1>2. ASSUME NEW w \in Workers, stop(w) \/ StopReturns(w) \/ Crash(w) PROVE LeasesNext
  BY <1>2, StopLeases
<1>3. ASSUME NEW r \in sent, SentStep(r) PROVE LeasesNext
  BY <1>3, SentLeases
<1>4. ASSUME NEW i \in intervals, Heartbeat(i) PROVE LeasesNext
  BY <1>4, HeartbeatLeases
<1>5. CASE Tick
  BY <1>5, TickLeases
<1> QED BY <1>1, <1>2, <1>3, <1>4, <1>5 DEF Next, QuietStep, EndStep, SentStep

LEMMA AlwaysLeased ==
  ASSUME HasTime
  PROVE  Spec => [](WorkerSound /\ LeasesSound)
<1>1. Init => LeasesSound
  <2> SUFFICES ASSUME Init PROVE LeasesSound
    OBVIOUS
  <2>1. \A w \in Workers : \A c \in Slots[w] : call[<<w, c>>].pc = "idle"
    BY CallsAre DEF Init, IdleCall, NewCall
  <2> QED BY <2>1 DEF LeasesSound, holding
<1>2. ASSUME WorkerSound, LeasesSound, Next PROVE LeasesSound'
  BY <1>2, BacklogStays, LeasesStep, LeasesPrimed
<1>3. ASSUME WorkerSound, LeasesSound, UNCHANGED vars PROVE LeasesSound'
  <2>1. /\ backlog' = backlog /\ queue' = queue /\ call' = call
        /\ intervals' = intervals /\ sent' = sent
    BY <1>3 DEF vars, workerVars
  <2>2. LeasesNext
    BY <1>3, <2>1 DEF LeasesNext, LeasesSound
  <2> QED BY <2>1, <2>2, LeasesPrimed
<1>4. WorkerSound /\ LeasesSound /\ [Next]_vars => (WorkerSound /\ LeasesSound)'
  BY <1>2, <1>3, WorkerNext
<1> QED BY <1>1, <1>4, WorkerInit, PTL DEF Spec

(* A worker whose timers and requests are on time keeps its job from the   *)
(* claim until the completion is applied, whatever the other workers do,   *)
(* when a heartbeat interval and three delays fit into the timeout: the    *)
(* timer may fire late, the heartbeat may arrive late, and the claim's     *)
(* answer may have been late before.                                       *)
THEOREM PunctualWorkerKeepsJob ==
  ASSUME HasTime
  PROVE  Spec => []PunctualKeepsJob
<1>1. WorkerSound /\ LeasesSound => PunctualKeepsJob
  <2> SUFFICES ASSUME WorkerSound, LeasesSound,
                      NEW w \in Workers \ Faulty, NEW c \in Slots[w], holding(call, w, c)
               PROVE  heldIndex(queue, call[<<w, c>>].job, w) # 0
    BY DEF PunctualKeepsJob, holding
  <2>1. PICK job \in JobsOf(queue) :
           job.id = call[<<w, c>>].job /\ job.workerId = w /\ job.status = "in_progress"
    BY DEF LeasesSound, Leased
  <2>2. heldIndex(queue, job.id, job.workerId) # 0
    BY <2>1, HeldIndexFinds DEF WorkerSound, QueueSound
  <2> QED BY <2>1, <2>2
<1> QED BY <1>1, AlwaysLeased, PTL

=============================================================================
