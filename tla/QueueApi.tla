------------------------------ MODULE QueueApi ------------------------------
(***************************************************************************)
(* What the three transports make of a call: how it is encoded (client:    *)
(* transports/rest.ts, ws.ts, connect.ts), dispatched and turned into a    *)
(* mutation by the broker (broker: server.ts, service.ts, operations.ts),  *)
(* and how its answer comes back.  The transports are written by hand, one *)
(* beside the other, and are meant to be the same to their users.          *)
(*                                                                         *)
(* JSON leaves undefined fields out; a protobuf message has every field,   *)
(* with a default in the place of what was not set.  A set of job types    *)
(* stands for the list of them.                                            *)
(***************************************************************************)
EXTENDS Integers, Sequences, FiniteSets

CONSTANTS None,   \* undefined
          Null,   \* null
          Empty   \* the empty string, and a payload of no bytes

ASSUME ValuesAssumption == None # Null /\ None # Empty /\ Null # Empty

TransportKinds == {"rest", "ws", "connect"}

\* v ?? w  and  v || w
orElse(v, w) == IF v \in {None, Null} THEN w ELSE v
orIfFalsy(v, w) == IF v \in {None, Null, Empty} THEN w ELSE v

JsonObject(r) == [f \in {g \in DOMAIN r : r[g] # None} |-> r[f]]
field(m, f) == IF f \in DOMAIN m THEN m[f] ELSE None

\* JSON.stringify(undefined) encodes to no bytes, and these do not parse.
encodePayload(payload) == IF payload = None THEN Empty ELSE payload
parses(bytes) == bytes # Empty

-----------------------------------------------------------------------------
(* The calls of the client.                                                *)

submitCall(type, payload, maxAttempts) ==
    [op |-> "submitJob", type |-> type, payload |-> payload, maxAttempts |-> maxAttempts]
claimCall(workerId, types) == [op |-> "claimJob", workerId |-> workerId, types |-> types]
reportCall(op, jobId, workerId) == [op |-> op, jobId |-> jobId, workerId |-> workerId]

-----------------------------------------------------------------------------
(* The mutation an operation of the broker submits to the engine.          *)

submitJobOperation(payload, type, maxAttempts) ==
    [type |-> "enqueue",
     jobs |-> <<[payload |-> payload, jobType |-> orIfFalsy(type, None),
                 maxAttempts |-> orElse(maxAttempts, None)]>>]

\* Mutant: a list without types is a filter like any other.
EmptyFilterKept(workerId, types) ==
    [type |-> "claim", workerId |-> workerId, jobTypes |-> types]
claimJobOperation(workerId, types) ==
    [type |-> "claim", workerId |-> workerId,
     jobTypes |-> IF types \in {None, {}} THEN None ELSE types]

heartbeatOperation(jobId, workerId) ==
    [type |-> "heartbeat", jobId |-> jobId, workerId |-> workerId]
completeJobOperation(jobId, workerId) ==
    [type |-> "complete", jobId |-> jobId, workerId |-> workerId]
Refused == [type |-> "refused"]

-----------------------------------------------------------------------------
(* REST: the job id is part of the path, the rest is in the body.          *)

restBody(c) ==
    CASE c.op = "submitJob" -> JsonObject([payload |-> c.payload, type |-> c.type,
                                           maxAttempts |-> c.maxAttempts])
      [] c.op = "claimJob"  -> JsonObject([workerId |-> c.workerId, types |-> c.types])
      [] OTHER              -> JsonObject([workerId |-> c.workerId])

overRest(c) ==
    LET body == restBody(c)
    IN CASE c.op = "submitJob" -> submitJobOperation(field(body, "payload"), field(body, "type"),
                                                     field(body, "maxAttempts"))
         [] c.op = "claimJob"  -> claimJobOperation(field(body, "workerId"), field(body, "types"))
         [] c.op = "heartbeat" -> heartbeatOperation(c.jobId, field(body, "workerId"))
         [] OTHER              -> completeJobOperation(c.jobId, field(body, "workerId"))

-----------------------------------------------------------------------------
(* Websocket: the parameters of a message, which the broker checks.        *)

wsParams(c) == JsonObject([f \in DOMAIN c \ {"op"} |-> c[f]])

\* String(v ?? ""), and what a typeof or isArray test lets through.
asString(v) == orElse(v, Empty)
ifGiven(v) == orElse(v, None)

dispatchWs(c) ==
    LET params == wsParams(c)
        workerId == asString(field(params, "workerId"))
        jobId == asString(field(params, "jobId"))
    IN CASE c.op = "submitJob" -> submitJobOperation(field(params, "payload"),
                                      ifGiven(field(params, "type")),
                                      ifGiven(field(params, "maxAttempts")))
         [] c.op = "claimJob"  -> claimJobOperation(workerId, ifGiven(field(params, "types")))
         [] c.op = "heartbeat" -> heartbeatOperation(jobId, workerId)
         [] OTHER              -> completeJobOperation(jobId, workerId)

-----------------------------------------------------------------------------
(* Connect: protobuf messages; maxAttempts is optional, types a list.      *)

overConnect(c) ==
    CASE c.op = "submitJob" ->
           LET bytes == encodePayload(c.payload)
           IN IF parses(bytes)
              THEN submitJobOperation(bytes, orIfFalsy(c.type, None), orElse(c.maxAttempts, None))
              ELSE Refused
      [] c.op = "claimJob"  ->
           claimJobOperation(c.workerId, IF c.types \in {None, {}} THEN {} ELSE c.types)
      [] c.op = "heartbeat" -> heartbeatOperation(c.jobId, c.workerId)
      [] OTHER              -> completeJobOperation(c.jobId, c.workerId)

asked(kind, c) ==
    CASE kind = "rest" -> overRest(c)
      [] kind = "ws"   -> dispatchWs(c)
      [] OTHER         -> overConnect(c)

-----------------------------------------------------------------------------
(* The answer to a claim.  A job is [id, payload, type].                   *)

NoAnswer == [jobId |-> None, payload |-> None, type |-> None]
claimAnswer(job) ==
    IF job = None THEN NoAnswer
    ELSE [jobId |-> job.id, payload |-> job.payload, type |-> job.type]

\* REST and websocket.
fromJson(m) ==
    [jobId |-> field(m, "jobId"), type |-> orElse(field(m, "type"), Empty),
     payload |-> orElse(field(m, "payload"), Null)]

\* Mutant: an absent payload is encoded as it is.
EncodesAbsent(a) ==
    IF a.jobId = None THEN [jobId |-> None, payload |-> None, type |-> Empty]
    ELSE [jobId |-> a.jobId, payload |-> encodePayload(a.payload), type |-> orElse(a.type, Empty)]

\* The response of the RPC service: fields are set only when there is a job.
claimResponse(a) ==
    IF a.jobId = None THEN [jobId |-> None, payload |-> None, type |-> Empty]
    ELSE [jobId |-> a.jobId, payload |-> encodePayload(orElse(a.payload, Null)),
          type |-> orElse(a.type, Empty)]

fromConnect(r) ==
    [jobId |-> r.jobId, type |-> r.type, payload |-> IF r.payload = None THEN Null ELSE r.payload]

claimJobResult(a) == IF orIfFalsy(a.jobId, None) = None THEN None ELSE a

claimed(kind, job) ==
    claimJobResult(IF kind = "connect" THEN fromConnect(claimResponse(claimAnswer(job)))
                   ELSE fromJson(JsonObject(claimAnswer(job))))

-----------------------------------------------------------------------------
(* Statistics and the job list, computed from the engine's cached state.   *)

countOf(state, status) == Cardinality({i \in DOMAIN state.jobs : state.jobs[i].status = status})

getQueueStats(state) ==
    [total |-> Len(state.jobs), unclaimed |-> countOf(state, "unclaimed"),
     inProgress |-> countOf(state, "in_progress"), completedTotal |-> state.completedTotal,
     brokerAddress |-> orElse(state.broker, Empty)]

snapshotOf(job) ==
    [id |-> job.id, status |-> job.status, payload |-> job.payload, type |-> job.type,
     workerId |-> job.workerId, attempts |-> job.attempts,
     maxAttempts |-> orElse(job.maxAttempts, 0), heartbeat |-> orElse(job.heartbeat, 0)]

\* JobInfo, as the client fills it from JSON and the service from the snapshot.
infoFromJson(m) ==
    [id |-> m.id, status |-> m.status, payload |-> encodePayload(field(m, "payload")),
     type |-> orElse(field(m, "type"), Empty), workerId |-> orElse(field(m, "workerId"), Empty),
     attempts |-> m.attempts, maxAttempts |-> m.maxAttempts, heartbeat |-> m.heartbeat]

infoFromService(s) ==
    [s EXCEPT !.payload = encodePayload(@), !.type = orElse(@, Empty),
              !.workerId = orElse(@, Empty)]

jobInfo(kind, job) ==
    IF kind = "connect" THEN infoFromService(snapshotOf(job))
    ELSE infoFromJson(JsonObject(snapshotOf(job)))

listJobs(kind, state) ==
    [stats |-> getQueueStats(state),
     jobs |-> [i \in DOMAIN state.jobs |-> jobInfo(kind, state.jobs[i])]]

=============================================================================
