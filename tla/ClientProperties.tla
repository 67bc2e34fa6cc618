-------------------------- MODULE ClientProperties --------------------------
(***************************************************************************)
(* What a client and its transports promise.                               *)
(***************************************************************************)
EXTENDS ClientSession

CONSTANTS ApiCalls,   \* calls of the client, with their arguments
          ApiJobs,    \* jobs as the engine grants them to a claim
          ApiStates   \* cached states of the engine

\* The signatures of the client: what is a string, a number or a list is never null.
ASSUME CallsAssumption ==
    \A c \in ApiCalls :
        \/ /\ c.op = "submitJob" /\ c = submitCall(c.type, c.payload, c.maxAttempts)
           /\ c.type # Null /\ c.maxAttempts # Null /\ c.payload # Empty
        \/ /\ c.op = "claimJob" /\ c = claimCall(c.workerId, c.types)
           /\ c.types # Null /\ c.workerId \notin {None, Null}
        \/ /\ c.op \in {"heartbeat", "completeJob"} /\ c = reportCall(c.op, c.jobId, c.workerId)
           /\ c.jobId \notin {None, Null} /\ c.workerId \notin {None, Null}

\* A job has an id, a status and a number of attempts; a state lists jobs.
ASSUME JobsAssumption == \A job \in ApiJobs : job # None /\ job.id \notin {None, Null, Empty}
ASSUME StatesAssumption ==
    /\ 0 # None
    /\ \A state \in ApiStates :
         /\ state.jobs \in Seq({state.jobs[i] : i \in DOMAIN state.jobs})
         /\ \A i \in DOMAIN state.jobs :
              /\ state.jobs[i].status \in {"unclaimed", "in_progress"} \ {None}
              /\ state.jobs[i].id # None /\ state.jobs[i].attempts # None

(* The state is well formed: ids are unique among the entries of a map     *)
(* `pending`, and an adapter's socket is one of its own.                   *)
TypeOK ==
    /\ adapter \in Adapters \cup {None}
    /\ \A r \in Requests : req[r].pc \in {"new", "discovering", "opening", "waiting", "settled"}
    /\ \A e, f \in pending : e.adapter = f.adapter /\ e.id = f.id => e = f
    /\ \A a \in Adapters :
         /\ socket[a] # None => sockets[socket[a]].adapter = a
         /\ opening[a] # None => sockets[opening[a]].state \in {"creating", "connecting"}

(* A call that is answered is answered with the result of its own request, *)
(* although answers of an old socket and of calls that were given up       *)
(* arrive late and in any order.                                           *)
AnswersMatch ==
    \A r \in Requests : req[r].outcome = "answered" => req[r].answer = r

(* A call that waits for a message has its entry and so its timer, or is   *)
(* waiting for a socket whose opening has not ended.                       *)
WaitersAreHeld ==
    \A r \in Requests :
        /\ req[r].pc = "waiting" /\ transport = "ws" => \E e \in pending : e.req = r
        /\ req[r].pc = "opening" => sockets[req[r].socket].state \in {"creating", "connecting", "aborting"}

\* The failure of a call, when it fails in a step.  A socket is crossed when
\* its opening began before its adapter's older sockets had their close events.
FailureExplained(r) ==
    LET s == req'[r].socket
    IN req'[r].outcome # req[r].outcome =>
         /\ req'[r].outcome = "closed" =>
              \E t \in Sockets :
                 /\ sockets[t].state # "closed" /\ sockets'[t].state = "closed"
                 /\ t = s \/ (sockets[t].adapter = sockets[s].adapter /\ {s, t} \cap crossed # {})
         /\ req'[r].outcome = "not connected" => s \in crossed
         /\ req'[r].outcome = "raw" => s \in crossed \/ transport = "rest"

(* A call is rejected as closed in the step in which its own socket closes, *)
(* or one of the same adapter that crossed with its own; it is sent on a    *)
(* socket that is not open, or on none, only when its own crossed an older  *)
(* one; and errors are tagged but for those of fetch.  So no socket         *)
(* disturbs the calls of another adapter, or of one opened after its close. *)
FailuresExplained == [][\A r \in Requests : FailureExplained(r)]_vars

(* Calls that find no open socket share one opening (ws.ts:87): a socket    *)
(* whose adapter had no other left when its opening began stays the         *)
(* adapter's while it connects and is open, whatever calls, errors and      *)
(* close events come.  One that crossed an older socket has no such promise *)
(* (ws.ts:108): the close event of the older one makes the adapter forget   *)
(* it, although nobody closes it.                                           *)
SocketsOwned ==
    \A s \in Sockets :
        sockets[s].state \in {"connecting", "open", "lost"} =>
            s \in crossed \/ socket[sockets[s].adapter] = s

(* Every call is settled, whatever happens to sockets and brokers.         *)
EveryCallSettles ==
    \A r \in Requests : req[r].pc # "new" ~> req[r].pc = "settled"

-----------------------------------------------------------------------------
(* The transports are alike.                                               *)

\* What a call asks of the queue: optional arguments that are empty are left out.
meant(c) ==
    CASE c.op = "submitJob" ->
           [type |-> "enqueue",
            jobs |-> <<[payload |-> c.payload, jobType |-> IF c.type = Empty THEN None ELSE c.type,
                        maxAttempts |-> c.maxAttempts]>>]
      [] c.op = "claimJob"  -> [type |-> "claim", workerId |-> c.workerId,
                                jobTypes |-> IF c.types = {} THEN None ELSE c.types]
      [] c.op = "heartbeat" -> [type |-> "heartbeat", jobId |-> c.jobId, workerId |-> c.workerId]
      [] OTHER              -> [type |-> "complete", jobId |-> c.jobId, workerId |-> c.workerId]

(* A call submits the same mutation whichever transport carries it: what   *)
(* is left out, empty or zero arrives as that, or as what the broker takes *)
(* it for.  A job without a payload is refused by Connect alone.           *)
RequestsArrive ==
    \A c \in ApiCalls :
        IF transport = "connect" /\ c.op = "submitJob" /\ c.payload = None
        THEN asked(transport, c) = Refused
        ELSE asked(transport, c) = meant(c)

(* What the broker holds is what the client is told, on every transport: a *)
(* claim returns the granted job, or null when there is none, and the job  *)
(* list has each job of the cached state and counts that add up.  What a   *)
(* job lacks has the same default everywhere.                              *)
AnswersAreTold ==
    /\ \A job \in ApiJobs :
         claimed(transport, job) =
            [jobId |-> job.id, type |-> orElse(job.type, Empty), payload |-> orElse(job.payload, Null)]
    /\ claimed(transport, None) = None
    /\ \A state \in ApiStates :
         LET listed == listJobs(transport, state)
         IN /\ listed.stats.total = listed.stats.unclaimed + listed.stats.inProgress
            /\ \A i \in DOMAIN state.jobs :
                 LET job == state.jobs[i]
                 IN listed.jobs[i] =
                      [id |-> job.id, status |-> job.status, attempts |-> job.attempts,
                       workerId |-> orElse(job.workerId, Empty), type |-> orElse(job.type, Empty),
                       payload |-> encodePayload(job.payload),
                       maxAttempts |-> orElse(job.maxAttempts, 0),
                       heartbeat |-> orElse(job.heartbeat, 0)]
=============================================================================
