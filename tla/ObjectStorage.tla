---------------------------- MODULE ObjectStorage ----------------------------
(***************************************************************************)
(* The storage backends (packages/storage/src/memory.ts, s3.ts, gcs.ts)    *)
(* under callers that use them as the engine does: they keep the contents  *)
(* and the version they saw last, extend the contents, and write them back *)
(* under that version.  The contents are the sequence of the updates that  *)
(* they hold.                                                              *)
(*                                                                         *)
(* A call is one request to the store, except on Google Cloud Storage: its *)
(* calls are two, and anything may happen between them.  A request is sent,*)
(* takes effect, and is answered; it may be repeated by the library that   *)
(* sent it, or fail, before or after its effect.                           *)
(***************************************************************************)
EXTENDS Sequences, Integers, FiniteSets

CONSTANTS None,
          Callers,
          Backends,    \* subset of {"memory", "s3", "gcs"}
          MaxUpdates,  \* updates each caller makes
          MaxFaults    \* bound on failing and repeated requests

ASSUME BackendsAssumption == Backends \subseteq {"memory", "s3", "gcs"}
ASSUME UpdatesAssumption == MaxUpdates \in Nat /\ MaxFaults \in Nat

VARIABLES
    backend,
    object,    \* the one key: its contents, and how often it was written
    call,      \* the call of each caller
    known,     \* the contents and the version each caller holds
    made,      \* how many updates each caller has seen through
    late,      \* writes whose caller gave them up, and that may still land
    faults,    \* how many faults there were
    acked,     \* history: acknowledged updates
    repeated,  \* history: updates whose landed write was sent again
    raced      \* history: a write landed between the two requests of a call

callerVars == <<call, known, made>>
history == <<acked, repeated, raced>>
vars == <<backend, object, callerVars, late, faults, history>>

\* An ETag is the hash of the contents; the other versions are counters.
tokenOf(contents, n) == IF backend = "s3" THEN contents ELSE <<n>>
absent == object.written = 0
version == tokenOf(object.contents, object.written)

update(c) == <<c, made[c]>>

NewCall(op, pc, contents, expected, answer) ==
    [op |-> op, pc |-> pc, contents |-> contents, expected |-> expected, answer |-> answer]
Idle == NewCall("none", "idle", <<>>, None, None)
Starting == NewCall("none", "starting", <<>>, None, None)

Init ==
    /\ backend \in Backends
    /\ object = [contents |-> <<>>, written |-> 0]
    /\ call = [c \in Callers |-> Starting]
    /\ known = [c \in Callers |-> [contents |-> <<>>, version |-> None]]
    /\ made = [c \in Callers |-> 0]
    /\ late = {} /\ faults = 0
    /\ acked = {} /\ repeated = {} /\ raced = FALSE

-----------------------------------------------------------------------------
(* The calls.                                                              *)

Send(c, op, contents, expected) ==
    /\ call' = [call EXCEPT ![c] = NewCall(op, "sent", contents, expected, None)]
    /\ UNCHANGED <<backend, object, known, made, late, faults, history>>

mayCreate(c) == call[c].pc = "starting"
mayRead(c) == call[c].pc = "idle" /\ known[c].version = None
mayWrite(c) == call[c].pc = "idle" /\ known[c].version # None /\ made[c] < MaxUpdates

createIfNotExists(c) == mayCreate(c) /\ Send(c, "create", <<>>, None)
read(c) == mayRead(c) /\ Send(c, "read", <<>>, None)
write(c) ==
    /\ mayWrite(c)
    /\ Send(c, "write", Append(known[c].contents, update(c)), known[c].version)

-----------------------------------------------------------------------------
(* Requests take effect.                                                   *)

\* The condition that comes with a request.
holds(r) ==
    CASE r.op = "create" -> absent
      [] r.op = "write"  -> ~absent /\ r.expected = version

\* On GCS a second request asks for the generation, whatever it is by then.
Served(r, contents, answer) ==
    IF backend = "gcs"
    THEN NewCall(r.op, "lookup", contents, r.expected, None)
    ELSE NewCall(r.op, "answered", contents, r.expected, answer)

betweenRequests(c) == call[c].pc = "lookup"

Land(r, others) ==
    /\ object' = [contents |-> r.contents, written |-> object.written + 1]
    /\ raced' = (raced \/ \E d \in others : betweenRequests(d))

ReadServed(c) ==
    /\ call[c].pc = "sent" /\ call[c].op = "read"
    /\ ~absent
    /\ call' = [call EXCEPT ![c] = Served(call[c], object.contents, version)]
    /\ UNCHANGED <<backend, object, known, made, late, faults, history>>

\* Mutant: the write carries no condition.
PutServed(c) ==
    /\ call[c].pc = "sent" /\ call[c].op \in {"create", "write"}
    /\ Land(call[c], Callers \ {c})
    /\ call' = [call EXCEPT ![c] =
          Served(call[c], call[c].contents, tokenOf(call[c].contents, object.written + 1))]
    /\ UNCHANGED <<backend, known, made, late, faults, acked, repeated>>

WriteServed(c) ==
    /\ call[c].pc = "sent" /\ call[c].op \in {"create", "write"}
    /\ holds(call[c])
    /\ Land(call[c], Callers \ {c})
    /\ call' = [call EXCEPT ![c] =
          Served(call[c], call[c].contents, tokenOf(call[c].contents, object.written + 1))]
    /\ UNCHANGED <<backend, known, made, late, faults, acked, repeated>>

WriteRefused(c) ==
    /\ call[c].pc = "sent" /\ call[c].op \in {"create", "write"}
    /\ ~holds(call[c])
    /\ call' = [call EXCEPT ![c].pc = "refused"]
    /\ UNCHANGED <<backend, object, known, made, late, faults, history>>

\* getMetadata.
Lookup(c) ==
    /\ betweenRequests(c)
    /\ call' = [call EXCEPT ![c].pc = "answered", ![c].answer = version]
    /\ UNCHANGED <<backend, object, known, made, late, faults, history>>

-----------------------------------------------------------------------------
(* Answers arrive.                                                         *)

\* The contents of a read or of an acknowledged write are kept with its version.
Succeeds(c) ==
    /\ call[c].pc = "answered"
    /\ known' = [known EXCEPT ![c] =
                   [contents |-> call[c].contents, version |-> call[c].answer]]
    /\ acked' = acked \cup (IF call[c].op = "write" THEN {update(c)} ELSE {})
    /\ made' = [made EXCEPT ![c] = @ + (IF call[c].op = "write" THEN 1 ELSE 0)]
    /\ call' = [call EXCEPT ![c] = Idle]
    /\ UNCHANGED <<backend, object, late, faults, repeated, raced>>

\* Mutant: after a conflict only the version is looked up.
ConflictRefreshesVersion(c) ==
    /\ call[c].pc = "refused"
    /\ known' = [known EXCEPT ![c].version = version]
    /\ call' = [call EXCEPT ![c] = Idle]
    /\ UNCHANGED <<backend, object, made, late, faults, history>>

\* CASConflictError: the caller reads again and repeats its update.
Conflicts(c) ==
    /\ call[c].pc = "refused"
    /\ known' = [known EXCEPT ![c].version = None]
    /\ call' = [call EXCEPT ![c] = Idle]
    /\ UNCHANGED <<backend, object, made, late, faults, history>>

-----------------------------------------------------------------------------
(* Requests fail.                                                          *)

Fault == faults < MaxFaults /\ faults' = faults + 1

\* In memory a call fails before it does anything; over a network it may fail
\* with its request under way, after its effect, or between its two requests.
mayFail(c) ==
    /\ call[c].op # "none"
    /\ backend = "memory" => call[c].pc = "sent"

onTheWay(c) ==
    IF backend # "memory" /\ call[c].pc = "sent" /\ call[c].op # "read"
    THEN {call[c]} ELSE {}

\* Mutant: an update whose write failed is made again.
FailureIsRetried(c) ==
    /\ Fault /\ mayFail(c)
    /\ late' = late \cup onTheWay(c)
    /\ known' = [known EXCEPT ![c].version = None]
    /\ call' = [call EXCEPT ![c] = IF call[c].op = "create" THEN Starting ELSE Idle]
    /\ UNCHANGED <<backend, object, made, history>>

\* StorageBackendError: the update is given up, and the caller keeps what it knew.
Fails(c) ==
    /\ Fault /\ mayFail(c)
    /\ late' = late \cup onTheWay(c)
    /\ made' = [made EXCEPT ![c] = @ + (IF call[c].op = "write" THEN 1 ELSE 0)]
    /\ call' = [call EXCEPT ![c] = IF call[c].op = "create" THEN Starting ELSE Idle]
    /\ UNCHANGED <<backend, object, known, history>>

LateLands(r) ==
    /\ r \in late /\ holds(r)
    /\ late' = late \ {r}
    /\ Land(r, Callers)
    /\ UNCHANGED <<backend, callerVars, faults, acked, repeated>>

LateRefused(r) ==
    /\ r \in late /\ ~holds(r)
    /\ late' = late \ {r}
    /\ UNCHANGED <<backend, object, callerVars, faults, history>>

\* The client library gets no answer to a write that landed and sends it again.
Repeats(c) ==
    /\ Fault /\ backend # "memory"
    /\ call[c].op \in {"create", "write"}
    /\ \/ backend = "s3" /\ call[c].pc = "answered"
       \/ betweenRequests(c)
    /\ call' = [call EXCEPT ![c].pc = "sent", ![c].answer = None]
    /\ repeated' = repeated \cup (IF call[c].op = "write" THEN {update(c)} ELSE {})
    /\ UNCHANGED <<backend, object, known, made, late, acked, raced>>

Steps(c) ==
    \/ ReadServed(c) \/ WriteServed(c) \/ WriteRefused(c) \/ Lookup(c)
    \/ Succeeds(c) \/ Conflicts(c) \/ Fails(c) \/ Repeats(c)

Lates == \E r \in late : LateLands(r) \/ LateRefused(r)

Next ==
    \/ \E c \in Callers : createIfNotExists(c) \/ read(c) \/ write(c) \/ Steps(c)
    \/ Lates

Spec == Init /\ [][Next]_vars
=============================================================================
