-------------------------- MODULE BrokerLeadership --------------------------
(***************************************************************************)
(* Leader election (packages/core/src/broker-election.ts) and the life of  *)
(* a broker process (packages/broker/src/server.ts): it elects itself by a *)
(* compare-and-swap when the registered broker's heartbeat is stale, starts *)
(* its engine, registers, listens, and then at every interval registers    *)
(* again and checks that it is still the registered broker.                *)
(*                                                                         *)
(* A registration goes through the engine; by GroupCommit it is applied to *)
(* the queue object atomically, once, between submission and answer.  The  *)
(* rest of the object is left out.  A timestamp is kept as its age, and an *)
(* object version as whether it is still the current one, so that time and *)
(* versions may grow for ever.                                             *)
(***************************************************************************)
EXTENDS Integers, FiniteSets

CONSTANTS None,
          Brokers,    \* broker processes
          Address,    \* host:port of each
          Supervised, \* the brokers that are started again after a crash
          Slots,      \* timer callbacks one process may have in flight: 1..n
          Timeout,    \* heartbeatTimeoutMs, in ticks
          Interval,   \* heartbeatIntervalMs
          Delay,      \* bound on the ticks a step of each process may take
          MaxDelay,   \* the largest of them
          MaxCrashes, \* bound on the crashes
          Faults      \* subset of {"storage", "shutdown"}

\* What start() refuses to run with is assumed away.
ASSUME ConfigAccepted ==
    Timeout \in Nat /\ Interval \in Nat /\ Interval < Timeout
ASSUME AddressAssumption == Address \in [Brokers -> STRING] /\ None \notin STRING
ASSUME DelayAssumption == MaxDelay \in Nat /\ Delay \in [Brokers -> 0..MaxDelay]

VARIABLES
    leader,     \* state.broker; None while there is no queue object
    heartbeat,  \* age of state.brokerHeartbeat
    phase,      \* where each process is in BrokerServer.start()
    since,      \* ticks since it entered the phase, or its timer last fired
    current,    \* the version its election read is still the stored one
    beat,       \* its callbacks: registration, then leadership check
    crashes

storeVars == <<leader, heartbeat>>
vars == <<storeVars, phase, since, current, beat, crashes>>

\* An age beyond Old is not told from Old: it is stale for every candidate.
Old == Timeout + 1 + MaxDelay
Callback(pc, stamp, isLeader) == [pc |-> pc, stamp |-> stamp, isLeader |-> isLeader]
NoCallback == Callback("idle", 0, FALSE)

Init ==
    /\ leader = None
    /\ heartbeat = 0
    /\ phase = [b \in Brokers |-> "down"]
    /\ since = [b \in Brokers |-> 0]
    /\ current = [b \in Brokers |-> FALSE]
    /\ beat = [bk \in Brokers \X Slots |-> NoCallback]
    /\ crashes = 0

-----------------------------------------------------------------------------
Enter(b, ph) ==
    /\ phase' = [phase EXCEPT ![b] = ph]
    /\ since' = [since EXCEPT ![b] = 0]

\* A write of broker and heartbeat lands.  Every version read before is out of
\* date now, and so are the requests of dead processes: the store refuses them.
Outdated == [bk \in Brokers \X Slots |->
                IF beat[bk].pc = "orphan" THEN NoCallback ELSE beat[bk]]

Write(b, stamp) ==
    /\ leader' = Address[b]
    /\ heartbeat' = stamp
    /\ current' = [c \in Brokers |-> FALSE]

-----------------------------------------------------------------------------
(* tryElect(): `now` is taken at the call, before the read.                *)

Start(b) ==
    /\ phase[b] = "down"
    /\ Enter(b, "electing")
    /\ UNCHANGED <<storeVars, current, beat, crashes>>

AlwaysStale(b) == FALSE   \* mutant: the heartbeat is not looked at
AlwaysFresh(b) == TRUE    \* mutant: whoever is registered is alive
isFresh(b) == heartbeat - since[b] <= Timeout

FindsNothing(b) ==
    /\ phase[b] = "electing"
    /\ leader = None
    /\ phase' = [phase EXCEPT ![b] = "creating"]
    /\ UNCHANGED <<storeVars, since, current, beat, crashes>>

FindsItself(b) ==
    /\ phase[b] = "electing"
    /\ leader = Address[b] /\ isFresh(b)
    /\ Enter(b, "elected")
    /\ UNCHANGED <<storeVars, current, beat, crashes>>

\* The process exits, and its supervisor starts it again later.
FindsLeader(b) ==
    /\ phase[b] = "electing"
    /\ leader \notin {None, Address[b]} /\ isFresh(b)
    /\ Enter(b, "down")
    /\ UNCHANGED <<storeVars, current, beat, crashes>>

FindsStale(b) ==
    /\ phase[b] = "electing"
    /\ leader # None /\ ~isFresh(b)
    /\ phase' = [phase EXCEPT ![b] = "claiming"]
    /\ current' = [current EXCEPT ![b] = TRUE]
    /\ UNCHANGED <<storeVars, since, beat, crashes>>

\* The conditional write of the election: a create, or a compare-and-swap.
BlindElection(b) == TRUE   \* mutant: an unconditional put
unchanged(b) == IF phase[b] = "creating" THEN leader = None ELSE current[b]

Elected(b) ==
    /\ phase[b] \in {"creating", "claiming"}
    /\ unchanged(b)
    /\ Write(b, since[b])
    /\ beat' = Outdated
    /\ Enter(b, "elected")
    /\ UNCHANGED crashes

ElectionConflict(b) ==
    /\ phase[b] \in {"creating", "claiming"}
    /\ ~unchanged(b)
    /\ Enter(b, "down")
    /\ UNCHANGED <<storeVars, current, beat, crashes>>

\* The write fails for its caller although it reached the store.
ElectionAnswerLost(b) ==
    /\ "storage" \in Faults
    /\ phase[b] \in {"creating", "claiming"}
    /\ unchanged(b)
    /\ Write(b, since[b])
    /\ beat' = Outdated
    /\ Enter(b, "down")
    /\ UNCHANGED crashes

-----------------------------------------------------------------------------
(* The rest of start(): the engine, the first registration, listen().      *)

free(b, k) == beat[<<b, k>>].pc = "idle" /\ \A j \in Slots : j < k => beat[<<b, j>>].pc # "idle"

EngineStarts(b) ==
    /\ phase[b] = "elected"
    /\ Enter(b, "registering")
    /\ \E k \in Slots :
         /\ free(b, k)
         /\ beat' = [beat EXCEPT ![<<b, k>>] = Callback("registering", 0, FALSE)]
    /\ UNCHANGED <<storeVars, current, crashes>>

Listens(b) ==
    /\ phase[b] = "opening"
    /\ Enter(b, "up")
    /\ UNCHANGED <<storeVars, current, beat, crashes>>

\* Any step of start() throws.
StartFails(b) ==
    /\ "storage" \in Faults
    /\ phase[b] \in {"electing", "creating", "claiming", "elected", "opening"}
    /\ Enter(b, "down")
    /\ UNCHANGED <<storeVars, current, beat, crashes>>

-----------------------------------------------------------------------------
(* The heartbeat timer.                                                    *)

due(b) == since[b] >= Interval

\* Mutant: the timestamp is the one of the last firing.
StampOfLastFiring(b, k) ==
    /\ phase[b] = "up"
    /\ due(b)
    /\ free(b, k)
    /\ since' = [since EXCEPT ![b] = 0]
    /\ beat' = [beat EXCEPT ![<<b, k>>] = Callback("registering", since[b], FALSE)]
    /\ UNCHANGED <<storeVars, phase, current, crashes>>

\* Mutant: a callback only checks.
BeatOnlyChecks(b, k) ==
    /\ phase[b] = "up"
    /\ due(b)
    /\ free(b, k)
    /\ since' = [since EXCEPT ![b] = 0]
    /\ beat' = [beat EXCEPT ![<<b, k>>] = Callback("checking", 0, FALSE)]
    /\ UNCHANGED <<storeVars, phase, current, crashes>>

HeartbeatTimer(b, k) ==
    /\ phase[b] = "up"
    /\ due(b)
    /\ free(b, k)
    /\ since' = [since EXCEPT ![b] = 0]
    /\ beat' = [beat EXCEPT ![<<b, k>>] = Callback("registering", 0, FALSE)]
    /\ UNCHANGED <<storeVars, phase, current, crashes>>

\* A registration is applied.  In start() it is followed by listen(), in a
\* callback by the leadership check.
AfterRegistration(b, k) ==
    IF phase[b] = "up" /\ beat[<<b, k>>].pc = "registering"
    THEN Callback("checking", beat[<<b, k>>].stamp, FALSE) ELSE NoCallback

Registered(b, k) ==
    /\ beat[<<b, k>>].pc \in {"registering", "orphan"}
    /\ Write(b, beat[<<b, k>>].stamp)
    /\ beat' = [Outdated EXCEPT ![<<b, k>>] = AfterRegistration(b, k)]
    /\ IF phase[b] = "registering" /\ beat[<<b, k>>].pc = "registering"
       THEN Enter(b, "opening") ELSE UNCHANGED <<phase, since>>
    /\ UNCHANGED crashes

\* It is rejected: start() throws, a callback ignores it.  Its request, if there
\* is one, may still land as long as nothing else does.
RegistrationFails(b, k) ==
    /\ "storage" \in Faults \/ beat[<<b, k>>].pc = "orphan" \/ phase[b] = "closing"
    /\ beat[<<b, k>>].pc \in {"registering", "orphan"}
    /\ \E pc \in IF beat[<<b, k>>].pc = "orphan" THEN {"idle"} ELSE {"idle", "orphan"} :
          beat' = [beat EXCEPT ![<<b, k>>] =
                     IF pc = "idle" THEN NoCallback
                     ELSE Callback("orphan", beat[<<b, k>>].stamp, FALSE)]
    /\ IF phase[b] = "registering" /\ beat[<<b, k>>].pc = "registering"
       THEN Enter(b, "down") ELSE UNCHANGED <<phase, since>>
    /\ UNCHANGED <<storeVars, current, crashes>>

CheckReads(b, k) ==
    /\ beat[<<b, k>>].pc = "checking"
    /\ beat' = [beat EXCEPT ![<<b, k>>] =
                  Callback("checked", beat[<<b, k>>].stamp, leader = Address[b])]
    /\ UNCHANGED <<storeVars, phase, since, current, crashes>>

\* stop() leaves the registrations that the engine has in flight alone.
CheckAnswered(b, k) ==
    /\ beat[<<b, k>>].pc = "checked"
    /\ beat' = [beat EXCEPT ![<<b, k>>] = NoCallback]
    /\ IF beat[<<b, k>>].isLeader \/ phase[b] # "up"
       THEN UNCHANGED <<phase, since>> ELSE Enter(b, "closing")
    /\ UNCHANGED <<storeVars, current, crashes>>

CheckFails(b, k) ==
    /\ "storage" \in Faults
    /\ beat[<<b, k>>].pc \in {"checking", "checked"}
    /\ beat' = [beat EXCEPT ![<<b, k>>] = NoCallback]
    /\ UNCHANGED <<storeVars, phase, since, current, crashes>>

-----------------------------------------------------------------------------
\* stop() from a signal handler.
Shutdown(b) ==
    /\ "shutdown" \in Faults
    /\ phase[b] = "up"
    /\ Enter(b, "closing")
    /\ UNCHANGED <<storeVars, current, beat, crashes>>

\* server.close() is done, and so are the write loops that were in flight.
Closed(b) ==
    /\ phase[b] = "closing"
    /\ \A k \in Slots : beat[<<b, k>>].pc # "registering"
    /\ Enter(b, "stopped")
    /\ UNCHANGED <<storeVars, current, beat, crashes>>

\* A dead process leaves at most the requests it sent.
Crash(b) ==
    /\ crashes < MaxCrashes
    /\ phase[b] \notin {"down", "stopped"}
    /\ crashes' = crashes + 1
    /\ Enter(b, IF b \in Supervised THEN "down" ELSE "stopped")
    /\ beat' = [bk \in Brokers \X Slots |->
                  IF bk[1] # b THEN beat[bk]
                  ELSE IF beat[bk].pc \in {"registering", "orphan"}
                       THEN Callback("orphan", beat[bk].stamp, FALSE) ELSE NoCallback]
    /\ UNCHANGED <<storeVars, current>>

\* An engine commits mutations of clients: a new version, the same broker.
Traffic(b) ==
    /\ phase[b] \in {"opening", "up", "closing"}
    /\ current' = [c \in Brokers |-> FALSE]
    /\ beat' = Outdated
    /\ UNCHANGED <<storeVars, phase, since, crashes>>

-----------------------------------------------------------------------------
(* Time passes while no step is later than its process allows.             *)

atRest(b) == phase[b] \in {"down", "closing", "stopped"}
Limit(b) == IF phase[b] = "up" THEN Interval + Delay[b] ELSE Delay[b]

Tick ==
    /\ \A b \in Brokers : atRest(b) \/ since[b] < Limit(b)
    /\ \A b \in Brokers, k \in Slots :
          beat[<<b, k>>].pc # "idle" => beat[<<b, k>>].stamp < Delay[b]
    /\ heartbeat' = IF leader # None /\ heartbeat < Old THEN heartbeat + 1 ELSE heartbeat
    /\ since' = [b \in Brokers |-> IF atRest(b) THEN 0 ELSE since[b] + 1]
    /\ beat' = [bk \in Brokers \X Slots |->
                  IF beat[bk].pc = "idle" THEN NoCallback
                  ELSE Callback(beat[bk].pc, beat[bk].stamp + 1, beat[bk].isLeader)]
    /\ UNCHANGED <<leader, phase, current, crashes>>

Next ==
    \/ Tick
    \/ \E b \in Brokers :
         \/ Start(b) \/ FindsNothing(b) \/ FindsItself(b) \/ FindsLeader(b)
         \/ FindsStale(b) \/ Elected(b) \/ ElectionConflict(b) \/ ElectionAnswerLost(b)
         \/ EngineStarts(b) \/ Listens(b) \/ StartFails(b)
         \/ Shutdown(b) \/ Closed(b) \/ Crash(b) \/ Traffic(b)
         \/ \E k \in Slots :
              \/ HeartbeatTimer(b, k) \/ Registered(b, k) \/ RegistrationFails(b, k)
              \/ CheckReads(b, k) \/ CheckAnswered(b, k) \/ CheckFails(b, k)

\* Time passes, supervisors restart what exits, storage answers, timers fire.
Fairness ==
    /\ WF_vars(Tick)
    /\ \A b \in Brokers :
        /\ WF_vars(Start(b)) /\ WF_vars(FindsNothing(b)) /\ WF_vars(FindsItself(b))
        /\ WF_vars(FindsLeader(b)) /\ WF_vars(FindsStale(b)) /\ WF_vars(Elected(b))
        /\ WF_vars(ElectionConflict(b)) /\ WF_vars(EngineStarts(b)) /\ WF_vars(Listens(b))
        /\ WF_vars(Closed(b))
        /\ \A k \in Slots :
             /\ WF_vars(HeartbeatTimer(b, k)) /\ WF_vars(Registered(b, k))
             /\ WF_vars(CheckReads(b, k)) /\ WF_vars(CheckAnswered(b, k))

Spec == Init /\ [][Next]_vars
FairSpec == Spec /\ Fairness
=============================================================================
