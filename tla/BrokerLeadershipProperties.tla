--------------------- MODULE BrokerLeadershipProperties ---------------------
(***************************************************************************)
(* What leader election promises.                                          *)
(***************************************************************************)
EXTENDS BrokerLeadership

Phases == {"down", "electing", "creating", "claiming", "elected", "registering",
           "opening", "up", "closing", "stopped"}
BeatPcs == {"idle", "registering", "checking", "checked", "orphan"}

(* Ages stay within the bounds that make them exact, and nothing but the   *)
(* requests of its former life belongs to a process that is not running.   *)
TypeOK ==
    /\ leader \in {None} \cup {Address[b] : b \in Brokers}
    /\ heartbeat \in 0..Old
    /\ phase \in [Brokers -> Phases]
    /\ since \in [Brokers -> 0..(Interval + MaxDelay)]
    /\ \A b \in Brokers : phase[b] # "up" => since[b] <= MaxDelay
    /\ current \in [Brokers -> BOOLEAN]
    /\ DOMAIN beat = Brokers \X Slots
    /\ \A b \in Brokers, k \in Slots :
         /\ beat[<<b, k>>].pc \in BeatPcs
         /\ beat[<<b, k>>].stamp \in 0..MaxDelay
         /\ beat[<<b, k>>].pc \in {"checking", "checked"}
                => phase[b] \in {"up", "closing", "stopped"}
    /\ crashes \in Nat

serving(b) == phase[b] = "up"

(* An election takes the queue over from nobody, from itself, or from a    *)
(* broker whose heartbeat has expired when the write lands, however long   *)
(* ago it was read, and whoever else stands for election.                  *)
ElectionRespectsLease ==
    [][\A b \in Brokers :
          phase[b] \in {"creating", "claiming"} /\ phase'[b] # phase[b]
             /\ leader' # leader
             => \/ leader = None
                \/ heartbeat > Timeout]_vars

(* Its inductive form: an election that can still succeed has seen a state *)
(* that may be taken over, and time only makes the heartbeat older.        *)
ClaimSound ==
    \A b \in Brokers :
        phase[b] = "claiming" /\ current[b] =>
            leader # None /\ heartbeat > Timeout

(* When timers and storage are on time, a broker is the registered one     *)
(* from its election on, and its heartbeat never expires before listen()   *)
(* or between two registrations: nobody can be elected beside it.          *)
LeaderHoldsLease ==
    \A b \in Brokers :
        phase[b] \in {"elected", "registering", "opening", "up"} =>
            leader = Address[b] /\ heartbeat <= Timeout

(* Two brokers never serve the queue together.                             *)
AtMostOneServing ==
    \A b, c \in Brokers : serving(b) /\ serving(c) => b = c

(* After the last crash, somebody comes to serve, and stays.               *)
LeaderReturns == <>[](\E b \in Brokers : serving(b) /\ leader = Address[b])

(* Two listening brokers do not stay: one notices and stops.               *)
OldLeaderStops ==
    \A b, c \in Brokers :
        b # c /\ serving(b) /\ serving(c) ~> ~serving(b) \/ ~serving(c)
=============================================================================
