----------------------- MODULE BrokerLeadershipProofs -----------------------
(***************************************************************************)
(* An election never displaces a broker whose heartbeat is fresh, and a    *)
(* punctual leader's heartbeat is always fresh.                            *)
(***************************************************************************)
EXTENDS BrokerLeadershipProperties, TLAPS

USE ConfigAccepted, DelayAssumption

LEMMA TypeInit == Init => TypeOK
  BY AddressAssumption DEF Init, TypeOK, Old, NoCallback, Callback, Phases, BeatPcs

(* What a step does to the process it is a step of.                        *)
LEMMA EnterType ==
  ASSUME TypeOK, NEW b \in Brokers, NEW ph \in Phases, Enter(b, ph)
  PROVE  /\ phase' \in [Brokers -> Phases]
         /\ since' \in [Brokers -> 0..(Interval + MaxDelay)]
         /\ \A c \in Brokers : phase'[c] # "up" => since'[c] <= MaxDelay
         /\ phase'[b] = ph
         /\ \A c \in Brokers \ {b} : phase'[c] = phase[c] /\ since'[c] = since[c]
  BY DEF TypeOK, Enter

(* What TypeOK says of one callback of a process in phase ph.              *)
BeatOK(cb, ph) ==
    /\ cb.pc \in BeatPcs
    /\ cb.stamp \in 0..MaxDelay
    /\ cb.pc \in {"checking", "checked"} => ph \in {"up", "closing", "stopped"}

LEMMA TypeNext == TypeOK /\ [Next]_vars => TypeOK'
<1> SUFFICES ASSUME TypeOK, [Next]_vars PROVE TypeOK'
  OBVIOUS
<1>1. CASE Tick
  <2>1. heartbeat' \in 0..Old
    BY <1>1 DEF Tick, TypeOK, Old
  <2>2. \A b \in Brokers : /\ since'[b] \in 0..(Interval + MaxDelay)
                           /\ phase[b] # "up" => since'[b] <= MaxDelay
    BY <1>1 DEF Tick, TypeOK, Limit, atRest
  <2>3. since' \in [Brokers -> 0..(Interval + MaxDelay)]
    BY <1>1, <2>2 DEF Tick
  <2>4. ASSUME NEW b \in Brokers, NEW k \in Slots
        PROVE  /\ beat'[<<b, k>>].pc = beat[<<b, k>>].pc
               /\ beat'[<<b, k>>].stamp \in 0..MaxDelay
    <3> DEFINE cb == beat[<<b, k>>]
    <3>1. beat'[<<b, k>>] = IF cb.pc = "idle" THEN NoCallback
                            ELSE Callback(cb.pc, cb.stamp + 1, cb.isLeader)
      BY <1>1 DEF Tick
    <3>2. cb.stamp \in 0..MaxDelay /\ (cb.pc # "idle" => cb.stamp < Delay[b])
      BY <1>1 DEF Tick, TypeOK
    <3>3. Delay[b] \in 0..MaxDelay
      OBVIOUS
    <3> QED BY <3>1, <3>2, <3>3 DEF Callback, NoCallback
  <2> QED
    BY <1>1, <2>1, <2>2, <2>3, <2>4 DEF Tick, TypeOK
<1>2. ASSUME NEW b \in Brokers,
             Start(b) \/ FindsItself(b) \/ FindsLeader(b) \/ ElectionConflict(b)
             \/ Listens(b) \/ StartFails(b) \/ Shutdown(b) \/ Closed(b)
      PROVE TypeOK'
  <2>1. /\ UNCHANGED <<storeVars, current, beat, crashes>>
        /\ \E ph \in Phases : Enter(b, ph) /\ (phase[b] \in {"up", "closing"} => ph \in {"closing", "stopped"})
        /\ phase[b] # "stopped"
    BY <1>2 DEF Start, FindsItself, FindsLeader, ElectionConflict, Listens, StartFails,
                Shutdown, Closed, Phases
  <2>2. PICK ph \in Phases : Enter(b, ph) /\ (phase[b] \in {"up", "closing"} => ph \in {"closing", "stopped"})
    BY <2>1
  <2> QED
    BY <2>1, <2>2, EnterType DEF TypeOK, storeVars
<1>3. ASSUME NEW b \in Brokers, FindsNothing(b) \/ FindsStale(b) PROVE TypeOK'
  BY <1>3 DEF FindsNothing, FindsStale, TypeOK, Phases, storeVars
<1>4. ASSUME NEW b \in Brokers, Elected(b) \/ ElectionAnswerLost(b) PROVE TypeOK'
  <2>1. PICK ph \in {"elected", "down"} : Enter(b, ph)
    BY <1>4 DEF Elected, ElectionAnswerLost
  <2>2. /\ phase[b] \in {"creating", "claiming"} /\ Write(b, since[b])
        /\ beat' = Outdated /\ crashes' = crashes
    BY <1>4 DEF Elected, ElectionAnswerLost
  <2>3. /\ leader' = Address[b] /\ heartbeat' \in 0..Old /\ current' \in [Brokers -> BOOLEAN]
    BY <2>2 DEF Write, TypeOK, Old
  <2>4. DOMAIN beat' = Brokers \X Slots
    BY <2>2 DEF Outdated
  <2>5. ASSUME NEW c \in Brokers, NEW k \in Slots PROVE BeatOK(beat'[<<c, k>>], phase[c])
    BY <2>2 DEF Outdated, NoCallback, Callback, BeatOK, BeatPcs, TypeOK
  <2>6. ASSUME NEW c \in Brokers, NEW k \in Slots PROVE BeatOK(beat'[<<c, k>>], phase'[c])
    BY <2>1, <2>2, <2>5, EnterType DEF BeatOK, Phases
  <2> QED
    BY <2>1, <2>2, <2>3, <2>4, <2>6, EnterType DEF TypeOK, BeatOK, Phases
<1>5. ASSUME NEW b \in Brokers, EngineStarts(b) PROVE TypeOK'
  <2>1. PICK k \in Slots : beat' = [beat EXCEPT ![<<b, k>>] = Callback("registering", 0, FALSE)]
    BY <1>5 DEF EngineStarts
  <2>2. Enter(b, "registering") /\ phase[b] = "elected"
    BY <1>5 DEF EngineStarts
  <2>3. ASSUME NEW c \in Brokers, NEW j \in Slots PROVE BeatOK(beat'[<<c, j>>], phase'[c])
    BY <2>1, <2>2, EnterType DEF TypeOK, BeatOK, Callback, BeatPcs, Phases
  <2> QED
    BY <1>5, <2>1, <2>2, <2>3, EnterType DEF EngineStarts, TypeOK, BeatOK, Phases, storeVars
<1>6. ASSUME NEW b \in Brokers, Crash(b) PROVE TypeOK'
  <2>1. PICK ph \in {"down", "stopped"} : Enter(b, ph)
    BY <1>6 DEF Crash
  <2>2. ASSUME NEW c \in Brokers, NEW j \in Slots PROVE BeatOK(beat'[<<c, j>>], phase'[c])
    <3>1. CASE c = b
      BY <1>6, <3>1 DEF Crash, TypeOK, BeatOK, Callback, NoCallback, BeatPcs
    <3>2. CASE c # b
      BY <1>6, <2>1, <3>2, EnterType DEF Crash, TypeOK, BeatOK, Phases
    <3> QED BY <3>1, <3>2
  <2> QED
    <3>1. DOMAIN beat' = Brokers \X Slots /\ crashes' \in Nat /\ UNCHANGED <<storeVars, current>>
      BY <1>6 DEF Crash, TypeOK
    <3> QED
      BY <2>1, <2>2, <3>1, EnterType DEF TypeOK, BeatOK, Phases, storeVars
<1>7. ASSUME NEW b \in Brokers, Traffic(b) PROVE TypeOK'
  <2>1. ASSUME NEW c \in Brokers, NEW k \in Slots PROVE BeatOK(beat'[<<c, k>>], phase[c])
    BY <1>7 DEF Traffic, Outdated, NoCallback, Callback, BeatOK, BeatPcs, TypeOK
  <2> QED
    BY <1>7, <2>1 DEF Traffic, TypeOK, BeatOK, Outdated, storeVars
<1>8. ASSUME NEW b \in Brokers, NEW k \in Slots, HeartbeatTimer(b, k) PROVE TypeOK'
  <2>1. ASSUME NEW c \in Brokers, NEW j \in Slots PROVE BeatOK(beat'[<<c, j>>], phase[c])
    BY <1>8 DEF HeartbeatTimer, TypeOK, BeatOK, Callback, BeatPcs
  <2> QED
    <3>1. /\ since' \in [Brokers -> 0..(Interval + MaxDelay)]
          /\ \A c \in Brokers : phase[c] # "up" => since'[c] <= MaxDelay
      BY <1>8 DEF HeartbeatTimer, TypeOK
    <3>2. DOMAIN beat' = Brokers \X Slots /\ UNCHANGED <<storeVars, phase, current, crashes>>
      BY <1>8 DEF HeartbeatTimer, TypeOK
    <3> QED
      BY <2>1, <3>1, <3>2 DEF TypeOK, BeatOK, storeVars
<1>9. ASSUME NEW b \in Brokers, NEW k \in Slots, Registered(b, k) PROVE TypeOK'
  <2>1. /\ beat' = [Outdated EXCEPT ![<<b, k>>] = AfterRegistration(b, k)]
        /\ Write(b, beat[<<b, k>>].stamp) /\ crashes' = crashes
    BY <1>9 DEF Registered
  <2>2. /\ leader' = Address[b] /\ heartbeat' \in 0..Old /\ current' \in [Brokers -> BOOLEAN]
    BY <2>1 DEF Write, TypeOK, Old
  <2>3. DOMAIN beat' = Brokers \X Slots
    BY <2>1 DEF Outdated
  <2>4. BeatOK(AfterRegistration(b, k), phase[b])
    BY DEF AfterRegistration, TypeOK, BeatOK, Callback, NoCallback, BeatPcs
  <2>5. ASSUME NEW c \in Brokers, NEW j \in Slots PROVE BeatOK(beat'[<<c, j>>], phase[c])
    <3>1. CASE c = b /\ j = k
      BY <2>1, <2>4, <3>1 DEF Outdated
    <3>2. CASE c # b \/ j # k
      BY <2>1, <3>2 DEF Outdated, TypeOK, BeatOK, Callback, NoCallback, BeatPcs
    <3> QED BY <3>1, <3>2
  <2>6. CASE phase[b] = "registering" /\ beat[<<b, k>>].pc = "registering"
    <3>1. Enter(b, "opening")
      BY <1>9, <2>6 DEF Registered
    <3>2. ASSUME NEW c \in Brokers, NEW j \in Slots PROVE BeatOK(beat'[<<c, j>>], phase'[c])
      BY <2>5, <2>6, <3>1, EnterType DEF BeatOK, Phases
    <3> QED
      BY <2>1, <2>2, <2>3, <3>1, <3>2, EnterType DEF TypeOK, BeatOK, Phases
  <2>7. CASE UNCHANGED <<phase, since>>
    BY <2>1, <2>2, <2>3, <2>5, <2>7 DEF TypeOK, BeatOK
  <2> QED
    BY <1>9, <2>6, <2>7 DEF Registered
<1>10. ASSUME NEW b \in Brokers, NEW k \in Slots, RegistrationFails(b, k) PROVE TypeOK'
  <2>1. PICK cb : /\ beat' = [beat EXCEPT ![<<b, k>>] = cb]
                  /\ cb = NoCallback \/ cb = Callback("orphan", beat[<<b, k>>].stamp, FALSE)
    BY <1>10 DEF RegistrationFails
  <2>2. BeatOK(cb, "down")
    BY <2>1 DEF TypeOK, BeatOK, Callback, NoCallback, BeatPcs
  <2>3. ASSUME NEW c \in Brokers, NEW j \in Slots PROVE BeatOK(beat'[<<c, j>>], phase[c])
    BY <2>1, <2>2 DEF TypeOK, BeatOK
  <2>4. CASE phase[b] = "registering" /\ beat[<<b, k>>].pc = "registering"
    <3>1. Enter(b, "down")
      BY <1>10, <2>4 DEF RegistrationFails
    <3>2. ASSUME NEW c \in Brokers, NEW j \in Slots PROVE BeatOK(beat'[<<c, j>>], phase'[c])
      BY <2>3, <2>4, <3>1, EnterType DEF BeatOK, Phases
    <3> QED
      BY <1>10, <2>1, <3>1, <3>2, EnterType DEF RegistrationFails, TypeOK, BeatOK, Phases, storeVars
  <2>5. CASE UNCHANGED <<phase, since>>
    BY <1>10, <2>1, <2>3, <2>5 DEF RegistrationFails, TypeOK, BeatOK, storeVars
  <2> QED
    BY <1>10, <2>4, <2>5 DEF RegistrationFails
<1>11. ASSUME NEW b \in Brokers, NEW k \in Slots, CheckReads(b, k) \/ CheckFails(b, k)
       PROVE TypeOK'
  <2>1. PICK cb : /\ beat' = [beat EXCEPT ![<<b, k>>] = cb]
                  /\ \/ cb = NoCallback
                     \/ /\ cb = Callback("checked", beat[<<b, k>>].stamp, leader = Address[b])
                        /\ beat[<<b, k>>].pc = "checking"
    BY <1>11 DEF CheckReads, CheckFails
  <2>2. BeatOK(cb, phase[b])
    BY <2>1 DEF TypeOK, BeatOK, Callback, NoCallback, BeatPcs
  <2>3. ASSUME NEW c \in Brokers, NEW j \in Slots PROVE BeatOK(beat'[<<c, j>>], phase[c])
    BY <2>1, <2>2 DEF TypeOK, BeatOK
  <2> QED
    BY <1>11, <2>1, <2>3 DEF CheckReads, CheckFails, TypeOK, BeatOK, storeVars
<1>12. ASSUME NEW b \in Brokers, NEW k \in Slots, CheckAnswered(b, k) PROVE TypeOK'
  <2>1. beat' = [beat EXCEPT ![<<b, k>>] = NoCallback]
    BY <1>12 DEF CheckAnswered
  <2>2. ASSUME NEW c \in Brokers, NEW j \in Slots PROVE BeatOK(beat'[<<c, j>>], phase[c])
    BY <2>1 DEF TypeOK, BeatOK, Callback, NoCallback, BeatPcs
  <2>3. CASE phase[b] = "up" /\ Enter(b, "closing")
    <3>1. ASSUME NEW c \in Brokers, NEW j \in Slots PROVE BeatOK(beat'[<<c, j>>], phase'[c])
      BY <2>2, <2>3, EnterType DEF BeatOK, Phases
    <3> QED
      BY <1>12, <2>1, <2>3, <3>1, EnterType DEF CheckAnswered, TypeOK, BeatOK, Phases, storeVars
  <2>4. CASE UNCHANGED <<phase, since>>
    BY <1>12, <2>1, <2>2, <2>4 DEF CheckAnswered, TypeOK, BeatOK, storeVars
  <2> QED
    BY <1>12, <2>3, <2>4 DEF CheckAnswered
<1>13. CASE UNCHANGED vars
  BY <1>13 DEF vars, storeVars, TypeOK
<1> QED
  BY <1>1, <1>2, <1>3, <1>4, <1>5, <1>6, <1>7, <1>8, <1>9, <1>10, <1>11, <1>12, <1>13 DEF Next

(* Ages stay exact, and callbacks belong to processes that are running.    *)
THEOREM LeadershipTypeCorrect == Spec => []TypeOK
  BY TypeInit, TypeNext, PTL DEF Spec

(***************************************************************************)
(* Elections.                                                              *)
(***************************************************************************)
LEMMA ClaimInit == Init => ClaimSound
  BY DEF Init, ClaimSound

LEMMA ClaimNext == TypeOK /\ ClaimSound /\ [Next]_vars => ClaimSound'
<1> SUFFICES ASSUME TypeOK, ClaimSound, [Next]_vars PROVE ClaimSound'
  OBVIOUS
\* A write outdates every claim.
<1>a. ASSUME NEW b, NEW stamp, Write(b, stamp) PROVE ClaimSound'
  BY <1>a DEF Write, ClaimSound
\* A step that starts no claim, and leaves the object alone, keeps the others.
<1>b. ASSUME UNCHANGED <<storeVars, current>>,
             \A c \in Brokers : phase'[c] = "claiming" => phase[c] = "claiming"
      PROVE  ClaimSound'
  BY <1>b DEF ClaimSound, storeVars
<1>c. ASSUME NEW b \in Brokers, NEW ph, Enter(b, ph), ph # "claiming"
      PROVE  \A c \in Brokers : phase'[c] = "claiming" => phase[c] = "claiming"
  BY <1>c DEF Enter, TypeOK
<1>1. CASE Tick
  <2>1. heartbeat > Timeout => heartbeat' > Timeout
    BY <1>1 DEF Tick, TypeOK, Old
  <2> QED
    BY <1>1, <2>1 DEF Tick, ClaimSound
<1>2. ASSUME NEW b \in Brokers,
             Start(b) \/ FindsItself(b) \/ FindsLeader(b) \/ ElectionConflict(b)
             \/ EngineStarts(b) \/ Listens(b) \/ StartFails(b) \/ Shutdown(b)
             \/ Closed(b)
      PROVE ClaimSound'
  BY <1>2, <1>b, <1>c DEF Start, FindsItself, FindsLeader, ElectionConflict, EngineStarts,
     Listens, StartFails, Shutdown, Closed
<1>3. ASSUME NEW b \in Brokers, FindsNothing(b) PROVE ClaimSound'
  BY <1>3, <1>b DEF FindsNothing, TypeOK
<1>4. ASSUME NEW b \in Brokers, FindsStale(b) PROVE ClaimSound'
  <2>1. heartbeat > Timeout /\ leader # None
    BY <1>4 DEF FindsStale, isFresh, TypeOK
  <2> QED
    BY <1>4, <2>1 DEF FindsStale, ClaimSound, storeVars
<1>5. ASSUME NEW b \in Brokers, Elected(b) \/ ElectionAnswerLost(b) PROVE ClaimSound'
  BY <1>5, <1>a DEF Elected, ElectionAnswerLost
<1>6. ASSUME NEW b \in Brokers, Crash(b) PROVE ClaimSound'
  BY <1>6, <1>b, <1>c DEF Crash
<1>7. ASSUME NEW b \in Brokers, Traffic(b) PROVE ClaimSound'
  BY <1>7 DEF Traffic, ClaimSound
<1>8. ASSUME NEW b \in Brokers, NEW k \in Slots,
             HeartbeatTimer(b, k) \/ CheckReads(b, k) \/ CheckFails(b, k)
      PROVE ClaimSound'
  BY <1>8, <1>b DEF HeartbeatTimer, CheckReads, CheckFails
<1>9. ASSUME NEW b \in Brokers, NEW k \in Slots, Registered(b, k) PROVE ClaimSound'
  BY <1>9, <1>a DEF Registered
<1>10. ASSUME NEW b \in Brokers, NEW k \in Slots,
              RegistrationFails(b, k) \/ CheckAnswered(b, k)
       PROVE ClaimSound'
  <2>1. /\ UNCHANGED <<storeVars, current>>
        /\ UNCHANGED phase \/ Enter(b, "down") \/ Enter(b, "closing")
    BY <1>10 DEF RegistrationFails, CheckAnswered
  <2> QED
    BY <2>1, <1>b, <1>c
<1>11. CASE UNCHANGED vars
  BY <1>11, <1>b DEF vars
<1> QED
  BY <1>1, <1>2, <1>3, <1>4, <1>5, <1>6, <1>7, <1>8, <1>9, <1>10, <1>11 DEF Next

(* A candidate whose claim can still succeed has seen a broker that may be *)
(* displaced, at every moment until its write lands or is refused.         *)
THEOREM ClaimsAreSound == Spec => []ClaimSound
  BY TypeInit, TypeNext, ClaimInit, ClaimNext, PTL DEF Spec

LEMMA ElectionStep ==
  ASSUME TypeOK, ClaimSound, [Next]_vars, NEW b \in Brokers,
         phase[b] \in {"creating", "claiming"}, phase'[b] # phase[b], leader' # leader
  PROVE  leader = None \/ heartbeat > Timeout
<1>1. Elected(b) \/ ElectionAnswerLost(b)
  <2>1. ASSUME NEW c \in Brokers, Elected(c) \/ ElectionAnswerLost(c) PROVE c = b
    BY <2>1 DEF Elected, ElectionAnswerLost, Enter, TypeOK
  <2>2. ASSUME NEW c \in Brokers, NEW k \in Slots, Registered(c, k) PROVE FALSE
    BY <2>2 DEF Registered, Enter, TypeOK
  <2>3. PICK c \in Brokers : \/ Elected(c) \/ ElectionAnswerLost(c)
                             \/ \E k \in Slots : Registered(c, k)
    BY DEF Next, Tick, Start, FindsNothing, FindsItself, FindsLeader, FindsStale,
           ElectionConflict, EngineStarts, Listens, StartFails, Shutdown, Closed, Crash,
           Traffic, HeartbeatTimer, RegistrationFails, CheckReads, CheckAnswered,
           CheckFails, vars, storeVars
  <2> QED
    BY <2>1, <2>2, <2>3
<1> QED
  BY <1>1 DEF Elected, ElectionAnswerLost, unchanged, ClaimSound

(* Whoever is elected takes over a queue without a broker, or one whose    *)
(* broker's heartbeat has expired by then: for any number of candidates,   *)
(* any delays, crashes and lost answers.                                   *)
THEOREM NoFreshLeaderDisplaced == Spec => ElectionRespectsLease
<1>1. TypeOK /\ ClaimSound /\ [Next]_vars =>
        [\A b \in Brokers :
            phase[b] \in {"creating", "claiming"} /\ phase'[b] # phase[b]
               /\ leader' # leader
               => \/ leader = None
                  \/ heartbeat > Timeout]_vars
  BY ElectionStep
<1> QED
  BY <1>1, TypeInit, TypeNext, ClaimInit, ClaimNext, PTL DEF Spec, ElectionRespectsLease

(***************************************************************************)
(* A punctual leader keeps its lease.  The election reads, and each step   *)
(* until listen() takes at most MaxDelay; the timer is late by no more,    *)
(* and so is each registration: together Interval + 4 * MaxDelay.  Storage *)
(* answers, nobody is shut down or restarted, and each process has an      *)
(* address of its own; any number of crashes is allowed.                   *)
(***************************************************************************)
AllPunctual ==
    /\ Timeout >= Interval + 4 * MaxDelay
    /\ Faults = {} /\ Supervised = {}
    /\ \A b, c \in Brokers : Address[b] = Address[c] => b = c

Candidate == {"down", "electing", "creating", "claiming"}
Holder    == {"elected", "registering", "opening", "up"}

pending(b, k) == beat[<<b, k>>].pc = "registering"

(* How old the heartbeat of a leader may be.  In service it was renewed    *)
(* since the timer last fired, or a registration that is under way was     *)
(* made when it was at most Interval + 3 * MaxDelay old.                   *)
InLease(b) ==
    \/ heartbeat <= since[b] + MaxDelay
    \/ phase[b] \in {"registering", "up"} /\ heartbeat <= since[b] + 2 * MaxDelay
    \/ /\ phase[b] = "up"
       /\ \E k \in Slots :
            /\ pending(b, k)
            /\ heartbeat <= beat[<<b, k>>].stamp + Interval + 3 * MaxDelay

(* A leader is the registered broker and in its lease; no candidate is the *)
(* registered broker.                                                      *)
BrokerSound(b) ==
    /\ phase[b] # "closing"
    /\ phase[b] \in Candidate => leader # Address[b]
    /\ phase[b] \in Holder => leader = Address[b] /\ InLease(b)

(* Only leaders register, once before they serve; and while a request of a *)
(* crashed leader may still land, nobody else has written.                 *)
CallbackSound(b, k) ==
    /\ pending(b, k) =>
          /\ phase[b] \in {"registering", "up"}
          /\ phase[b] = "registering" => \A j \in Slots : pending(b, j) => j = k
    /\ beat[<<b, k>>].pc = "orphan" => phase[b] = "stopped" /\ leader = Address[b]
    /\ phase[b] = "up" /\ beat[<<b, k>>].pc = "checked" => beat[<<b, k>>].isLeader

LeaseSound ==
    \A b \in Brokers : BrokerSound(b) /\ \A k \in Slots : CallbackSound(b, k)

LEMMA LeaseInit == Init => LeaseSound
  BY AddressAssumption
     DEF Init, LeaseSound, BrokerSound, CallbackSound, Candidate, Holder, NoCallback, Callback,
         pending

(* The invariant says what is promised.                                    *)
LEMMA LeaseHolds ==
  ASSUME AllPunctual, TypeOK, LeaseSound, NEW b \in Brokers, phase[b] \in Holder
  PROVE  leader = Address[b] /\ heartbeat <= Timeout
<1>1. leader = Address[b] /\ InLease(b)
  BY DEF LeaseSound, BrokerSound
<1>2. /\ heartbeat \in Nat /\ since[b] \in Nat /\ since[b] <= Interval + MaxDelay
      /\ phase[b] # "up" => since[b] <= MaxDelay
      /\ \A k \in Slots : beat[<<b, k>>].stamp \in Nat /\ beat[<<b, k>>].stamp <= MaxDelay
  BY DEF TypeOK, Old
<1>3. heartbeat <= Interval + 4 * MaxDelay
  <2>1. CASE heartbeat <= since[b] + 2 * MaxDelay
    BY <1>2, <2>1
  <2>2. CASE heartbeat <= since[b] + MaxDelay
    BY <1>2, <2>2
  <2>3. ASSUME NEW k \in Slots, heartbeat <= beat[<<b, k>>].stamp + Interval + 3 * MaxDelay
        PROVE  heartbeat <= Interval + 4 * MaxDelay
    BY <1>2, <2>3
  <2> QED BY <1>1, <2>1, <2>2, <2>3 DEF InLease
<1> QED
  BY <1>1, <1>2, <1>3 DEF AllPunctual

(* A step of b that leaves the object and the callbacks alone.             *)
LEMMA PhaseStep ==
  ASSUME TypeOK, LeaseSound, UNCHANGED <<storeVars, beat>>, NEW b \in Brokers,
         \A c \in Brokers \ {b} : phase'[c] = phase[c] /\ since'[c] = since[c],
         phase[b] # "stopped", \A k \in Slots : ~pending(b, k),
         phase'[b] # "closing",
         phase'[b] \in Candidate => leader # Address[b],
         phase'[b] \in Holder => /\ phase'[b] # "up" \/ phase[b] = "opening"
                                 /\ leader = Address[b] /\ heartbeat <= since'[b] + 2 * MaxDelay
                                 /\ phase'[b] = "up" \/ heartbeat <= since'[b] + MaxDelay
  PROVE  LeaseSound'
<1>1. ASSUME NEW c \in Brokers \ {b} PROVE BrokerSound(c)' /\ \A k \in Slots : CallbackSound(c, k)'
  BY <1>1 DEF LeaseSound, BrokerSound, CallbackSound, InLease, pending, storeVars
<1>2. BrokerSound(b)'
  BY DEF LeaseSound, BrokerSound, InLease, storeVars
<1>3. ASSUME NEW k \in Slots PROVE CallbackSound(b, k)'
  BY DEF LeaseSound, CallbackSound, pending, TypeOK, Holder
<1> QED
  BY <1>1, <1>2, <1>3 DEF LeaseSound

LEMMA LeaseNext == AllPunctual /\ TypeOK /\ ClaimSound /\ LeaseSound /\ [Next]_vars => LeaseSound'
<1> SUFFICES ASSUME AllPunctual, TypeOK, ClaimSound, LeaseSound, [Next]_vars PROVE LeaseSound'
  OBVIOUS
<1>0. \A b \in Brokers : BrokerSound(b) /\ \A k \in Slots : CallbackSound(b, k)
  BY DEF LeaseSound
<1>a. /\ heartbeat \in Nat
      /\ \A b \in Brokers : since[b] \in Nat /\ since[b] <= Interval + MaxDelay
      /\ \A b \in Brokers : phase[b] # "up" => since[b] <= MaxDelay
      /\ \A b \in Brokers, k \in Slots :
            beat[<<b, k>>].stamp \in Nat /\ beat[<<b, k>>].stamp <= MaxDelay
  BY DEF TypeOK, Old
<1>b. \A b \in Brokers : Address[b] # None
  BY AddressAssumption
<1>1. CASE Tick
  <2>1. ASSUME NEW b \in Brokers, NEW k \in Slots
        PROVE  /\ beat'[<<b, k>>].pc = beat[<<b, k>>].pc
               /\ beat[<<b, k>>].pc # "idle" =>
                     /\ beat'[<<b, k>>].stamp = beat[<<b, k>>].stamp + 1
                     /\ beat'[<<b, k>>].isLeader = beat[<<b, k>>].isLeader
    BY <1>1 DEF Tick, NoCallback, Callback
  <2>2. heartbeat' <= heartbeat + 1 /\ heartbeat' \in Nat /\ leader' = leader /\ phase' = phase
    BY <1>1, <1>a DEF Tick
  <2>3. \A b \in Brokers : phase[b] \in Holder => since'[b] = since[b] + 1
    BY <1>1 DEF Tick, atRest, Holder
  <2>4. ASSUME NEW b \in Brokers, phase[b] \in Holder PROVE InLease(b)'
    <3>1. InLease(b)
      BY <1>0, <2>4 DEF BrokerSound
    <3>2. CASE \E k \in Slots : /\ phase[b] = "up" /\ pending(b, k)
                                /\ heartbeat <= beat[<<b, k>>].stamp + Interval + 3 * MaxDelay
      <4>1. PICK k \in Slots : /\ phase[b] = "up" /\ pending(b, k)
                               /\ heartbeat <= beat[<<b, k>>].stamp + Interval + 3 * MaxDelay
        BY <3>2
      <4>2. beat'[<<b, k>>].pc = "registering" /\ beat'[<<b, k>>].stamp = beat[<<b, k>>].stamp + 1
        BY <2>1, <4>1 DEF pending
      <4>3. heartbeat' <= beat'[<<b, k>>].stamp + Interval + 3 * MaxDelay
        BY <1>a, <2>2, <4>1, <4>2
      <4> QED BY <2>2, <4>1, <4>2, <4>3 DEF InLease, pending
    <3>3. CASE \/ heartbeat <= since[b] + MaxDelay
               \/ phase[b] \in {"registering", "up"} /\ heartbeat <= since[b] + 2 * MaxDelay
      BY <1>a, <2>2, <2>3, <2>4, <3>3 DEF InLease
    <3> QED BY <3>1, <3>2, <3>3 DEF InLease
  <2>5. \A b \in Brokers : BrokerSound(b)'
    BY <1>0, <2>2, <2>4 DEF BrokerSound
  <2>6. ASSUME NEW b \in Brokers, NEW k \in Slots PROVE CallbackSound(b, k)'
    <3>1. \A j \in Slots : pending(b, j)' = pending(b, j)
      BY <2>1 DEF pending
    <3>2. CallbackSound(b, k)
      BY <1>0
    <3> QED BY <2>1, <2>2, <3>1, <3>2 DEF CallbackSound
  <2> QED BY <2>5, <2>6 DEF LeaseSound
\* Candidates, before they write.
<1>2. ASSUME NEW b \in Brokers,
             \/ Start(b) \/ FindsNothing(b) \/ FindsLeader(b) \/ FindsStale(b)
             \/ ElectionConflict(b)
      PROVE  LeaseSound'
  <2>1. /\ UNCHANGED <<storeVars, beat>> /\ phase[b] \in Candidate /\ phase'[b] \in Candidate
        /\ \A c \in Brokers \ {b} : phase'[c] = phase[c] /\ since'[c] = since[c]
    BY <1>2 DEF Start, FindsNothing, FindsLeader, FindsStale, ElectionConflict, Enter, TypeOK,
                Candidate
  <2>2. leader # Address[b] /\ \A k \in Slots : ~pending(b, k)
    BY <1>0, <2>1 DEF BrokerSound, CallbackSound, Candidate
  <2> QED BY <2>1, <2>2, PhaseStep DEF Candidate, Holder
\* What does not happen when all is well.
<1>3. ASSUME NEW b \in Brokers,
             \/ FindsItself(b) \/ ElectionAnswerLost(b) \/ StartFails(b) \/ Shutdown(b)
             \/ Closed(b) \/ \E k \in Slots : CheckFails(b, k)
      PROVE  FALSE
  BY <1>0, <1>3 DEF FindsItself, ElectionAnswerLost, StartFails, Shutdown, Closed, CheckFails,
                    AllPunctual, BrokerSound, Candidate
\* Whoever is elected finds nobody in its lease.
<1>4. ASSUME NEW b \in Brokers, Elected(b) PROVE LeaseSound'
  <2>1. /\ phase[b] \in {"creating", "claiming"} /\ unchanged(b)
        /\ leader' = Address[b] /\ heartbeat' = since[b] /\ beat' = Outdated
        /\ phase'[b] = "elected" /\ since'[b] = 0
        /\ \A c \in Brokers \ {b} : phase'[c] = phase[c] /\ since'[c] = since[c]
    BY <1>4 DEF Elected, Write, Enter, TypeOK
  <2>2. leader = None \/ heartbeat > Timeout
    BY <2>1 DEF unchanged, ClaimSound
  <2>3. \A c \in Brokers : phase[c] \notin Holder
    BY <1>a, <1>b, <2>2, LeaseHolds DEF AllPunctual
  <2>4. \A c \in Brokers \ {b} : Address[c] # Address[b]
    BY DEF AllPunctual
  <2>5. BrokerSound(b)'
    BY <1>a, <2>1 DEF BrokerSound, InLease, Candidate
  <2>6. ASSUME NEW c \in Brokers \ {b} PROVE BrokerSound(c)'
    BY <1>0, <2>1, <2>3, <2>4 DEF BrokerSound
  <2>7. ASSUME NEW c \in Brokers, NEW k \in Slots PROVE CallbackSound(c, k)'
    <3>1. beat[<<c, k>>].pc # "registering"
      BY <1>0, <2>3 DEF CallbackSound, pending, Holder
    <3>2. beat'[<<c, k>>].pc \notin {"registering", "orphan"}
      BY <2>1, <3>1 DEF Outdated, NoCallback, Callback
    <3>3. phase'[c] # "up"
      BY <2>1, <2>3 DEF Holder
    <3> QED BY <3>2, <3>3 DEF CallbackSound, pending
  <2> QED BY <2>5, <2>6, <2>7 DEF LeaseSound
<1>5. ASSUME NEW b \in Brokers, EngineStarts(b) PROVE LeaseSound'
  <2>1. PICK k \in Slots :
          beat' = [beat EXCEPT ![<<b, k>>] = Callback("registering", 0, FALSE)]
    BY <1>5 DEF EngineStarts
  <2>2. /\ phase[b] = "elected" /\ phase'[b] = "registering" /\ since'[b] = 0
        /\ \A c \in Brokers \ {b} : phase'[c] = phase[c] /\ since'[c] = since[c]
        /\ leader' = leader /\ heartbeat' = heartbeat
    BY <1>5 DEF EngineStarts, Enter, TypeOK, storeVars
  <2>3. \A c \in Brokers, j \in Slots : <<c, j>> # <<b, k>> => beat'[<<c, j>>] = beat[<<c, j>>]
    BY <2>1 DEF TypeOK
  <2>4. beat'[<<b, k>>].pc = "registering"
    BY <2>1 DEF TypeOK, Callback
  <2>5. BrokerSound(b)'
    BY <1>0, <1>a, <2>2 DEF BrokerSound, InLease, Holder, Candidate
  <2>6. ASSUME NEW c \in Brokers \ {b} PROVE BrokerSound(c)'
    BY <1>0, <2>2, <2>3 DEF BrokerSound, InLease, pending
  <2>7. ASSUME NEW c \in Brokers, NEW j \in Slots PROVE CallbackSound(c, j)'
    BY <1>0, <2>2, <2>3, <2>4 DEF CallbackSound, pending
  <2> QED BY <2>5, <2>6, <2>7 DEF LeaseSound
<1>6. ASSUME NEW b \in Brokers, Listens(b) PROVE LeaseSound'
  <2>1. /\ UNCHANGED <<storeVars, beat>> /\ phase[b] = "opening" /\ phase'[b] = "up"
        /\ since'[b] = 0
        /\ \A c \in Brokers \ {b} : phase'[c] = phase[c] /\ since'[c] = since[c]
    BY <1>6 DEF Listens, Enter, TypeOK
  <2>2. leader = Address[b] /\ heartbeat <= 2 * MaxDelay /\ \A k \in Slots : ~pending(b, k)
    <3>1. leader = Address[b] /\ heartbeat <= since[b] + MaxDelay
      BY <1>0, <2>1 DEF BrokerSound, InLease, Holder
    <3>2. heartbeat <= 2 * MaxDelay
      BY <1>a, <2>1, <3>1
    <3> QED BY <1>0, <2>1, <3>1, <3>2 DEF CallbackSound
  <2> QED BY <2>1, <2>2, PhaseStep DEF Candidate, Holder
<1>7. ASSUME NEW b \in Brokers, NEW k \in Slots, HeartbeatTimer(b, k) PROVE LeaseSound'
  <2>1. /\ phase[b] = "up" /\ phase' = phase /\ leader' = leader /\ heartbeat' = heartbeat
        /\ beat[<<b, k>>].pc = "idle" /\ since'[b] = 0
        /\ \A c \in Brokers \ {b} : since'[c] = since[c]
        /\ beat'[<<b, k>>] = Callback("registering", 0, FALSE)
        /\ \A c \in Brokers, j \in Slots : <<c, j>> # <<b, k>> => beat'[<<c, j>>] = beat[<<c, j>>]
    BY <1>7 DEF HeartbeatTimer, TypeOK, storeVars, free
  <2>2. beat'[<<b, k>>].pc = "registering" /\ beat'[<<b, k>>].stamp = 0
    BY <2>1 DEF Callback
  <2>3. InLease(b)'
    <3>1. leader = Address[b] /\ InLease(b)
      BY <1>0, <2>1 DEF BrokerSound, Holder
    <3>2. CASE heartbeat <= since[b] + 2 * MaxDelay
      <4>1. heartbeat <= 0 + Interval + 3 * MaxDelay
        BY <1>a, <3>2
      <4>2. heartbeat' <= beat'[<<b, k>>].stamp + Interval + 3 * MaxDelay
        BY <2>1, <2>2, <4>1
      <4> QED BY <2>1, <2>2, <4>2 DEF InLease, pending
    <3>3. ASSUME NEW j \in Slots, pending(b, j),
                 heartbeat <= beat[<<b, j>>].stamp + Interval + 3 * MaxDelay
          PROVE  InLease(b)'
      <4>1. beat'[<<b, j>>] = beat[<<b, j>>]
        BY <2>1, <3>3 DEF pending
      <4> QED BY <2>1, <3>3, <4>1 DEF InLease, pending
    <3>4. heartbeat <= since[b] + MaxDelay => heartbeat <= since[b] + 2 * MaxDelay
      BY <1>a
    <3> QED BY <3>1, <3>2, <3>3, <3>4 DEF InLease
  <2>4. BrokerSound(b)'
    BY <1>0, <2>1, <2>3 DEF BrokerSound
  <2>5. ASSUME NEW c \in Brokers \ {b} PROVE BrokerSound(c)'
    BY <1>0, <2>1 DEF BrokerSound, InLease, pending
  <2>6. ASSUME NEW c \in Brokers, NEW j \in Slots PROVE CallbackSound(c, j)'
    BY <1>0, <2>1, <2>2 DEF CallbackSound, pending
  <2> QED BY <2>4, <2>5, <2>6 DEF LeaseSound
\* Only the registered broker registers.
<1>8. ASSUME NEW b \in Brokers, NEW k \in Slots, Registered(b, k) PROVE LeaseSound'
  <2>1. /\ beat[<<b, k>>].pc \in {"registering", "orphan"}
        /\ leader' = Address[b] /\ heartbeat' = beat[<<b, k>>].stamp
        /\ beat' = [Outdated EXCEPT ![<<b, k>>] = AfterRegistration(b, k)]
    BY <1>8 DEF Registered, Write
  <2>2. leader = Address[b] /\ phase[b] \in {"registering", "up", "stopped"}
    BY <1>0, <2>1 DEF BrokerSound, CallbackSound, pending, Holder
  <2>3. \A c \in Brokers \ {b} : phase[c] \notin Holder
    BY <1>0, <2>2 DEF BrokerSound, AllPunctual
  <2>4. /\ \A c \in Brokers \ {b} : phase'[c] = phase[c] /\ since'[c] = since[c]
        /\ since'[b] \in Nat
        /\ phase'[b] = phase[b] \/ (phase[b] = "registering" /\ phase'[b] = "opening")
    BY <1>8 DEF Registered, Enter, TypeOK
  <2>5. /\ phase[b] = "registering" => phase'[b] = "opening"
        /\ phase[b] # "registering" => phase'[b] = phase[b]
    BY <1>0, <1>8, <2>1 DEF Registered, Enter, TypeOK, CallbackSound
  <2>6. \A c \in Brokers, j \in Slots :
           /\ beat'[<<c, j>>].pc # "orphan"
           /\ beat'[<<c, j>>].pc = "registering" =>
                 beat[<<c, j>>].pc = "registering" /\ <<c, j>> # <<b, k>>
           /\ beat'[<<c, j>>].pc = "checked" => beat'[<<c, j>>] = beat[<<c, j>>]
    BY <2>1 DEF Outdated, AfterRegistration, NoCallback, Callback
  <2>7. BrokerSound(b)'
    BY <1>a, <2>1, <2>2, <2>4, <2>5 DEF BrokerSound, InLease, Candidate, Holder
  <2>8. ASSUME NEW c \in Brokers \ {b} PROVE BrokerSound(c)'
    BY <1>0, <2>1, <2>2, <2>3, <2>4 DEF BrokerSound
  <2>9. ASSUME NEW c \in Brokers, NEW j \in Slots PROVE CallbackSound(c, j)'
    <3>1. pending(c, j)' => phase'[c] \in {"registering", "up"}
      <4>1. ASSUME c = b, phase[b] = "registering", pending(c, j)' PROVE FALSE
        <5>1. pending(b, j) /\ pending(b, k) /\ j # k
          BY <1>0, <2>1, <2>6, <4>1 DEF CallbackSound, pending
        <5> QED BY <1>0, <4>1, <5>1 DEF CallbackSound
      <4>2. pending(c, j)' => pending(c, j)
        BY <2>6 DEF pending
      <4>3. CallbackSound(c, j)
        BY <1>0
      <4> QED BY <2>4, <2>5, <4>1, <4>2, <4>3 DEF CallbackSound
    <3>2. ASSUME NEW i \in Slots, pending(c, j)', pending(c, i)', phase'[c] = "registering"
          PROVE  i = j
      <4>1. pending(c, j) /\ pending(c, i) /\ phase[c] = "registering"
        BY <2>4, <2>5, <2>6, <3>2 DEF pending
      <4> QED BY <1>0, <4>1 DEF CallbackSound
    <3>3. phase'[c] = "up" /\ beat'[<<c, j>>].pc = "checked" => beat'[<<c, j>>].isLeader
      <4>1. phase'[c] = "up" => phase[c] = "up"
        BY <2>4, <2>5
      <4> QED BY <1>0, <2>6, <4>1 DEF CallbackSound
    <3>4. beat'[<<c, j>>].pc # "orphan"
      BY <2>6
    <3> QED BY <3>1, <3>2, <3>3, <3>4 DEF CallbackSound, pending
  <2> QED BY <2>7, <2>8, <2>9 DEF LeaseSound
<1>9. ASSUME NEW b \in Brokers, NEW k \in Slots, RegistrationFails(b, k) PROVE LeaseSound'
  <2>1. beat[<<b, k>>].pc = "orphan"
    BY <1>0, <1>9 DEF RegistrationFails, AllPunctual, BrokerSound
  <2>2. /\ UNCHANGED <<storeVars, phase, since>>
        /\ beat' = [beat EXCEPT ![<<b, k>>] = NoCallback]
    BY <1>9, <2>1 DEF RegistrationFails
  <2>3. \A c \in Brokers, j \in Slots :
           beat'[<<c, j>>] = beat[<<c, j>>] \/ beat'[<<c, j>>].pc = "idle"
    BY <2>2 DEF TypeOK, NoCallback, Callback
  <2>4. \A c \in Brokers, j \in Slots : pending(c, j) => beat'[<<c, j>>] = beat[<<c, j>>]
    BY <2>1, <2>2 DEF TypeOK, pending
  <2>5. ASSUME NEW c \in Brokers PROVE BrokerSound(c)'
    BY <1>0, <2>2, <2>4 DEF BrokerSound, InLease, pending, storeVars
  <2>6. ASSUME NEW c \in Brokers, NEW j \in Slots PROVE CallbackSound(c, j)'
    BY <1>0, <2>2, <2>3 DEF CallbackSound, pending, storeVars
  <2> QED BY <2>5, <2>6 DEF LeaseSound
<1>10. ASSUME NEW b \in Brokers, NEW k \in Slots, CheckReads(b, k) PROVE LeaseSound'
  <2>1. /\ UNCHANGED <<storeVars, phase, since>> /\ beat[<<b, k>>].pc = "checking"
        /\ beat'[<<b, k>>] = Callback("checked", beat[<<b, k>>].stamp, leader = Address[b])
        /\ \A c \in Brokers, j \in Slots : <<c, j>> # <<b, k>> => beat'[<<c, j>>] = beat[<<c, j>>]
    BY <1>10 DEF CheckReads, TypeOK
  <2>2. beat'[<<b, k>>].pc = "checked" /\ (phase[b] = "up" => beat'[<<b, k>>].isLeader)
    <3>1. phase[b] = "up" => leader = Address[b]
      BY <1>0 DEF BrokerSound, Holder
    <3>2. beat'[<<b, k>>].pc = "checked" /\ beat'[<<b, k>>].isLeader = (leader = Address[b])
      BY <2>1 DEF Callback
    <3> QED BY <3>1, <3>2
  <2>3. ASSUME NEW c \in Brokers PROVE BrokerSound(c)'
    <3>1. \A j \in Slots : pending(c, j) => beat'[<<c, j>>] = beat[<<c, j>>]
      BY <2>1 DEF pending
    <3> QED BY <1>0, <2>1, <3>1 DEF BrokerSound, InLease, pending, storeVars
  <2>4. ASSUME NEW c \in Brokers, NEW j \in Slots PROVE CallbackSound(c, j)'
    <3>1. CASE <<c, j>> = <<b, k>>
      BY <2>1, <2>2, <3>1 DEF CallbackSound, pending
    <3>2. CASE <<c, j>> # <<b, k>>
      BY <1>0, <2>1, <2>2, <3>2 DEF CallbackSound, pending, storeVars
    <3> QED BY <3>1, <3>2
  <2> QED BY <2>3, <2>4 DEF LeaseSound
<1>11. ASSUME NEW b \in Brokers, NEW k \in Slots, CheckAnswered(b, k) PROVE LeaseSound'
  <2>1. beat[<<b, k>>].pc = "checked" /\ (phase[b] = "up" => beat[<<b, k>>].isLeader)
    BY <1>0, <1>11 DEF CheckAnswered, CallbackSound
  <2>2. /\ UNCHANGED <<storeVars, phase, since>>
        /\ beat' = [beat EXCEPT ![<<b, k>>] = NoCallback]
    BY <1>11, <2>1 DEF CheckAnswered
  <2>3. \A c \in Brokers, j \in Slots :
           beat'[<<c, j>>] = beat[<<c, j>>] \/ beat'[<<c, j>>].pc = "idle"
    BY <2>2 DEF TypeOK, NoCallback, Callback
  <2>4. \A c \in Brokers, j \in Slots : pending(c, j) => beat'[<<c, j>>] = beat[<<c, j>>]
    BY <2>1, <2>2 DEF TypeOK, pending
  <2>5. ASSUME NEW c \in Brokers PROVE BrokerSound(c)'
    BY <1>0, <2>2, <2>4 DEF BrokerSound, InLease, pending, storeVars
  <2>6. ASSUME NEW c \in Brokers, NEW j \in Slots PROVE CallbackSound(c, j)'
    BY <1>0, <2>2, <2>3 DEF CallbackSound, pending, storeVars
  <2> QED BY <2>5, <2>6 DEF LeaseSound
<1>12. ASSUME NEW b \in Brokers, Crash(b) PROVE LeaseSound'
  <2>1. /\ phase'[b] = "stopped" /\ phase[b] # "stopped" /\ leader' = leader
        /\ heartbeat' = heartbeat
        /\ \A c \in Brokers \ {b} : phase'[c] = phase[c] /\ since'[c] = since[c]
        /\ \A c \in Brokers \ {b}, k \in Slots : beat'[<<c, k>>] = beat[<<c, k>>]
    BY <1>12 DEF Crash, Enter, AllPunctual, TypeOK, storeVars
  <2>2. ASSUME NEW k \in Slots PROVE CallbackSound(b, k)'
    <3>1. /\ beat'[<<b, k>>].pc # "registering"
          /\ beat'[<<b, k>>].pc = "orphan" => beat[<<b, k>>].pc \in {"registering", "orphan"}
      BY <1>12 DEF Crash, NoCallback, Callback
    <3>2. beat[<<b, k>>].pc \in {"registering", "orphan"} => leader = Address[b]
      BY <1>0 DEF BrokerSound, CallbackSound, pending, Holder
    <3> QED BY <2>1, <3>1, <3>2 DEF CallbackSound, pending
  <2>3. BrokerSound(b)'
    BY <2>1 DEF BrokerSound, Candidate, Holder
  <2>4. ASSUME NEW c \in Brokers \ {b} PROVE BrokerSound(c)'
    BY <1>0, <2>1 DEF BrokerSound, InLease, pending
  <2>5. ASSUME NEW c \in Brokers \ {b}, NEW k \in Slots PROVE CallbackSound(c, k)'
    BY <1>0, <2>1 DEF CallbackSound, pending
  <2> QED BY <2>2, <2>3, <2>4, <2>5 DEF LeaseSound
<1>13. ASSUME NEW b \in Brokers, Traffic(b) PROVE LeaseSound'
  <2>1. UNCHANGED <<storeVars, phase, since>> /\ beat' = Outdated
    BY <1>13 DEF Traffic
  <2>2. \A c \in Brokers, j \in Slots :
           beat'[<<c, j>>] = beat[<<c, j>>] \/ beat'[<<c, j>>].pc = "idle"
    BY <2>1 DEF Outdated, NoCallback, Callback
  <2>3. \A c \in Brokers, j \in Slots : pending(c, j) => beat'[<<c, j>>] = beat[<<c, j>>]
    BY <2>1 DEF Outdated, pending
  <2>4. ASSUME NEW c \in Brokers PROVE BrokerSound(c)'
    BY <1>0, <2>1, <2>3 DEF BrokerSound, InLease, pending, storeVars
  <2>5. ASSUME NEW c \in Brokers, NEW j \in Slots PROVE CallbackSound(c, j)'
    BY <1>0, <2>1, <2>2 DEF CallbackSound, pending, storeVars
  <2> QED BY <2>4, <2>5 DEF LeaseSound
<1>14. CASE UNCHANGED vars
  BY <1>0, <1>14 DEF LeaseSound, BrokerSound, CallbackSound, InLease, pending, vars, storeVars
<1> QED
  BY <1>1, <1>2, <1>3, <1>4, <1>5, <1>6, <1>7, <1>8, <1>9, <1>10, <1>11, <1>12, <1>13, <1>14
     DEF Next

LEMMA AlwaysInLease ==
  ASSUME AllPunctual
  PROVE  Spec => [](TypeOK /\ LeaseSound)
<1>1. TypeOK /\ ClaimSound /\ LeaseSound /\ [Next]_vars => LeaseSound'
  BY LeaseNext
<1> QED
  BY <1>1, TypeInit, TypeNext, ClaimInit, ClaimNext, LeaseInit, PTL DEF Spec

(* A broker whose timers and storage are on time is the registered one     *)
(* from its election on, and its heartbeat never expires: nobody can be    *)
(* elected beside it.  The bound on the time-out is the exact one.         *)
THEOREM PunctualLeaderHoldsLease ==
  ASSUME AllPunctual
  PROVE  Spec => []LeaderHoldsLease
<1>1. TypeOK /\ LeaseSound => LeaderHoldsLease
  BY LeaseHolds DEF LeaderHoldsLease, Holder
<1> QED
  BY <1>1, AlwaysInLease, PTL

(* So two punctual brokers never serve together.                           *)
THEOREM OnePunctualBrokerServes ==
  ASSUME AllPunctual
  PROVE  Spec => []AtMostOneServing
<1>1. TypeOK /\ LeaseSound => AtMostOneServing
  BY LeaseHolds DEF AtMostOneServing, serving, Holder, AllPunctual
<1> QED
  BY <1>1, AlwaysInLease, PTL
=============================================================================
