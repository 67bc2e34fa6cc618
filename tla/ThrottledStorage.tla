-------------------------- MODULE ThrottledStorage --------------------------
(***************************************************************************)
(* The throttle around a storage backend (packages/storage/src/throttled.ts): *)
(* a call waits for its token bucket before it is passed on.  The callers   *)
(* share the buckets, as the requests of one broker do.                    *)
(*                                                                         *)
(* A token is `cost` units, and one unit flows in with each tick, so that  *)
(* the tokens, fractions in the code, are whole numbers of units here.     *)
(***************************************************************************)
EXTENDS ObjectStorage

CONSTANTS Limits,    \* [read, write : [cost, burst], perDay]; cost 0: no limit
          DayLength,
          MaxClock

Bucket == [cost : Nat, burst : Nat]
ASSUME LimitsAssumption == Limits \subseteq [read : Bucket, write : Bucket, perDay : Nat]
ASSUME DayAssumption == DayLength \in Nat \ {0} /\ MaxClock \in Nat

VARIABLES
    limits,
    clock,
    bucket,    \* tokens (in units) and lastRefill of the two TokenBuckets
    daily,     \* dailyWriteCount and dayStartTimestamp
    stats,     \* calls that were made, and the delay added to them
    wakeup,    \* when the timer of a delayed caller fires; None: not delayed
    exempt,    \* history: writes that passed within the daily budget,
    today      \* and since the last midnight the writes made, and passed like that

throttleVars == <<limits, clock, bucket, daily, stats, wakeup, exempt, today>>
allVars == <<vars, throttleVars>>

Kinds == {"read", "write"}
capacity(k) == limits[k].burst * limits[k].cost
startOfUTCDay(t) == t - (t % DayLength)

NoWrites == [made |-> 0, exempt |-> 0]

ThrottleInit ==
    /\ Init
    /\ limits \in Limits
    /\ clock = 0
    /\ bucket = [k \in Kinds |-> [tokens |-> capacity(k), lastRefill |-> 0]]
    /\ daily = [count |-> 0, dayStart |-> 0]
    /\ stats = [k \in Kinds |-> [total |-> 0, delay |-> 0]]
    /\ wakeup = [c \in Callers |-> None]
    /\ exempt = 0 /\ today = NoWrites

Least(m, n) == IF m < n THEN m ELSE n

refill(k) == Least(capacity(k), bucket[k].tokens + (clock - bucket[k].lastRefill))

\* A caller that finds less than a token waits for the rest of it, and takes
\* what there is.
delayOf(k) == IF refill(k) >= limits[k].cost THEN 0 ELSE limits[k].cost - refill(k)

\* Mutant: what there is stays for the next caller.
KeepFraction(k) == IF delayOf(k) = 0 THEN refill(k) - limits[k].cost ELSE refill(k)
left(k) == IF delayOf(k) = 0 THEN refill(k) - limits[k].cost ELSE 0

limited(k) == limits[k].cost > 0

Acquire(c, k) ==
    /\ bucket' = [bucket EXCEPT ![k] = [tokens |-> left(k), lastRefill |-> clock]]
    /\ stats' = [stats EXCEPT ![k] = [total |-> @.total + 1, delay |-> @.delay + delayOf(k)]]
    /\ wakeup' = [wakeup EXCEPT ![c] = IF delayOf(k) > 0 THEN clock + delayOf(k) ELSE None]

Pass(k) ==
    /\ stats' = [stats EXCEPT ![k].total = @ + 1]
    /\ UNCHANGED <<bucket, wakeup>>

\* A caller that is delayed has not sent anything; the others have.
Forward(c) == createIfNotExists(c) \/ read(c) \/ write(c)
ForwardUnlessDelayed(c) == IF wakeup'[c] = None THEN Forward(c) ELSE UNCHANGED vars

acquireRead(c) ==
    /\ wakeup[c] = None /\ mayRead(c)
    /\ IF limited("read") THEN Acquire(c, "read") ELSE Pass("read")
    /\ ForwardUnlessDelayed(c)
    /\ UNCHANGED <<limits, clock, daily, exempt, today>>

\* The write after a midnight starts the count anew.
countToday == IF startOfUTCDay(clock) # daily.dayStart THEN 1 ELSE daily.count + 1
OneWriteMore == limits.perDay > 0 /\ countToday <= limits.perDay + 1   \* mutant
withinBudget == limits.perDay > 0 /\ countToday <= limits.perDay

acquireWrite(c) ==
    /\ wakeup[c] = None /\ (mayCreate(c) \/ mayWrite(c))
    /\ daily' = [count |-> countToday, dayStart |-> startOfUTCDay(clock)]
    /\ IF withinBudget \/ ~limited("write") THEN Pass("write") ELSE Acquire(c, "write")
    /\ exempt' = exempt + (IF withinBudget THEN 1 ELSE 0)
    /\ today' = [made |-> today.made + 1,
                 exempt |-> today.exempt + (IF withinBudget THEN 1 ELSE 0)]
    /\ ForwardUnlessDelayed(c)
    /\ UNCHANGED <<limits, clock>>

\* The timer of a delayed caller fires: its call is passed on.
DelayEnds(c) ==
    /\ wakeup[c] # None /\ clock >= wakeup[c]
    /\ wakeup' = [wakeup EXCEPT ![c] = None]
    /\ Forward(c)
    /\ UNCHANGED <<limits, clock, bucket, daily, stats, exempt, today>>

Tick ==
    /\ clock < MaxClock
    /\ clock' = clock + 1
    /\ today' = IF startOfUTCDay(clock + 1) = startOfUTCDay(clock) THEN today ELSE NoWrites
    /\ UNCHANGED <<vars, limits, bucket, daily, stats, wakeup, exempt>>

ThrottleNext ==
    \/ Tick
    \/ \E c \in Callers : acquireRead(c) \/ acquireWrite(c) \/ DelayEnds(c)
    \/ (\E c \in Callers : Steps(c)) /\ UNCHANGED throttleVars
    \/ Lates /\ UNCHANGED throttleVars

ThrottledSpec == ThrottleInit /\ [][ThrottleNext]_allVars
=============================================================================
