----------------------------- MODULE AtomicQueue -----------------------------
(***************************************************************************)
(* What a group-commit engine, or any number of them on one object,        *)
(* promises: one queue, to which whole batches of submitted mutations are  *)
(* applied atomically, each mutation at most once and between its          *)
(* submission and its answer.  An answered caller gets the result of the   *)
(* one application; a refused one may still have been applied, or may      *)
(* be applied later (the request that carries it is out of anybody's hand). *)
(***************************************************************************)
EXTENDS QueueState

CONSTANTS Submissions, MaxRetries

VARIABLES queue, clock, mutation, outcome, result, commits, effect

vars == <<queue, clock, mutation, outcome, result, commits, effect>>
promises == <<mutation, outcome, result>>
history == <<commits, effect>>

Init ==
    /\ queue = emptyState
    /\ clock = 0
    /\ mutation = [s \in Submissions |-> None]
    /\ outcome = [s \in Submissions |-> "new"]
    /\ result = [s \in Submissions |-> None]
    /\ commits = [s \in Submissions |-> 0]
    /\ effect = [s \in Submissions |-> None]

Tick == clock' > clock /\ UNCHANGED <<queue, promises, history>>

Submit(s) ==
    /\ outcome[s] = "new"
    /\ outcome' = [outcome EXCEPT ![s] = "pending"]
    /\ \A t \in Submissions \ {s} : mutation'[t] = mutation[t]
    /\ UNCHANGED <<queue, clock, result, history>>

\* An order of the mutations of S, one `now` for all of them, fresh job ids.
CommitAs(batch, now, n) ==
    LET work == [i \in DOMAIN batch |->
                   [mutation |-> mutation[batch[i]], seed |-> <<batch[i], n>>]]
        pass == applyBatch(queue, work, now)
    IN /\ queue' = pass.state
       /\ \A i \in DOMAIN batch : effect'[batch[i]] = pass.results[i]

Commit(S) ==
    /\ commits' = [s \in Submissions |-> commits[s] + (IF s \in S THEN 1 ELSE 0)]
    /\ S # {}
    /\ \A s \in S : outcome[s] \in {"pending", "rejected"} /\ commits[s] = 0
    /\ \A s \in Submissions \ S : effect'[s] = effect[s]
    /\ \E batch \in SetToSeqs(S), now \in 0..clock, n \in 0..MaxRetries :
          CommitAs(batch, now, n)
    /\ UNCHANGED <<clock, promises>>

Answer(S) ==
    /\ outcome' = [s \in Submissions |-> IF s \in S THEN "resolved" ELSE outcome[s]]
    /\ \A s \in S : outcome[s] = "pending" /\ commits[s] = 1
    /\ result' = [s \in Submissions |-> IF s \in S THEN effect[s] ELSE result[s]]
    /\ UNCHANGED <<queue, clock, mutation, history>>

Refuse(S) ==
    /\ outcome' = [s \in Submissions |-> IF s \in S THEN "rejected" ELSE outcome[s]]
    /\ \A s \in S : outcome[s] = "pending"
    /\ UNCHANGED <<queue, clock, mutation, result, history>>

Next ==
    \/ Tick
    \/ \E s \in Submissions : Submit(s)
    \/ \E S \in SUBSET Submissions : Commit(S) \/ Answer(S) \/ Refuse(S)

Spec == Init /\ [][Next]_vars
=============================================================================
