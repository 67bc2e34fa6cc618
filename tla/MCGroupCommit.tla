--------------------------- MODULE MCGroupCommit ---------------------------
(* Small instances of GroupCommit for TLC.                                 *)
EXTENDS GroupCommitProperties, TLC
CONSTANTS b1, b2, w1, w2, tA

MCBrokers == {b1, b2}
MCSlots1 == 1..1
MCSlots2 == 1..2
MCSubmissions3 == 1..3
MCSubmissions4 == 1..4

OneJob  == <<[jobType |-> tA, maxAttempts |-> None]>>
TwoJobs == <<[jobType |-> None, maxAttempts |-> 1], [jobType |-> tA, maxAttempts |-> None]>>
MCOneJob == {OneJob}
MCTwoJobs == {TwoJobs}
OnlyA == {{tA}}
NoFilter == {{}}

Sym == Permutations({w1, w2})
=============================================================================
