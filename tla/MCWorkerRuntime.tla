--------------------------- MODULE MCWorkerRuntime ---------------------------
(* Small instances of WorkerRuntime for TLC.                               *)
EXTENDS WorkerRuntimeProperties
CONSTANTS w1, w2, tA, tBad, tNone

MCSlots == w1 :> 1..2 @@ w2 :> 1..1
OneSlot == w1 :> 1..1 @@ w2 :> 1..1
TwoSlots == w1 :> 1..2
Job(t, n) == [jobType |-> t, maxAttempts |-> n]
MCTypes == {tA, tBad, tNone}
MCBacklogs == {<<Job(tA, 2)>>, <<Job(tBad, 1)>>, <<Job(tNone, 1)>>}
TwoJobs == {<<Job(tA, None), Job(tA, None)>>}
=============================================================================
