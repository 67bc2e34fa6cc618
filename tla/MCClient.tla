------------------------------- MODULE MCClient -------------------------------
(* Small instances of the client for TLC.                                  *)
EXTENDS ClientProperties

MCCalls ==
    {submitCall(Empty, None, 0), submitCall("email", Null, None), submitCall("email", "data", 3),
     claimCall("w", None), claimCall("w", {}), claimCall(Empty, {"email", "sms"}),
     reportCall("heartbeat", "job", "w"), reportCall("completeJob", "job", "w")}

job(type, payload, status, worker, heartbeat, attempts, max) ==
    [id |-> "job", type |-> type, payload |-> payload, status |-> status, workerId |-> worker,
     heartbeat |-> heartbeat, attempts |-> attempts, maxAttempts |-> max]
Bare == job(None, None, "unclaimed", None, None, 0, None)
Full == job("email", "data", "in_progress", "w", 1, 2, 3)
Mixed == job("email", Null, "unclaimed", None, None, 1, 0)

MCJobs == {Bare, Full, Mixed}
MCStates == {[jobs |-> <<>>, completedTotal |-> 0, broker |-> None],
             [jobs |-> <<Full, Bare, Mixed>>, completedTotal |-> 5, broker |-> "host"]}
=============================================================================
