---------------------------- MODULE JobLifecycle ----------------------------
(***************************************************************************)
(* What GET /ai/jobs/{id} promises a polling client: a job is queued, then *)
(* running, then ends, as succeeded with a result or as failed with an     *)
(* error; a job the queue would not take fails without running.  What the  *)
(* client once saw of a result or an error stays.  arq may deliver a job   *)
(* again: then it runs, and ends, once more.                               *)
(***************************************************************************)
CONSTANT Jobs           \* ai_jobs ids

VARIABLES status, outcome

vars == <<status, outcome>>

Init ==
    /\ status = [j \in Jobs |-> "absent"]
    /\ outcome = [j \in Jobs |-> {}]

Submit(j) ==
    /\ status[j] = "absent"
    /\ status' = [status EXCEPT ![j] = "queued"]
    /\ UNCHANGED outcome

Start(j) ==
    /\ status[j] = "queued"
    /\ status' = [status EXCEPT ![j] = "running"]
    /\ UNCHANGED outcome

Redeliver(j) ==
    /\ status[j] \in {"succeeded", "failed"}
    /\ outcome[j] # {}
    /\ status' = [status EXCEPT ![j] = "running"]
    /\ UNCHANGED outcome

Succeed(j) ==
    /\ status[j] = "running"
    /\ status' = [status EXCEPT ![j] = "succeeded"]
    /\ outcome' = [outcome EXCEPT ![j] = @ \cup {"result"}]

Fail(j) ==
    /\ status[j] \in {"queued", "running"}
    /\ status' = [status EXCEPT ![j] = "failed"]
    /\ outcome' = [outcome EXCEPT ![j] = @ \cup {"error"}]

Next == \E j \in Jobs : Submit(j) \/ Start(j) \/ Redeliver(j) \/ Succeed(j) \/ Fail(j)

Spec == Init /\ [][Next]_vars
=============================================================================
