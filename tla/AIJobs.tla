------------------------------- MODULE AIJobs -------------------------------
(***************************************************************************)
(* Background and synchronous Anthropic calls: POST /ai/jobs, the arq job  *)
(* run_messages_job, POST /ai/messages, POST /ai/reviews/generate, the     *)
(* ai_usage row they all write through AIService.complete, and the row of  *)
(* the weekly review.                                                      *)
(*                                                                         *)
(* arq (external) keeps the message of a job in Redis until a worker       *)
(* acknowledges it.  A started job is protected by a lock that expires     *)
(* some time after job_timeout; run_messages_job never yields to the event *)
(* loop, so the timeout cannot stop it and the lock of a slow run expires  *)
(* as that of a dead one does.  A job started MaxTries times is dropped.   *)
(*                                                                         *)
(* Abstractions.  A request payload, a reply and a cost are not modelled,  *)
(* nor the figures of a review (Activity has them); calls, ai_usage rows   *)
(* and reviews are counted.  One action is the code between two commits or *)
(* network calls.                                                          *)
(***************************************************************************)
EXTENDS Integers, FiniteSets, FiniteSetsExt

CONSTANTS
    Jobs,               \* ai_jobs ids (bound on the jobs ever created)
    Workers,            \* arq worker processes
    Threads,            \* request threads of the API process
    EnqueueOutcomes,    \* what enqueue_job can do in this deployment
    MaxTries,           \* arq's max_tries
    MaxCrashes,         \* bound on process crashes
    MaxLapses,          \* bound on locks that expire under a running job
    MaxFaults,          \* bound on failed database commits
    MaxDirect,          \* bound on the calls of request threads
    Direct, Review      \* what a request thread works for: a message, a review

Runners == Workers \cup Threads
Purposes == Jobs \cup {Direct, Review}

ASSUME JobsAssumption ==
    /\ Direct \notin Jobs /\ Review \notin Jobs /\ Direct # Review
    /\ Workers \cap Threads = {}
    /\ IsFiniteSet(Jobs) /\ IsFiniteSet(Workers) /\ IsFiniteSet(Threads)
    /\ EnqueueOutcomes \subseteq {"queued", "refused", "reply_lost"}
    /\ MaxTries \in Nat \ {0}
    /\ {MaxCrashes, MaxLapses, MaxFaults, MaxDirect} \subseteq Nat

VARIABLES
    status,             \* ai_jobs.status, "absent" before the insert
    outcome,            \* which of ai_jobs.result and ai_jobs.error are set
    usage,              \* ai_usage rows per job, and for the calls of threads
    billed,             \* those of them that are of answered calls: error is not set
    reviews,            \* ai_reviews rows
    request,            \* where the POST /ai/jobs request of a job stands
    queue,              \* jobs whose message is in Redis
    locks,              \* jobs arq holds an in-progress lock for
    tries,              \* how often arq started a job
    pc,                 \* where a runner stands
    work,               \* what a runner calls for, or called for last
    calls,              \* history: attempted Anthropic invocations per job
    unanswered,         \* history: jobs Redis took although enqueue_job raised
    reversals,          \* history: how often a job that had ended got another status
    crashes,            \* crashes so far
    lapses,             \* locks expired under a running job so far
    faults              \* failed commits so far

table == <<status, outcome, reversals>>
spend == <<usage, billed, reviews>>
redis == <<queue, locks, tries>>
bounds == <<crashes, lapses, faults>>
vars == <<table, spend, request, redis, pc, work, calls, unanswered, bounds>>

JOB_TERMINAL == {"succeeded", "failed"}

\* An UPDATE by id, whatever the row says by now.
WriteStatus(j, new) ==
    /\ status' = [status EXCEPT ![j] = new]
    /\ reversals' = IF status[j] \in JOB_TERMINAL \ {new}
                    THEN [reversals EXCEPT ![j] = @ + 1] ELSE reversals

Goto(r, place) == pc' = [pc EXCEPT ![r] = place]

\* A commit fails: the database is unreachable, or refuses.
CommitFails ==
    /\ faults < MaxFaults
    /\ faults' = faults + 1

-----------------------------------------------------------------------------
(* POST /ai/jobs.                                                          *)

CreateJob(j) ==
    /\ request[j] = "none"
    /\ status' = [status EXCEPT ![j] = "queued"]
    /\ request' = [request EXCEPT ![j] = "created"]
    /\ UNCHANGED <<outcome, reversals, spend, redis, pc, work, calls, unanswered, bounds>>

\* create_pool, enqueue_job, close: an exception after the message was stored looks
\* like one before.
Enqueue(j) ==
    /\ request[j] = "created"
    /\ \E result \in EnqueueOutcomes :
         /\ queue' = IF result = "refused" THEN queue ELSE queue \cup {j}
         /\ request' = [request EXCEPT ![j] =
              IF result = "queued" THEN "accepted" ELSE "excepted"]
         /\ unanswered' = IF result = "reply_lost" THEN unanswered \cup {j} ELSE unanswered
    /\ UNCHANGED <<table, spend, locks, tries, pc, work, calls, bounds>>

\* The except branch: mark_failed, answer 503; or its commit fails too, which nobody
\* catches, and the row stays as it is.
RejectJob(j) ==
    /\ request[j] = "excepted"
    /\ \/ /\ WriteStatus(j, "failed")
          /\ outcome' = [outcome EXCEPT ![j] = @ \cup {"error"}]
          /\ request' = [request EXCEPT ![j] = "rejected"]
          /\ UNCHANGED faults
       \/ /\ CommitFails
          /\ request' = [request EXCEPT ![j] = "lost"]
          /\ UNCHANGED table
    /\ UNCHANGED <<spend, redis, pc, work, calls, unanswered, crashes, lapses>>

-----------------------------------------------------------------------------
(* arq, as the worker relies on it.                                        *)

StartJob(w, j) ==
    /\ pc[w] = "idle"
    /\ j \in queue \ locks
    /\ tries[j] < MaxTries
    /\ locks' = locks \cup {j}
    /\ tries' = [tries EXCEPT ![j] = @ + 1]
    /\ Goto(w, "load")
    /\ work' = [work EXCEPT ![w] = j]
    /\ UNCHANGED <<table, spend, request, queue, calls, unanswered, bounds>>

DropJob(j) ==
    /\ j \in queue \ locks
    /\ tries[j] = MaxTries
    /\ queue' = queue \ {j}
    /\ UNCHANGED <<table, spend, request, locks, tries, pc, work, calls, unanswered,
                   bounds>>

\* Fault: a finished job stays in the queue.
KeepMessage(w) ==
    /\ pc[w] = "ack"
    /\ locks' = locks \ {work[w]}
    /\ Goto(w, "idle")
    /\ work' = [work EXCEPT ![w] = Direct]
    /\ UNCHANGED <<table, spend, request, queue, tries, calls, unanswered, bounds>>

\* Fault: a job that failed is raised to arq, which tries it again.
RetryFailed(w) ==
    /\ pc[w] = "ack"
    /\ queue' = IF status[work[w]] = "failed" THEN queue ELSE queue \ {work[w]}
    /\ locks' = locks \ {work[w]}
    /\ Goto(w, "idle")
    /\ work' = [work EXCEPT ![w] = Direct]
    /\ UNCHANGED <<table, spend, request, tries, calls, unanswered, bounds>>

\* The job function returned or raised: the message and the lock are removed, whoever
\* holds the lock by now.
Acknowledge(w) ==
    /\ pc[w] = "ack"
    /\ queue' = queue \ {work[w]}
    /\ locks' = locks \ {work[w]}
    /\ Goto(w, "idle")
    /\ work' = [work EXCEPT ![w] = Direct]
    /\ UNCHANGED <<table, spend, request, tries, calls, unanswered, bounds>>

\* The run blocks its worker for longer than the lock lives.
LockExpires(w) ==
    /\ w \in Workers
    /\ work[w] \in locks
    /\ lapses < MaxLapses
    /\ lapses' = lapses + 1
    /\ locks' = locks \ {work[w]}
    /\ UNCHANGED <<table, spend, request, queue, tries, pc, work, calls, unanswered, crashes, faults>>

-----------------------------------------------------------------------------
(* run_messages_job and AIService.complete.                                *)

\* mark_running; a failing commit leaves the function.
MarkRunning(w) ==
    /\ pc[w] = "load"
    /\ \/ /\ WriteStatus(work[w], "running")
          /\ Goto(w, "call")
          /\ UNCHANGED faults
       \/ /\ CommitFails
          /\ Goto(w, "ack")
          /\ UNCHANGED <<status, reversals>>
    /\ UNCHANGED <<outcome, spend, request, redis, work, calls, unanswered, crashes, lapses>>

\* POST /ai/messages and, with its figures at hand, POST /ai/reviews/generate go
\* straight to AIService.complete.
AskDirectly(t, x) ==
    /\ pc[t] = "idle"
    /\ calls[Direct] + calls[Review] + Cardinality({u \in Threads : pc[u] = "call"})
         < MaxDirect
    /\ Goto(t, "call")
    /\ work' = [work EXCEPT ![t] = x]
    /\ UNCHANGED <<table, spend, request, redis, calls, unanswered, bounds>>

\* The Messages call, answered or failed; a call that create_message refuses for want
\* of an API key is one that failed.
CallAnthropic(r) ==
    /\ pc[r] = "call"
    /\ calls' = [calls EXCEPT ![work[r]] = @ + 1]
    /\ Goto(r, "record") \/ Goto(r, "recordError")
    /\ UNCHANGED <<table, spend, request, redis, work, unanswered, bounds>>

\* Fault: only answered calls are recorded.
InsertUsageOfAnswers(r) ==
    IF pc[r] = "record"
    THEN /\ usage' = [usage EXCEPT ![work[r]] = @ + 1]
         /\ billed' = [billed EXCEPT ![work[r]] = @ + 1]
    ELSE UNCHANGED <<usage, billed>>

InsertUsage(r) ==
    /\ usage' = [usage EXCEPT ![work[r]] = @ + 1]
    /\ billed' = IF pc[r] = "record" THEN [billed EXCEPT ![work[r]] = @ + 1] ELSE billed

\* Fault: the job function returns before it marks the job.
ThenStop(r, place) == Goto(r, IF r \in Workers THEN "ack" ELSE "idle")

\* A thread answers its client, a worker goes on to the job row.
ThenReport(r, place) == Goto(r, IF r \in Workers THEN place ELSE "idle")

\* The caller of complete has its answer: a thread that asked for a review stores it.
ThenUse(r) ==
    IF r \in Threads /\ work[r] = Review THEN Goto(r, "store") ELSE ThenReport(r, "succeed")

\* Fault: a usage row that cannot be committed is ignored for answered calls too.
RecordUsageQuietly(r) ==
    /\ pc[r] = "record"
    /\ \/ InsertUsage(r) /\ UNCHANGED faults
       \/ CommitFails /\ UNCHANGED <<usage, billed>>
    /\ ThenUse(r)
    /\ UNCHANGED <<table, reviews, request, redis, work, calls, unanswered, crashes, lapses>>

\* The usage row of an answered call.  complete does not roll back a failed commit,
\* so mark_failed in the job's except branch raises as well: the job ends as it is.
RecordUsage(r) ==
    /\ pc[r] = "record"
    /\ \/ InsertUsage(r) /\ ThenUse(r) /\ UNCHANGED faults
       \/ CommitFails /\ ThenReport(r, "ack") /\ UNCHANGED <<usage, billed>>
    /\ UNCHANGED <<table, reviews, request, redis, work, calls, unanswered, crashes, lapses>>

\* _record_failure swallows its own failure, after a rollback.
RecordError(r) ==
    /\ pc[r] = "recordError"
    /\ \/ InsertUsage(r) /\ UNCHANGED faults
       \/ CommitFails /\ UNCHANGED <<usage, billed>>
    /\ ThenReport(r, "fail")
    /\ UNCHANGED <<table, reviews, request, redis, work, calls, unanswered, crashes, lapses>>

\* mark_succeeded and mark_failed.
EndJob(w, place, final, field) ==
    /\ pc[w] = place
    /\ \/ /\ WriteStatus(work[w], final)
          /\ outcome' = [outcome EXCEPT ![work[w]] = @ \cup {field}]
          /\ UNCHANGED faults
       \/ CommitFails /\ UNCHANGED table
    /\ Goto(w, "ack")
    /\ UNCHANGED <<spend, request, redis, work, calls, unanswered, crashes, lapses>>

\* Fault: the error goes to result.
MarkFailedInResult(w) == EndJob(w, "fail", "failed", "result")

MarkSucceeded(w) == EndJob(w, "succeed", "succeeded", "result")
MarkFailed(w) == EndJob(w, "fail", "failed", "error")

\* The rest of AIReviewService.generate.
StoreReview(t) ==
    /\ pc[t] = "store"
    /\ \/ reviews' = reviews + 1 /\ UNCHANGED faults
       \/ CommitFails /\ UNCHANGED reviews
    /\ Goto(t, "idle")
    /\ UNCHANGED <<table, usage, billed, request, redis, work, calls, unanswered, crashes, lapses>>

-----------------------------------------------------------------------------
\* A worker process dies; its lock goes with time, the message stays in Redis.
WorkerCrash(w) ==
    /\ pc[w] # "idle"
    /\ crashes < MaxCrashes
    /\ crashes' = crashes + 1
    /\ locks' = locks \ {work[w]}
    /\ Goto(w, "idle")
    /\ work' = [work EXCEPT ![w] = Direct]
    /\ UNCHANGED <<table, spend, request, queue, tries, calls, unanswered, lapses, faults>>

\* The API process dies; its requests are never answered.
ApiCrash ==
    /\ crashes < MaxCrashes
    /\ crashes' = crashes + 1
    /\ pc' = [r \in Runners |-> IF r \in Threads THEN "idle" ELSE pc[r]]
    /\ request' = [j \in Jobs |->
                     IF request[j] \in {"created", "excepted"} THEN "lost" ELSE request[j]]
    /\ UNCHANGED <<table, spend, redis, work, calls, unanswered, lapses, faults>>

Init ==
    /\ status = [j \in Jobs |-> "absent"]
    /\ outcome = [j \in Jobs |-> {}]
    /\ usage = [x \in Purposes |-> 0]
    /\ billed = [x \in Purposes |-> 0]
    /\ reviews = 0
    /\ request = [j \in Jobs |-> "none"]
    /\ queue = {}
    /\ locks = {}
    /\ tries = [j \in Jobs |-> 0]
    /\ pc = [r \in Runners |-> "idle"]
    /\ work = [r \in Runners |-> Direct]
    /\ calls = [x \in Purposes |-> 0]
    /\ unanswered = {}
    /\ reversals = [j \in Jobs |-> 0]
    /\ crashes = 0
    /\ lapses = 0
    /\ faults = 0

RunStep(r) ==
    \/ MarkRunning(r)
    \/ CallAnthropic(r)
    \/ RecordUsage(r)
    \/ RecordError(r)
    \/ MarkSucceeded(r)
    \/ MarkFailed(r)
    \/ StoreReview(r)
    \/ Acknowledge(r)

Next ==
    \/ \E j \in Jobs : CreateJob(j) \/ Enqueue(j) \/ RejectJob(j) \/ DropJob(j)
    \/ \E w \in Workers, j \in Jobs : StartJob(w, j)
    \/ \E r \in Runners : RunStep(r)
    \/ \E t \in Threads, x \in {Direct, Review} : AskDirectly(t, x)
    \/ \E w \in Workers : LockExpires(w) \/ WorkerCrash(w)
    \/ ApiCrash

Spec == Init /\ [][Next]_vars

\* Threads are scheduled, calls return or time out, arq polls its queue.
Fairness ==
    /\ \A r \in Runners : WF_vars(RunStep(r))
    /\ \A j \in Jobs : WF_vars(\E w \in Workers : StartJob(w, j))

FairSpec == Spec /\ Fairness

-----------------------------------------------------------------------------
(* Properties.                                                             *)

TypeOK ==
    /\ status \in [Jobs -> {"absent", "queued", "running"} \cup JOB_TERMINAL]
    /\ outcome \in [Jobs -> SUBSET {"result", "error"}]
    /\ usage \in [Purposes -> Nat]
    /\ billed \in [Purposes -> Nat]
    /\ reviews \in Nat
    /\ request \in [Jobs -> {"none", "created", "excepted", "accepted", "rejected", "lost"}]
    /\ queue \in SUBSET Jobs
    /\ locks \in SUBSET Jobs
    /\ tries \in [Jobs -> 0 .. MaxTries]
    /\ pc \in [Runners -> {"idle", "load", "call", "record", "recordError", "succeed",
                           "fail", "store", "ack"}]
    /\ work \in [Runners -> Purposes]
    /\ \A w \in Workers : pc[w] # "idle" => work[w] \in Jobs
    /\ calls \in [Purposes -> Nat]
    /\ unanswered \in SUBSET Jobs
    /\ reversals \in [Jobs -> Nat]
    /\ crashes \in 0 .. MaxCrashes
    /\ lapses \in 0 .. MaxLapses
    /\ faults \in 0 .. MaxFaults

Unsettled(x) == {r \in Runners : work[r] = x /\ pc[r] \in {"record", "recordError"}}

\* The audit trail misses a call only for a crash or a failed commit: calls without an
\* ai_usage row are at most the calls being recorded, those a crash cut off (one of
\* a worker, one of each request thread) and the faults.
MissingUsageIsExplained ==
    MapThenSumSet(LAMBDA x : calls[x] - usage[x] - Cardinality(Unsettled(x)), Purposes)
      <= crashes * Max({1, Cardinality(Threads)}) + faults

\* An ai_usage row is never written without a call.
UsageHasCall ==
    \A x \in Purposes : usage[x] + Cardinality(Unsettled(x)) <= calls[x]

\* What Anthropic wrote is only ever shown with its spend on record: the result of a job
\* has the ai_usage row of an answered call of the job, and no two reviews share one.
ResultIsBilled ==
    /\ \A j \in Jobs : "result" \in outcome[j] => billed[j] > 0
    /\ reviews <= billed[Review]

\* A job is sent to Anthropic a second time only after a crash or an expired lock.
RepeatsAreExplained ==
    \A j \in Jobs : calls[j] <= 1 + crashes + lapses

\* "mark the job failed so the client doesn't poll forever": what a client reads of a job
\* that has ended is taken back at most once for each crash and each expired lock, and
\* once more if Redis took the job and the reply was lost: the row is then marked failed
\* by the request, and the job runs all the same.
EndedJobsStay ==
    \A j \in Jobs :
        reversals[j] <= crashes + lapses + (IF j \in unanswered THEN 1 ELSE 0)

\* A client that was given a job id can stop polling some day: an accepted job is
\* terminal from some moment on.
AcceptedJobsEnd ==
    \A j \in Jobs : <>[](request[j] = "accepted" => status[j] \in JOB_TERMINAL)

Lifecycle == INSTANCE JobLifecycle

\* With honest enqueue errors and one run of a job at a time, a job goes through the
\* promised life.
ImplementsLifecycle == Lifecycle!Spec
=============================================================================
