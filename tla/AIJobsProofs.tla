---------------------------- MODULE AIJobsProofs ----------------------------
(***************************************************************************)
(* Theorems about AIJobs, for every set of jobs, workers and threads and   *)
(* every number of crashes, expired locks and failed commits.              *)
(***************************************************************************)
EXTENDS AIJobs, Sums

LEMMA RunnersFinite ==
    ASSUME NEW S \in SUBSET Runners
    PROVE  IsFiniteSet(S) /\ Cardinality(S) \in Nat
  BY JobsAssumption, FS_Union, FS_Subset, FS_CardinalityType DEF Runners

-----------------------------------------------------------------------------
(* Type correctness.                                                       *)

\* Every variable keeps its shape, and a busy worker has a job.
THEOREM TypeCorrect == Spec => []TypeOK
<1>. USE JobsAssumption DEF TypeOK, Runners, Purposes, JOB_TERMINAL
<1>1. Init => TypeOK
  BY DEF Init
<1>2. TypeOK /\ [Next]_vars => TypeOK'
  <2> SUFFICES ASSUME TypeOK, [Next]_vars
               PROVE  TypeOK'
    OBVIOUS
  <2>. USE DEF redis, table, spend, bounds, Goto, CommitFails, WriteStatus
  <2>1. ASSUME NEW j \in Jobs, CreateJob(j) PROVE TypeOK'
    BY <2>1 DEF CreateJob
  <2>2. ASSUME NEW j \in Jobs, Enqueue(j) PROVE TypeOK'
    BY <2>2 DEF Enqueue
  <2>3. ASSUME NEW j \in Jobs, RejectJob(j) PROVE TypeOK'
    BY <2>3 DEF RejectJob
  <2>4. ASSUME NEW j \in Jobs, DropJob(j) PROVE TypeOK'
    BY <2>4 DEF DropJob
  <2>5. ASSUME NEW w \in Workers, NEW j \in Jobs, StartJob(w, j) PROVE TypeOK'
    BY <2>5 DEF StartJob
  <2>6. ASSUME NEW r \in Runners, MarkRunning(r) PROVE TypeOK'
    BY <2>6 DEF MarkRunning
  <2>7. ASSUME NEW r \in Runners, CallAnthropic(r) PROVE TypeOK'
    BY <2>7 DEF CallAnthropic
  <2>8. ASSUME NEW r \in Runners, RecordUsage(r) PROVE TypeOK'
    BY <2>8 DEF RecordUsage, InsertUsage, ThenUse, ThenReport
  <2>9. ASSUME NEW r \in Runners, RecordError(r) PROVE TypeOK'
    BY <2>9 DEF RecordError, InsertUsage, ThenReport
  <2>10. ASSUME NEW r \in Runners, MarkSucceeded(r) PROVE TypeOK'
    BY <2>10 DEF MarkSucceeded, EndJob
  <2>11. ASSUME NEW r \in Runners, MarkFailed(r) PROVE TypeOK'
    BY <2>11 DEF MarkFailed, EndJob
  <2>12. ASSUME NEW r \in Runners, Acknowledge(r) PROVE TypeOK'
    BY <2>12 DEF Acknowledge
  <2>13. ASSUME NEW t \in Threads, NEW x \in {Direct, Review}, AskDirectly(t, x)
         PROVE  TypeOK'
    BY <2>13 DEF AskDirectly
  <2>14. ASSUME NEW w \in Workers, LockExpires(w) PROVE TypeOK'
    BY <2>14 DEF LockExpires
  <2>15. ASSUME NEW w \in Workers, WorkerCrash(w) PROVE TypeOK'
    BY <2>15 DEF WorkerCrash
  <2>16. ASSUME ApiCrash PROVE TypeOK'
    BY <2>16 DEF ApiCrash
  <2>17. CASE UNCHANGED vars
    BY <2>17 DEF vars
  <2>18. ASSUME NEW r \in Runners, StoreReview(r) PROVE TypeOK'
    BY <2>18 DEF StoreReview
  <2>. QED
    BY <2>1, <2>2, <2>3, <2>4, <2>5, <2>6, <2>7, <2>8, <2>9, <2>10, <2>11, <2>12,
       <2>13, <2>14, <2>15, <2>16, <2>17, <2>18 DEF Next, RunStep
<1>. QED
  BY <1>1, <1>2, PTL DEF Spec

-----------------------------------------------------------------------------
(* The ledger: calls, their ai_usage rows, and the results shown.          *)

\* Why a result has its spend on record: a worker that is about to store a result
\* has written the usage row of its call, which was answered.
SucceedIsBilled ==
    \A w \in Runners : pc[w] = "succeed" => billed[work[w]] > 0

JobsAreBilled == \A j \in Jobs : "result" \in outcome[j] => billed[j] > 0

\* A thread that is about to store a review has written the usage row of its call.
Storing == {r \in Runners : pc[r] = "store"}
ReviewsAreBilled == reviews + Cardinality(Storing) <= billed[Review]

LedgerInv == UsageHasCall /\ SucceedIsBilled /\ JobsAreBilled /\ ReviewsAreBilled

LEMMA LedgerInit == Init => LedgerInv
<1>1. ASSUME Init, NEW x \in Purposes PROVE Unsettled(x) = {}
  BY <1>1 DEF Init, Unsettled
<1>2. ASSUME Init PROVE UsageHasCall /\ SucceedIsBilled /\ JobsAreBilled
  BY <1>1, <1>2, FS_EmptySet DEF Init, UsageHasCall, SucceedIsBilled, JobsAreBilled, Purposes
<1>3. ASSUME Init PROVE ReviewsAreBilled
  <2>1. Storing = {}
    BY <1>3 DEF Init, Storing
  <2>2. Cardinality(Storing) = 0
    BY <2>1, FS_EmptySet
  <2>3. reviews = 0 /\ billed[Review] = 0
    BY <1>3 DEF Init, Purposes
  <2>. QED
    BY <2>2, <2>3 DEF ReviewsAreBilled
<1>. QED
  BY <1>2, <1>3 DEF LedgerInv

\* A step that adds neither calls nor usage rows nor unsettled calls.
LEMMA UsageUntouched ==
    ASSUME TypeOK, UsageHasCall, UNCHANGED <<usage, calls>>,
           \A x \in Purposes : Unsettled(x)' \subseteq Unsettled(x)
    PROVE  UsageHasCall'
<1>1. ASSUME NEW x \in Purposes
      PROVE  Cardinality(Unsettled(x)') <= Cardinality(Unsettled(x))
  BY RunnersFinite, FS_Subset DEF Unsettled
<1>2. ASSUME NEW x \in Purposes
      PROVE  /\ Cardinality(Unsettled(x)) \in Nat
             /\ Cardinality(Unsettled(x)') \in Nat
  BY RunnersFinite DEF Unsettled
<1>. QED
  BY <1>1, <1>2 DEF UsageHasCall, TypeOK

\* CallAnthropic leaves one call more to record.
LEMMA CallUsage ==
    ASSUME TypeOK, UsageHasCall, NEW r \in Runners, CallAnthropic(r)
    PROVE  UsageHasCall'
<1> SUFFICES ASSUME NEW x \in Purposes
             PROVE  usage'[x] + Cardinality(Unsettled(x)') <= calls'[x]
  BY DEF UsageHasCall
<1>1. /\ IsFiniteSet(Unsettled(x))
      /\ Cardinality(Unsettled(x)) \in Nat
      /\ Cardinality(Unsettled(x)') \in Nat
  BY RunnersFinite DEF Unsettled
<1>2. usage[x] + Cardinality(Unsettled(x)) <= calls[x]
  BY DEF UsageHasCall
<1>3. CASE work[r] = x
  <2>1. Unsettled(x)' = Unsettled(x) \cup {r}
    BY <1>3 DEF CallAnthropic, Goto, Unsettled, TypeOK
  <2>2. Cardinality(Unsettled(x)') <= Cardinality(Unsettled(x)) + 1
    BY <1>1, <2>1, FS_AddElement
  <2>3. usage'[x] = usage[x] /\ calls'[x] = calls[x] + 1
    BY <1>3 DEF CallAnthropic, spend, TypeOK
  <2>. QED
    BY <1>1, <1>2, <2>2, <2>3 DEF TypeOK
<1>4. CASE work[r] # x
  <2>1. Unsettled(x)' = Unsettled(x)
    BY <1>4 DEF CallAnthropic, Goto, Unsettled, TypeOK
  <2>2. usage'[x] = usage[x] /\ calls'[x] = calls[x]
    BY <1>4 DEF CallAnthropic, spend, TypeOK
  <2>. QED
    BY <1>2, <2>1, <2>2
<1>. QED
  BY <1>3, <1>4

\* Recording a call settles it, with a row or without.
LEMMA RecordingUsage ==
    ASSUME TypeOK, UsageHasCall, NEW r \in Runners,
           pc[r] \in {"record", "recordError"},
           InsertUsage(r) \/ UNCHANGED usage,
           UNCHANGED <<work, calls>>,
           NEW place \in {"idle", "succeed", "fail", "store", "ack"}, Goto(r, place)
    PROVE  UsageHasCall'
<1> SUFFICES ASSUME NEW x \in Purposes
             PROVE  usage'[x] + Cardinality(Unsettled(x)') <= calls'[x]
  BY DEF UsageHasCall
<1>1. /\ IsFiniteSet(Unsettled(x))
      /\ Cardinality(Unsettled(x)) \in Nat
      /\ Cardinality(Unsettled(x)') \in Nat
  BY RunnersFinite DEF Unsettled
<1>2. usage[x] + Cardinality(Unsettled(x)) <= calls[x]
  BY DEF UsageHasCall
<1>3. Unsettled(x)' = Unsettled(x) \ {r}
  BY DEF Goto, Unsettled, TypeOK
<1>4. CASE work[r] = x
  <2>1. r \in Unsettled(x)
    BY <1>4 DEF Unsettled
  <2>2. Cardinality(Unsettled(x)') = Cardinality(Unsettled(x)) - 1
    BY <1>1, <1>3, <2>1, FS_RemoveElement
  <2>3. usage'[x] \in {usage[x], usage[x] + 1} /\ usage[x] \in Nat
    BY <1>4 DEF InsertUsage, TypeOK
  <2>. QED
    BY <1>1, <1>2, <2>2, <2>3 DEF TypeOK
<1>5. CASE work[r] # x
  <2>1. Unsettled(x)' = Unsettled(x)
    BY <1>3, <1>5 DEF Unsettled
  <2>2. usage'[x] = usage[x]
    BY <1>5 DEF InsertUsage, TypeOK
  <2>. QED
    BY <1>2, <2>1, <2>2
<1>. QED
  BY <1>4, <1>5

\* The part of the ledger that looks at the rows and not at their number is disturbed
\* by no step that keeps the usage rows and the results, and moves nobody to succeed.
LEMMA BilledUntouched ==
    ASSUME TypeOK, SucceedIsBilled, JobsAreBilled, UNCHANGED billed,
           \A w \in Runners : pc'[w] = "succeed" => pc[w] = "succeed" /\ work'[w] = work[w],
           \A j \in Jobs : "result" \in outcome'[j] => "result" \in outcome[j]
    PROVE  SucceedIsBilled' /\ JobsAreBilled'
  BY DEF SucceedIsBilled, JobsAreBilled

LEMMA RecordedIsBilled ==
    ASSUME TypeOK, SucceedIsBilled, JobsAreBilled, NEW r \in Runners,
           UNCHANGED <<work, outcome>>,
           \/ RecordUsage(r)
           \/ RecordError(r)
    PROVE  SucceedIsBilled' /\ JobsAreBilled'
<1>1. \A x \in Purposes : billed'[x] >= billed[x]
  BY DEF RecordUsage, RecordError, InsertUsage, TypeOK
<1>2. pc'[r] = "succeed" => billed'[work[r]] > 0
  BY DEF RecordUsage, RecordError, InsertUsage, ThenUse, ThenReport, Goto, TypeOK
<1>3. \A q \in Runners \ {r} : pc'[q] = pc[q]
  BY DEF RecordUsage, RecordError, ThenUse, ThenReport, Goto, TypeOK
<1>4. /\ billed \in [Purposes -> Nat] /\ billed' \in [Purposes -> Nat]
      /\ work \in [Runners -> Purposes]
  BY DEF RecordUsage, RecordError, InsertUsage, TypeOK
<1>. QED
  BY <1>1, <1>2, <1>3, <1>4 DEF SucceedIsBilled, JobsAreBilled, Purposes

\* A step in which nobody comes to store a review, and none is stored.
LEMMA ReviewsUntouched ==
    ASSUME TypeOK, TypeOK', ReviewsAreBilled, UNCHANGED reviews,
           billed'[Review] >= billed[Review], Storing' \subseteq Storing
    PROVE  ReviewsAreBilled'
<1>1. /\ Cardinality(Storing') <= Cardinality(Storing)
      /\ Cardinality(Storing) \in Nat /\ Cardinality(Storing') \in Nat
  BY RunnersFinite, FS_Subset DEF Storing
<1>2. /\ reviews \in Nat /\ billed[Review] \in Nat
      /\ billed'[Review] \in Nat
  BY DEF TypeOK, Purposes
<1>. QED
  BY <1>1, <1>2 DEF ReviewsAreBilled

\* A thread comes to store a review by writing a usage row of reviews, and stores one.
LEMMA ReviewsStep ==
    ASSUME TypeOK, TypeOK', ReviewsAreBilled, [Next]_vars
    PROVE  ReviewsAreBilled'
<1>. USE DEF redis, table, spend, bounds
<1>1. /\ IsFiniteSet(Storing)
      /\ Cardinality(Storing) \in Nat /\ Cardinality(Storing') \in Nat
  BY RunnersFinite DEF Storing
<1>2. /\ reviews \in Nat /\ billed[Review] \in Nat
      /\ billed'[Review] \in Nat
  BY DEF TypeOK, Purposes
<1>3. ASSUME NEW r \in Runners, RecordUsage(r) PROVE ReviewsAreBilled'
  <2>1. CASE UNCHANGED billed
    <3>1. Storing' \subseteq Storing
      BY <1>3, <2>1 DEF RecordUsage, InsertUsage, ThenReport, Goto, Storing, TypeOK
    <3>. QED
      BY <1>2, <1>3, <2>1, <3>1, ReviewsUntouched DEF RecordUsage
  <2>2. CASE InsertUsage(r) /\ ThenUse(r)
    <3>1. CASE r \in Threads /\ work[r] = Review
      <4>1. Storing' = Storing \cup {r} /\ r \notin Storing
        BY <1>3, <2>2, <3>1 DEF RecordUsage, ThenUse, Goto, Storing, TypeOK
      <4>2. Cardinality(Storing') = Cardinality(Storing) + 1
        BY <1>1, <4>1, FS_AddElement
      <4>3. billed'[Review] = billed[Review] + 1 /\ reviews' = reviews
        BY <1>3, <2>2, <3>1 DEF RecordUsage, InsertUsage, TypeOK, Purposes
      <4>. QED
        BY <1>1, <1>2, <4>2, <4>3 DEF ReviewsAreBilled
    <3>2. CASE ~(r \in Threads /\ work[r] = Review)
      <4>1. Storing' \subseteq Storing
        BY <2>2, <3>2 DEF ThenUse, ThenReport, Goto, Storing, TypeOK
      <4>2. billed'[Review] >= billed[Review]
        BY <1>2, <2>2 DEF InsertUsage, TypeOK, Purposes
      <4>. QED
        BY <1>3, <4>1, <4>2, ReviewsUntouched DEF RecordUsage
    <3>. QED
      BY <3>1, <3>2
  <2>. QED
    BY <1>3, <2>1, <2>2 DEF RecordUsage
<1>4. ASSUME NEW r \in Runners, RecordError(r) PROVE ReviewsAreBilled'
  <2>1. Storing' \subseteq Storing
    BY <1>4 DEF RecordError, ThenReport, Goto, Storing, TypeOK
  <2>2. billed'[Review] >= billed[Review]
    BY <1>2, <1>4 DEF RecordError, InsertUsage, TypeOK, Purposes
  <2>. QED
    BY <1>4, <2>1, <2>2, ReviewsUntouched DEF RecordError
<1>5. ASSUME NEW r \in Runners, StoreReview(r) PROVE ReviewsAreBilled'
  <2>1. Storing' = Storing \ {r} /\ r \in Storing
    BY <1>5 DEF StoreReview, Goto, Storing, TypeOK
  <2>2. Cardinality(Storing') = Cardinality(Storing) - 1
    BY <1>1, <2>1, FS_RemoveElement
  <2>3. billed' = billed /\ reviews' \in {reviews, reviews + 1}
    BY <1>5 DEF StoreReview
  <2>. QED
    BY <1>1, <1>2, <2>2, <2>3 DEF ReviewsAreBilled
<1>6. ASSUME UNCHANGED <<billed, reviews>>,
             \A r \in Runners : pc'[r] = "store" => pc[r] = "store"
      PROVE  ReviewsAreBilled'
  BY <1>2, <1>6, ReviewsUntouched DEF Storing
<1>7. ASSUME NEW j \in Jobs, CreateJob(j) \/ Enqueue(j) \/ RejectJob(j) \/ DropJob(j)
      PROVE  ReviewsAreBilled'
  BY <1>6, <1>7 DEF CreateJob, Enqueue, RejectJob, DropJob
<1>8. ASSUME NEW w \in Workers, NEW j \in Jobs, StartJob(w, j) PROVE ReviewsAreBilled'
  BY <1>6, <1>8 DEF StartJob, Goto, TypeOK
<1>9. ASSUME NEW r \in Runners, MarkRunning(r) \/ CallAnthropic(r) \/ Acknowledge(r)
      PROVE  ReviewsAreBilled'
  BY <1>6, <1>9 DEF MarkRunning, CallAnthropic, Acknowledge, Goto, TypeOK
<1>10. ASSUME NEW r \in Runners, MarkSucceeded(r) \/ MarkFailed(r) PROVE ReviewsAreBilled'
  BY <1>6, <1>10 DEF MarkSucceeded, MarkFailed, EndJob, Goto, TypeOK
<1>11. ASSUME NEW t \in Threads, NEW x \in {Direct, Review}, AskDirectly(t, x)
       PROVE  ReviewsAreBilled'
  BY <1>6, <1>11 DEF AskDirectly, Goto, TypeOK
<1>12. ASSUME NEW w \in Workers, LockExpires(w) \/ WorkerCrash(w) PROVE ReviewsAreBilled'
  BY <1>6, <1>12 DEF LockExpires, WorkerCrash, Goto, TypeOK
<1>13. CASE ApiCrash
  BY <1>6, <1>13 DEF ApiCrash
<1>14. CASE UNCHANGED vars
  BY <1>6, <1>14 DEF vars
<1>. QED
  BY <1>3, <1>4, <1>5, <1>7, <1>8, <1>9, <1>10, <1>11, <1>12, <1>13, <1>14
  DEF Next, RunStep

\* No ai_usage row without a call, no result and no review without an ai_usage row.
THEOREM LedgerIsSound == Spec => [](UsageHasCall /\ ResultIsBilled)
<1>1. TypeOK /\ LedgerInv /\ [Next]_vars => (UsageHasCall /\ SucceedIsBilled /\ JobsAreBilled)'
  <2> SUFFICES ASSUME TypeOK, UsageHasCall, SucceedIsBilled, JobsAreBilled, [Next]_vars
               PROVE  UsageHasCall' /\ SucceedIsBilled' /\ JobsAreBilled'
    BY DEF LedgerInv
  <2>. USE DEF redis, table, spend, bounds, Runners, Purposes
  <2>1. ASSUME NEW j \in Jobs, CreateJob(j) \/ Enqueue(j) \/ DropJob(j)
        PROVE  UsageHasCall' /\ SucceedIsBilled' /\ JobsAreBilled'
    <3>1. UNCHANGED <<usage, billed, calls, pc, work, outcome>>
      BY <2>1 DEF CreateJob, Enqueue, DropJob
    <3>. QED
      BY <3>1, UsageUntouched, BilledUntouched DEF Unsettled
  <2>2. ASSUME NEW j \in Jobs, RejectJob(j)
        PROVE  UsageHasCall' /\ SucceedIsBilled' /\ JobsAreBilled'
    <3>1. UNCHANGED <<usage, billed, calls, pc, work>>
      BY <2>2 DEF RejectJob
    <3>2. \A i \in Jobs : "result" \in outcome'[i] => "result" \in outcome[i]
      BY <2>2 DEF RejectJob, TypeOK, table
    <3>. QED
      BY <3>1, <3>2, UsageUntouched, BilledUntouched DEF Unsettled
  <2>3. ASSUME NEW w \in Workers, NEW j \in Jobs, StartJob(w, j)
        PROVE  UsageHasCall' /\ SucceedIsBilled' /\ JobsAreBilled'
    <3>1. UNCHANGED <<usage, billed, calls, outcome>>
      BY <2>3 DEF StartJob
    <3>2. \A r \in Runners : pc'[r] = (IF r = w THEN "load" ELSE pc[r])
      BY <2>3 DEF StartJob, Goto, TypeOK
    <3>3. \A r \in Runners : r # w => work'[r] = work[r]
      BY <2>3 DEF StartJob, TypeOK
    <3>. QED
      BY <3>1, <3>2, <3>3, UsageUntouched, BilledUntouched DEF Unsettled
  <2>4. ASSUME NEW r \in Runners, MarkRunning(r)
        PROVE  UsageHasCall' /\ SucceedIsBilled' /\ JobsAreBilled'
    <3>1. UNCHANGED <<usage, billed, calls, outcome, work>>
      BY <2>4 DEF MarkRunning
    <3>2. \A q \in Runners : pc'[q] = pc[q] \/ pc'[q] \in {"call", "ack"}
      BY <2>4 DEF MarkRunning, Goto, TypeOK
    <3>. QED
      BY <3>1, <3>2, UsageUntouched, BilledUntouched DEF Unsettled
  <2>5. ASSUME NEW r \in Runners, CallAnthropic(r)
        PROVE  UsageHasCall' /\ SucceedIsBilled' /\ JobsAreBilled'
    <3>1. UNCHANGED <<usage, billed, outcome, work>>
      BY <2>5 DEF CallAnthropic
    <3>2. \A q \in Runners : pc'[q] = pc[q] \/ pc'[q] \in {"record", "recordError"}
      BY <2>5 DEF CallAnthropic, Goto, TypeOK
    <3>. QED
      BY <2>5, <3>1, <3>2, CallUsage, BilledUntouched
  <2>6. ASSUME NEW r \in Runners, RecordUsage(r) \/ RecordError(r)
        PROVE  UsageHasCall' /\ SucceedIsBilled' /\ JobsAreBilled'
    <3>1. UNCHANGED <<outcome, work, calls>>
      BY <2>6 DEF RecordUsage, RecordError
    <3>2. /\ pc[r] \in {"record", "recordError"}
          /\ InsertUsage(r) \/ UNCHANGED usage
          /\ \E place \in {"idle", "succeed", "fail", "store", "ack"} : Goto(r, place)
      BY <2>6 DEF RecordUsage, RecordError, ThenUse, ThenReport
    <3>. QED
      BY <2>6, <3>1, <3>2, RecordingUsage, RecordedIsBilled
  <2>7. ASSUME NEW r \in Runners, MarkSucceeded(r) \/ MarkFailed(r)
        PROVE  UsageHasCall' /\ SucceedIsBilled' /\ JobsAreBilled'
    <3>1. UNCHANGED <<usage, billed, calls, work>>
      BY <2>7 DEF MarkSucceeded, MarkFailed, EndJob
    <3>2. \A q \in Runners : pc'[q] = pc[q] \/ pc'[q] = "ack"
      BY <2>7 DEF MarkSucceeded, MarkFailed, EndJob, Goto, TypeOK
    <3>3. ASSUME NEW j \in Jobs, "result" \in outcome'[j]
          PROVE  \/ "result" \in outcome[j]
                 \/ pc[r] = "succeed" /\ work[r] = j
      BY <2>7, <3>3 DEF MarkSucceeded, MarkFailed, EndJob, TypeOK
    <3>4. JobsAreBilled'
      BY <3>1, <3>3 DEF JobsAreBilled, SucceedIsBilled
    <3>5. SucceedIsBilled'
      BY <3>1, <3>2 DEF SucceedIsBilled
    <3>. QED
      BY <3>1, <3>2, <3>4, <3>5, UsageUntouched DEF Unsettled
  <2>8. ASSUME NEW r \in Runners, Acknowledge(r) \/ WorkerCrash(r)
        PROVE  UsageHasCall' /\ SucceedIsBilled' /\ JobsAreBilled'
    <3>1. UNCHANGED <<usage, billed, calls, outcome>>
      BY <2>8 DEF Acknowledge, WorkerCrash
    <3>2. \A q \in Runners : pc'[q] = (IF q = r THEN "idle" ELSE pc[q])
      BY <2>8 DEF Acknowledge, WorkerCrash, Goto, TypeOK
    <3>3. \A q \in Runners : q # r => work'[q] = work[q]
      BY <2>8 DEF Acknowledge, WorkerCrash, TypeOK
    <3>. QED
      BY <3>1, <3>2, <3>3, UsageUntouched, BilledUntouched DEF Unsettled
  <2>9. ASSUME NEW t \in Threads, NEW x \in {Direct, Review}, AskDirectly(t, x)
        PROVE  UsageHasCall' /\ SucceedIsBilled' /\ JobsAreBilled'
    <3>1. UNCHANGED <<usage, billed, calls, outcome>>
      BY <2>9 DEF AskDirectly
    <3>2. \A q \in Runners : pc'[q] = (IF q = t THEN "call" ELSE pc[q])
      BY <2>9 DEF AskDirectly, Goto, TypeOK
    <3>3. \A q \in Runners : q # t => work'[q] = work[q]
      BY <2>9 DEF AskDirectly, TypeOK
    <3>. QED
      BY <3>1, <3>2, <3>3, UsageUntouched, BilledUntouched DEF Unsettled
  <2>10. ASSUME NEW w \in Workers, LockExpires(w)
         PROVE  UsageHasCall' /\ SucceedIsBilled' /\ JobsAreBilled'
    <3>1. UNCHANGED <<usage, billed, calls, pc, work, outcome>>
      BY <2>10 DEF LockExpires
    <3>. QED
      BY <3>1, UsageUntouched, BilledUntouched DEF Unsettled
  <2>11. ASSUME ApiCrash
         PROVE  UsageHasCall' /\ SucceedIsBilled' /\ JobsAreBilled'
    <3>1. UNCHANGED <<usage, billed, calls, outcome, work>>
      BY <2>11 DEF ApiCrash
    <3>2. \A q \in Runners : pc'[q] = pc[q] \/ pc'[q] = "idle"
      BY <2>11 DEF ApiCrash
    <3>. QED
      BY <3>1, <3>2, UsageUntouched, BilledUntouched DEF Unsettled
  <2>12. ASSUME UNCHANGED vars
         PROVE  UsageHasCall' /\ SucceedIsBilled' /\ JobsAreBilled'
    BY <2>12, UsageUntouched, BilledUntouched DEF vars, Unsettled
  <2>13. ASSUME NEW t \in Runners, StoreReview(t)
         PROVE  UsageHasCall' /\ SucceedIsBilled' /\ JobsAreBilled'
    <3>1. UNCHANGED <<usage, billed, calls, outcome, work>>
      BY <2>13 DEF StoreReview
    <3>2. \A q \in Runners : pc'[q] = pc[q] \/ pc'[q] = "idle"
      BY <2>13 DEF StoreReview, Goto, TypeOK
    <3>. QED
      BY <3>1, <3>2, UsageUntouched, BilledUntouched DEF Unsettled
  <2>. QED
    BY <2>1, <2>2, <2>3, <2>4, <2>5, <2>6, <2>7, <2>8, <2>9, <2>10, <2>11, <2>12, <2>13
    DEF Next, RunStep
<1>2. TypeOK /\ TypeOK' /\ LedgerInv /\ [Next]_vars => LedgerInv'
  BY <1>1, ReviewsStep DEF LedgerInv
<1>3. TypeOK /\ LedgerInv => UsageHasCall /\ ResultIsBilled
  <2> SUFFICES ASSUME TypeOK, LedgerInv PROVE ResultIsBilled
    BY DEF LedgerInv
  <2>1. Cardinality(Storing) \in Nat
    BY RunnersFinite DEF Storing
  <2>2. reviews \in Nat /\ billed[Review] \in Nat
    BY DEF TypeOK, Purposes
  <2>. QED
    BY <2>1, <2>2 DEF LedgerInv, ReviewsAreBilled, JobsAreBilled, ResultIsBilled
<1>. QED
  BY LedgerInit, TypeCorrect, <1>2, <1>3, PTL DEF Spec

-----------------------------------------------------------------------------
(* How often a job is sent to Anthropic.                                   *)

\* The calls of a job still to come without another crash or lapse: one by each worker
\* that runs the job and has not called yet, and one if a worker may start it.
Startable(j) == request[j] \in {"none", "created"} \/ j \in queue \ locks
BeforeCall(j) == {w \in Workers : work[w] = j /\ pc[w] \in {"load", "call"}}
ToCome(j) == Cardinality(BeforeCall(j)) + IF Startable(j) THEN 1 ELSE 0

Allowance == 1 + crashes + lapses

\* A lock lets one worker at a time through, and is given up early only by a crash or
\* a lapse; a message is not there before it was sent.
RepeatsInv ==
    /\ \A j \in Jobs : calls[j] + ToCome(j) <= Allowance
    /\ \A j \in queue : request[j] \notin {"none", "created"}

LEMMA BeforeCallFinite ==
    ASSUME NEW j \in Jobs
    PROVE  /\ IsFiniteSet(BeforeCall(j)) /\ Cardinality(BeforeCall(j)) \in Nat
           /\ IsFiniteSet(BeforeCall(j)') /\ Cardinality(BeforeCall(j)') \in Nat
  BY RunnersFinite DEF BeforeCall, Runners

\* A step that brings nobody before a call, and lets a job be started anew only at
\* the expense of the allowance.
LEMMA NoNewCall ==
    ASSUME TypeOK, RepeatsInv, UNCHANGED calls, NEW j \in Jobs,
           BeforeCall(j)' \subseteq BeforeCall(j),
           Allowance' \in Nat,
           \/ Allowance' = Allowance /\ (Startable(j)' => Startable(j))
           \/ Allowance' = Allowance + 1
    PROVE  calls'[j] + ToCome(j)' <= Allowance'
<1>1. Cardinality(BeforeCall(j)') <= Cardinality(BeforeCall(j))
  BY BeforeCallFinite, FS_Subset
<1>2. calls[j] + ToCome(j) <= Allowance /\ calls[j] \in Nat /\ Allowance \in Nat
  BY JobsAssumption DEF RepeatsInv, TypeOK, Purposes, Allowance
<1>. QED
  BY <1>1, <1>2, BeforeCallFinite DEF ToCome

\* What StartJob takes from the queue it brings before a call.
LEMMA StartedCall ==
    ASSUME TypeOK, RepeatsInv, NEW w \in Workers, NEW i \in Jobs, StartJob(w, i),
           NEW j \in Jobs
    PROVE  calls'[j] + ToCome(j)' <= Allowance'
<1>1. calls[j] + ToCome(j) <= Allowance /\ calls[j] \in Nat /\ Allowance \in Nat
  BY JobsAssumption DEF RepeatsInv, TypeOK, Purposes, Allowance
<1>2. calls' = calls /\ Allowance' = Allowance
  BY DEF StartJob, bounds, Allowance
<1>3. CASE i = j
  <2>1. BeforeCall(j)' = BeforeCall(j) \cup {w}
    BY <1>3 DEF StartJob, Goto, BeforeCall, TypeOK, Runners
  <2>2. Cardinality(BeforeCall(j)') <= Cardinality(BeforeCall(j)) + 1
    <3>1. IsFiniteSet(BeforeCall(j)) /\ Cardinality(BeforeCall(j)) \in Nat
      BY BeforeCallFinite
    <3>2. w \notin BeforeCall(j)
      BY DEF StartJob, BeforeCall
    <3>3. Cardinality(BeforeCall(j) \cup {w}) = Cardinality(BeforeCall(j)) + 1
      BY <3>1, <3>2, FS_AddElement
    <3>. QED
      BY <2>1, <3>1, <3>3
  <2>3. Startable(j) /\ ~Startable(j)'
    BY <1>3 DEF StartJob, Startable, RepeatsInv
  <2>. QED
    BY <1>1, <1>2, <2>2, <2>3, BeforeCallFinite DEF ToCome
<1>4. CASE i # j
  <2>1. BeforeCall(j)' = BeforeCall(j)
    BY <1>4 DEF StartJob, Goto, BeforeCall, TypeOK, Runners
  <2>2. Startable(j)' = Startable(j)
    BY <1>4 DEF StartJob, Startable
  <2>. QED
    BY <1>1, <1>2, <2>1, <2>2 DEF ToCome
<1>. QED
  BY <1>3, <1>4

\* A call is made by a worker that stood before it.
LEMMA MadeCall ==
    ASSUME TypeOK, RepeatsInv, NEW r \in Runners, CallAnthropic(r),
           \A t \in Threads : work[t] \in {Direct, Review},
           NEW j \in Jobs
    PROVE  calls'[j] + ToCome(j)' <= Allowance'
<1>1. calls[j] + ToCome(j) <= Allowance /\ calls[j] \in Nat /\ Allowance \in Nat
  BY JobsAssumption DEF RepeatsInv, TypeOK, Purposes, Allowance
<1>2. Startable(j)' = Startable(j) /\ Allowance' = Allowance
  BY DEF CallAnthropic, redis, bounds, Startable, Allowance
<1>3. BeforeCall(j)' = BeforeCall(j) \ {r}
  BY DEF CallAnthropic, Goto, BeforeCall, TypeOK, Runners
<1>4. CASE work[r] = j
  <2>1. r \in BeforeCall(j)
    BY <1>4, JobsAssumption DEF CallAnthropic, BeforeCall, Runners
  <2>2. Cardinality(BeforeCall(j)') = Cardinality(BeforeCall(j)) - 1
    BY <1>3, <2>1, BeforeCallFinite, FS_RemoveElement
  <2>3. calls'[j] = calls[j] + 1
    BY <1>4 DEF CallAnthropic, spend, TypeOK
  <2>. QED
    BY <1>1, <1>2, <2>2, <2>3, BeforeCallFinite DEF ToCome
<1>5. CASE work[r] # j
  <2>1. BeforeCall(j)' = BeforeCall(j)
    BY <1>3, <1>5 DEF BeforeCall
  <2>2. calls'[j] = calls[j]
    BY <1>5 DEF CallAnthropic, TypeOK, Purposes
  <2>. QED
    BY <1>1, <1>2, <2>1, <2>2 DEF ToCome
<1>. QED
  BY <1>4, <1>5

\* Enqueue, crash and acknowledgement: which jobs may be started after a step.
LEMMA StartableAfter ==
    ASSUME TypeOK, RepeatsInv, [Next]_vars, NEW j \in Jobs,
           Startable(j)', ~Startable(j)
    PROVE  \E w \in Workers : LockExpires(w) \/ WorkerCrash(w)
<1>. USE JobsAssumption DEF Startable, redis, spend, bounds
<1>1. ASSUME NEW i \in Jobs, CreateJob(i) \/ Enqueue(i) \/ RejectJob(i) \/ DropJob(i)
      PROVE  FALSE
  BY <1>1 DEF CreateJob, Enqueue, RejectJob, DropJob, TypeOK
<1>2. ASSUME NEW w \in Workers, NEW i \in Jobs, StartJob(w, i) PROVE FALSE
  BY <1>2 DEF StartJob
<1>3. ASSUME NEW r \in Runners, RunStep(r) PROVE FALSE
  BY <1>3 DEF RunStep, MarkRunning, CallAnthropic, RecordUsage, RecordError,
              MarkSucceeded, MarkFailed, EndJob, StoreReview, Acknowledge
<1>4. ASSUME NEW t \in Threads, NEW x \in {Direct, Review}, AskDirectly(t, x) PROVE FALSE
  BY <1>4 DEF AskDirectly
<1>5. ASSUME ApiCrash PROVE FALSE
  BY <1>5 DEF ApiCrash
<1>6. CASE UNCHANGED vars
  BY <1>6 DEF vars
<1>. QED
  BY <1>1, <1>2, <1>3, <1>4, <1>5, <1>6 DEF Next

LEMMA QueuedWasSent ==
    ASSUME TypeOK, RepeatsInv, [Next]_vars
    PROVE  \A j \in queue' : request'[j] \notin {"none", "created"}
<1>. USE DEF redis, spend, bounds, table
<1>1. \A j \in queue : j \in Jobs /\ request[j] \notin {"none", "created"}
  BY DEF RepeatsInv, TypeOK
<1>2. ASSUME NEW i \in Jobs, CreateJob(i) \/ Enqueue(i) \/ RejectJob(i) \/ DropJob(i)
      PROVE  \A j \in queue' : request'[j] \notin {"none", "created"}
  BY <1>1, <1>2 DEF CreateJob, Enqueue, RejectJob, DropJob, TypeOK
<1>3. CASE ApiCrash
  BY <1>1, <1>3 DEF ApiCrash
<1>4. ASSUME NEW r \in Runners, RunStep(r)
      PROVE  queue' \subseteq queue /\ request' = request
  BY <1>4 DEF RunStep, MarkRunning, CallAnthropic, RecordUsage, RecordError,
              MarkSucceeded, MarkFailed, EndJob, StoreReview, Acknowledge
<1>5. ASSUME NEW w \in Workers, NEW j \in Jobs, StartJob(w, j)
      PROVE  queue' \subseteq queue /\ request' = request
  BY <1>5 DEF StartJob
<1>6. ASSUME NEW w \in Workers, LockExpires(w) \/ WorkerCrash(w)
      PROVE  queue' \subseteq queue /\ request' = request
  BY <1>6 DEF LockExpires, WorkerCrash
<1>7. ASSUME NEW t \in Threads, NEW x \in {Direct, Review}, AskDirectly(t, x)
      PROVE  queue' \subseteq queue /\ request' = request
  BY <1>7 DEF AskDirectly
<1>8. CASE UNCHANGED vars
  BY <1>1, <1>8 DEF vars
<1>. QED
  BY <1>1, <1>2, <1>3, <1>4, <1>5, <1>6, <1>7, <1>8 DEF Next

\* The requests of the API process never run a job.
ThreadsAreDirect == \A t \in Threads : work[t] \in {Direct, Review}

LEMMA ThreadsStayDirect ==
    ASSUME TypeOK, ThreadsAreDirect, [Next]_vars
    PROVE  ThreadsAreDirect'
<1>. USE JobsAssumption DEF ThreadsAreDirect, TypeOK, Runners
<1>1. ASSUME NEW w \in Workers, NEW j \in Jobs, StartJob(w, j) PROVE ThreadsAreDirect'
  BY <1>1 DEF StartJob
<1>2. ASSUME NEW r \in Runners, Acknowledge(r) \/ WorkerCrash(r) PROVE ThreadsAreDirect'
  BY <1>2 DEF Acknowledge, WorkerCrash
<1>3. ASSUME NEW r \in Runners, RunStep(r), ~Acknowledge(r) PROVE work' = work
  BY <1>3 DEF RunStep, MarkRunning, CallAnthropic, RecordUsage, RecordError,
              MarkSucceeded, MarkFailed, EndJob, StoreReview
<1>4. ASSUME NEW j \in Jobs, CreateJob(j) \/ Enqueue(j) \/ RejectJob(j) \/ DropJob(j)
      PROVE  work' = work
  BY <1>4 DEF CreateJob, Enqueue, RejectJob, DropJob
<1>5. ASSUME NEW w \in Workers, LockExpires(w) PROVE work' = work
  BY <1>5 DEF LockExpires
<1>8. ASSUME NEW t \in Threads, NEW x \in {Direct, Review}, AskDirectly(t, x)
      PROVE  ThreadsAreDirect'
  BY <1>8 DEF AskDirectly
<1>6. CASE ApiCrash
  BY <1>6 DEF ApiCrash
<1>7. CASE UNCHANGED vars
  BY <1>7 DEF vars
<1>. QED
  BY <1>1, <1>2, <1>3, <1>4, <1>5, <1>6, <1>7, <1>8 DEF Next, Runners

LEMMA OneMoreThan == ASSUME NEW m \in Nat, NEW n \in Nat PROVE 1 + m + n \in Nat
  OBVIOUS

LEMMA AllowanceIsNat ==
    ASSUME TypeOK, TypeOK'
    PROVE  Allowance \in Nat /\ Allowance' \in Nat
<1>1. /\ crashes \in Nat /\ lapses \in Nat
      /\ crashes' \in Nat /\ lapses' \in Nat
  BY JobsAssumption DEF TypeOK
<1>2. Allowance \in Nat
  BY <1>1, OneMoreThan DEF Allowance
<1>3. 1 + crashes' + lapses' \in Nat
  BY <1>1, OneMoreThan
<1>4. Allowance' = 1 + crashes' + lapses'
  BY DEF Allowance
<1>. QED
  BY <1>2, <1>3, <1>4

\* Only a call by a worker and the start of a job bring a job nearer to its bound.
LEMMA RepeatsStep ==
    ASSUME TypeOK, TypeOK', RepeatsInv, ThreadsAreDirect, [Next]_vars, NEW j \in Jobs
    PROVE  calls'[j] + ToCome(j)' <= Allowance'
<1>. USE DEF redis, spend, bounds, table
<1>1. Allowance \in Nat /\ Allowance' \in Nat
  BY AllowanceIsNat
<1>2. ASSUME NEW w \in Workers, NEW i \in Jobs, StartJob(w, i)
      PROVE  calls'[j] + ToCome(j)' <= Allowance'
  BY <1>2, StartedCall
<1>3. ASSUME NEW r \in Runners, CallAnthropic(r)
      PROVE  calls'[j] + ToCome(j)' <= Allowance'
  BY <1>3, MadeCall DEF ThreadsAreDirect
<1>4. ASSUME NEW w \in Workers, LockExpires(w) \/ WorkerCrash(w)
      PROVE  calls'[j] + ToCome(j)' <= Allowance'
  <2>1. UNCHANGED calls /\ Allowance' = Allowance + 1
    <3>1. /\ UNCHANGED calls
          /\ \/ lapses' = lapses + 1 /\ crashes' = crashes
             \/ lapses' = lapses /\ crashes' = crashes + 1
      BY <1>4 DEF LockExpires, WorkerCrash
    <3>2. crashes \in Nat /\ lapses \in Nat
      BY JobsAssumption DEF TypeOK
    <3>. QED
      BY <3>1, <3>2 DEF Allowance
  <2>2. BeforeCall(j)' \subseteq BeforeCall(j)
    BY <1>4, JobsAssumption DEF LockExpires, WorkerCrash, Goto, BeforeCall, TypeOK, Runners
  <2>. QED
    BY <1>1, <2>1, <2>2, NoNewCall
<1>5. ASSUME UNCHANGED <<calls, lapses>>,
             crashes' \in {crashes, crashes + 1},
             BeforeCall(j)' \subseteq BeforeCall(j),
             ~ \E w \in Workers : LockExpires(w) \/ WorkerCrash(w)
      PROVE  calls'[j] + ToCome(j)' <= Allowance'
  <2>1. Startable(j)' => Startable(j)
    BY <1>5, StartableAfter
  <2>2. Allowance' \in {Allowance, Allowance + 1}
    <3>1. lapses' = lapses /\ (crashes' = crashes \/ crashes' = crashes + 1)
      BY <1>5
    <3>2. crashes \in Nat /\ lapses \in Nat
      BY JobsAssumption DEF TypeOK
    <3>. QED
      BY <3>1, <3>2 DEF Allowance
  <2>. QED
    BY <1>1, <1>5, <2>1, <2>2, NoNewCall
<1>6. ASSUME NEW i \in Jobs, CreateJob(i) \/ Enqueue(i) \/ RejectJob(i) \/ DropJob(i)
      PROVE  UNCHANGED <<calls, lapses, crashes, pc, work>>
  BY <1>6 DEF CreateJob, Enqueue, RejectJob, DropJob
<1>7. ASSUME NEW r \in Runners, RunStep(r), ~CallAnthropic(r)
      PROVE  /\ UNCHANGED <<calls, lapses, crashes>>
             /\ BeforeCall(j)' \subseteq BeforeCall(j)
  <2>1. UNCHANGED <<calls, lapses, crashes>>
    BY <1>7 DEF RunStep, MarkRunning, RecordUsage, RecordError, MarkSucceeded,
                MarkFailed, EndJob, StoreReview, Acknowledge
  <2>2. CASE Acknowledge(r)
    BY <2>2, JobsAssumption DEF Acknowledge, Goto, BeforeCall, TypeOK, Runners
  <2>3. CASE ~Acknowledge(r)
    <3>1. work' = work
      BY <1>7, <2>3 DEF RunStep, MarkRunning, RecordUsage, RecordError, MarkSucceeded,
                        MarkFailed, EndJob, StoreReview
    <3>2. \A q \in Runners : pc'[q] \in {"load", "call"} => pc[q] \in {"load", "call"}
      BY <1>7, <2>3 DEF RunStep, MarkRunning, RecordUsage, RecordError, MarkSucceeded,
                        MarkFailed, EndJob, StoreReview, ThenUse, ThenReport, Goto, TypeOK
    <3>. QED
      BY <2>1, <3>1, <3>2 DEF BeforeCall, Runners
  <2>. QED
    BY <2>1, <2>2, <2>3
<1>8. ASSUME NEW t \in Threads, NEW x \in {Direct, Review}, AskDirectly(t, x)
      PROVE  /\ UNCHANGED <<calls, lapses, crashes>>
             /\ BeforeCall(j)' \subseteq BeforeCall(j)
  BY <1>8, JobsAssumption DEF AskDirectly, Goto, BeforeCall, TypeOK, Runners
<1>9. ASSUME ApiCrash
      PROVE  /\ UNCHANGED <<calls, lapses>>
             /\ crashes' = crashes + 1
             /\ BeforeCall(j)' \subseteq BeforeCall(j)
  BY <1>9, JobsAssumption DEF ApiCrash, BeforeCall, TypeOK, Runners
<1>10. CASE UNCHANGED vars
  BY <1>5, <1>10, <1>4 DEF vars, BeforeCall
<1>. QED
  BY <1>2, <1>3, <1>4, <1>5, <1>6, <1>7, <1>8, <1>9, <1>10 DEF Next, BeforeCall

\* A job is sent to Anthropic again only after a crash or an expired lock, however
\* many workers there are and however often arq delivers it.
THEOREM RepeatsAreExplainedAlways == Spec => []RepeatsAreExplained
<1>1. Init => RepeatsInv /\ ThreadsAreDirect
  <2>1. ASSUME Init, NEW j \in Jobs PROVE BeforeCall(j) = {}
    BY <2>1, JobsAssumption DEF Init, BeforeCall, Runners
  <2>. QED
    BY <2>1, FS_EmptySet
    DEF Init, RepeatsInv, ToCome, Allowance, ThreadsAreDirect, Runners, Purposes
<1>2. TypeOK /\ TypeOK' /\ RepeatsInv /\ ThreadsAreDirect /\ [Next]_vars
        => (RepeatsInv /\ ThreadsAreDirect)'
  BY RepeatsStep, QueuedWasSent, ThreadsStayDirect DEF RepeatsInv
<1>3. TypeOK /\ RepeatsInv => RepeatsAreExplained
  <2> SUFFICES ASSUME TypeOK, RepeatsInv, NEW j \in Jobs
               PROVE  calls[j] <= 1 + crashes + lapses
    BY DEF RepeatsAreExplained
  <2>1. calls[j] + ToCome(j) <= 1 + crashes + lapses
    BY DEF RepeatsInv, Allowance
  <2>2. ToCome(j) \in Nat
    BY BeforeCallFinite DEF ToCome
  <2>3. calls[j] \in Nat /\ crashes \in Nat /\ lapses \in Nat
    BY JobsAssumption DEF TypeOK, Purposes
  <2>. QED
    BY <2>1, <2>2, <2>3
<1>. QED
  BY TypeCorrect, <1>1, <1>2, <1>3, PTL DEF Spec

-----------------------------------------------------------------------------
(* How often a job that has ended gets another status.                     *)

\* Those who may still write how the job ends: the workers that run it, one more if a
\* worker may start it, and the request if it is about to reject it.
Unended(j) == {w \in Workers : work[w] = j /\ pc[w] \notin {"idle", "ack"}}
One(condition) == IF condition THEN 1 ELSE 0
ToEnd(j) == Cardinality(Unended(j)) + One(Startable(j)) + One(request[j] = "excepted")

\* An end that is written stands or is taken back once. The second conjunct is for ends
\* that are never written, because the commit fails or the worker dies.
Bounded(j) ==
    /\ reversals[j] + One(status[j] \in JOB_TERMINAL) + ToEnd(j)
         <= Allowance + One(j \in unanswered)
    /\ reversals[j] < Allowance + One(j \in unanswered)

ReversalsInv ==
    /\ \A j \in Jobs : Bounded(j)
    /\ \A j \in unanswered : request[j] \notin {"none", "created"}

LEMMA UnendedFinite ==
    ASSUME NEW j \in Jobs
    PROVE  /\ IsFiniteSet(Unended(j)) /\ Cardinality(Unended(j)) \in Nat
           /\ IsFiniteSet(Unended(j)') /\ Cardinality(Unended(j)') \in Nat
  BY RunnersFinite DEF Unended, Runners

\* A step that writes no status, brings nobody to the job but at the expense of the
\* allowance, and leaves the request or ends it.
LEMMA NoNewEnd ==
    ASSUME TypeOK, TypeOK', ReversalsInv, NEW j \in Jobs,
           reversals'[j] = reversals[j], unanswered' = unanswered,
           status'[j] \in JOB_TERMINAL => status[j] \in JOB_TERMINAL,
           Unended(j)' \subseteq Unended(j),
           request'[j] = "excepted" => request[j] = "excepted",
           \/ Allowance' = Allowance /\ (Startable(j)' => Startable(j))
           \/ Allowance' = Allowance + 1
    PROVE  Bounded(j)'
<1>1. Cardinality(Unended(j)') <= Cardinality(Unended(j))
  BY UnendedFinite, FS_Subset
<1>2. Bounded(j)
  BY DEF ReversalsInv
<1>3. reversals[j] \in Nat /\ Allowance \in Nat /\ Allowance' \in Nat
  BY AllowanceIsNat DEF TypeOK
<1> QED
  BY <1>1, <1>2, <1>3, UnendedFinite DEF Bounded, ToEnd, One, JOB_TERMINAL

\* A run comes to its end: it writes a status and is over, or its commit fails.
LEMMA RunEnds ==
    ASSUME TypeOK, TypeOK', ReversalsInv, NEW r \in Runners, NEW j \in Jobs,
           ThreadsAreDirect, MarkSucceeded(r) \/ MarkFailed(r)
    PROVE  Bounded(j)'
<1>1. /\ pc[r] \in {"succeed", "fail"} /\ Goto(r, "ack")
      /\ UNCHANGED <<request, queue, locks, work, unanswered, crashes, lapses>>
  BY DEF MarkSucceeded, MarkFailed, EndJob, redis
<1>2. Startable(j)' = Startable(j) /\ Allowance' = Allowance
  BY <1>1 DEF Startable, Allowance
<1>3. Unended(j)' = Unended(j) \ {r}
  BY <1>1 DEF Unended, Goto, TypeOK, Runners
<1>4. CASE work[r] = j
  <2>1. r \in Unended(j)
    BY <1>1, <1>4, JobsAssumption DEF Unended, ThreadsAreDirect, Runners
  <2>2. Cardinality(Unended(j)') = Cardinality(Unended(j)) - 1
    BY <1>3, <2>1, UnendedFinite, FS_RemoveElement
  <2>3. \/ status'[j] = status[j] /\ reversals'[j] = reversals[j]
        \/ status'[j] \in JOB_TERMINAL /\ reversals'[j] = reversals[j]
        \/ status[j] \in JOB_TERMINAL /\ reversals'[j] = reversals[j] + 1
    BY <1>4 DEF MarkSucceeded, MarkFailed, EndJob, WriteStatus, table, TypeOK, JOB_TERMINAL
  <2>4. Bounded(j)
    BY DEF ReversalsInv
  <2>5. reversals[j] \in Nat /\ Allowance \in Nat
    BY AllowanceIsNat DEF TypeOK
  <2> QED
    BY <1>1, <1>2, <2>2, <2>3, <2>4, <2>5, UnendedFinite DEF Bounded, ToEnd, One, JOB_TERMINAL
<1>5. CASE work[r] # j
  <2>1. status'[j] = status[j] /\ reversals'[j] = reversals[j]
    BY <1>5 DEF MarkSucceeded, MarkFailed, EndJob, WriteStatus, table, TypeOK
  <2> QED
    BY <1>1, <1>2, <1>3, <2>1, NoNewEnd
<1> QED
  BY <1>4, <1>5

\* A run begins: a status that says the job has ended is taken back.
LEMMA RunBegins ==
    ASSUME TypeOK, TypeOK', ReversalsInv, NEW r \in Runners, NEW j \in Jobs,
           ThreadsAreDirect, MarkRunning(r)
    PROVE  Bounded(j)'
<1>1. /\ UNCHANGED <<request, queue, locks, work, unanswered, crashes, lapses>>
      /\ pc[r] = "load" /\ (Goto(r, "call") \/ Goto(r, "ack"))
  BY DEF MarkRunning, redis
<1>2. Startable(j)' = Startable(j) /\ Allowance' = Allowance
  BY <1>1 DEF Startable, Allowance
<1>3. Unended(j)' \subseteq Unended(j)
  BY <1>1 DEF Unended, Goto, TypeOK, Runners
<1>4. CASE status'[j] = status[j] /\ reversals'[j] = reversals[j]
  BY <1>1, <1>2, <1>3, <1>4, NoNewEnd
<1>5. CASE /\ status'[j] \notin JOB_TERMINAL
           /\ reversals'[j] = reversals[j] + One(status[j] \in JOB_TERMINAL)
  <2>1. Cardinality(Unended(j)') <= Cardinality(Unended(j))
    BY <1>3, UnendedFinite, FS_Subset
  <2>2. Bounded(j)
    BY DEF ReversalsInv
  <2>3. reversals[j] \in Nat /\ Allowance \in Nat
    BY AllowanceIsNat DEF TypeOK
  <2>4. status[j] \in JOB_TERMINAL => Cardinality(Unended(j)) >= 1
    <3>1. SUFFICES ASSUME status[j] \in JOB_TERMINAL PROVE Cardinality(Unended(j)) >= 1
      OBVIOUS
    <3>2. work[r] = j
      BY <1>5, <3>1 DEF MarkRunning, WriteStatus, TypeOK
    <3>3. r \in Unended(j)
      BY <1>1, <3>2, JobsAssumption DEF Unended, ThreadsAreDirect, Runners
    <3>4. Cardinality(Unended(j) \ {r}) = Cardinality(Unended(j)) - 1
          /\ Cardinality(Unended(j) \ {r}) \in Nat
      BY <3>3, UnendedFinite, FS_RemoveElement, FS_CardinalityType
    <3> QED
      BY <3>4, UnendedFinite
  <2>5. Allowance' = Allowance /\ unanswered' = unanswered
    BY <1>1, <1>2
  <2>6. ToEnd(j)' <= ToEnd(j) /\ ToEnd(j)' \in Nat /\ ToEnd(j) \in Nat
        /\ (status[j] \in JOB_TERMINAL => ToEnd(j) >= 1)
    BY <1>1, <1>2, <2>1, <2>4, UnendedFinite DEF ToEnd, One
  <2> HIDE DEF ToEnd, Allowance
  <2> QED
    BY <1>5, <2>2, <2>3, <2>5, <2>6 DEF Bounded, One
<1>6. \/ status'[j] = status[j] /\ reversals'[j] = reversals[j]
      \/ /\ status'[j] \notin JOB_TERMINAL
         /\ reversals'[j] = reversals[j] + One(status[j] \in JOB_TERMINAL)
  BY DEF MarkRunning, WriteStatus, TypeOK, JOB_TERMINAL, One
<1> QED
  BY <1>4, <1>5, <1>6

\* A worker takes the job from the queue.
LEMMA RunStarts ==
    ASSUME TypeOK, TypeOK', RepeatsInv, ReversalsInv, NEW w \in Workers, NEW i \in Jobs,
           StartJob(w, i), NEW j \in Jobs
    PROVE  Bounded(j)'
<1>1. /\ UNCHANGED <<status, reversals, request, queue, unanswered, crashes, lapses>>
      /\ Allowance' = Allowance
  BY DEF StartJob, table, bounds, Allowance
<1>2. CASE i = j
  <2>1. Unended(j)' = Unended(j) \cup {w} /\ w \notin Unended(j)
    BY <1>2 DEF StartJob, Goto, Unended, TypeOK, Runners
  <2>2. Cardinality(Unended(j)') = Cardinality(Unended(j)) + 1
    BY <2>1, UnendedFinite, FS_AddElement
  <2>3. Startable(j) /\ ~Startable(j)'
    BY <1>2 DEF StartJob, Startable, RepeatsInv
  <2>4. Bounded(j)
    BY DEF ReversalsInv
  <2>5. reversals[j] \in Nat /\ Allowance \in Nat
    BY AllowanceIsNat DEF TypeOK
  <2> QED
    BY <1>1, <2>2, <2>3, <2>4, <2>5, UnendedFinite DEF Bounded, ToEnd, One, JOB_TERMINAL
<1>3. CASE i # j
  <2>1. Unended(j)' = Unended(j)
    BY <1>3 DEF StartJob, Goto, Unended, TypeOK, Runners
  <2>2. Startable(j)' = Startable(j)
    BY <1>3 DEF StartJob, Startable
  <2> QED
    BY <1>1, <2>1, <2>2, NoNewEnd
<1> QED
  BY <1>2, <1>3

\* The request: a reply that is lost adds one who may end the job, and is counted.
LEMMA RequestStep ==
    ASSUME TypeOK, TypeOK', RepeatsInv, ReversalsInv, NEW i \in Jobs,
           Enqueue(i) \/ RejectJob(i), NEW j \in Jobs
    PROVE  Bounded(j)'
<1>1. Allowance' = Allowance /\ Unended(j)' = Unended(j)
  BY DEF Enqueue, RejectJob, bounds, Allowance, Unended
<1>2. Bounded(j)
  BY DEF ReversalsInv
<1>3. reversals[j] \in Nat /\ Allowance \in Nat
  BY AllowanceIsNat DEF TypeOK
<1>4. CASE i # j
  <2>1. /\ status'[j] = status[j] /\ reversals'[j] = reversals[j]
        /\ request'[j] = request[j]
        /\ j \in unanswered' <=> j \in unanswered
        /\ j \in queue' <=> j \in queue
        /\ locks' = locks
    BY <1>4 DEF Enqueue, RejectJob, WriteStatus, table, redis, TypeOK
  <2>2. Startable(j)' = Startable(j)
    BY <2>1 DEF Startable
  <2> QED
    BY <1>1, <1>2, <2>1, <2>2 DEF Bounded, ToEnd, One, JOB_TERMINAL
<1>5. CASE i = j /\ Enqueue(i)
  <2>1. /\ UNCHANGED <<status, reversals>>
        /\ Startable(j) /\ request[j] # "excepted" /\ j \notin unanswered
        /\ \/ request'[j] # "excepted"
           \/ request'[j] = "excepted" /\ j \in unanswered'
           \/ request'[j] = "excepted" /\ queue' = queue /\ locks' = locks
    BY <1>5, JobsAssumption DEF Enqueue, table, Startable, ReversalsInv, TypeOK
  <2>2. CASE request'[j] # "excepted" \/ j \in unanswered'
    BY <1>1, <1>2, <1>3, <2>1, <2>2, UnendedFinite DEF Bounded, ToEnd, One, JOB_TERMINAL
  <2>3. CASE request'[j] = "excepted" /\ j \notin unanswered'
    <3>1. queue' = queue /\ locks' = locks
      BY <2>1, <2>3
    <3>2. CASE j \in queue \ locks
      BY <1>5, <3>2 DEF Enqueue, RepeatsInv
    <3>3. CASE j \notin queue \ locks
      <4>1. ~Startable(j)'
        BY <2>3, <3>1, <3>3 DEF Startable
      <4> QED
        BY <1>1, <1>2, <1>3, <2>1, <4>1, UnendedFinite DEF Bounded, ToEnd, One, JOB_TERMINAL
    <3> QED
      BY <3>2, <3>3
  <2> QED
    BY <2>2, <2>3
<1>6. CASE i = j /\ RejectJob(i)
  <2>1. /\ Startable(j)' = Startable(j)
        /\ request[j] = "excepted" /\ request'[j] # "excepted" /\ unanswered' = unanswered
    BY <1>6 DEF RejectJob, redis, Startable, TypeOK
  <2>2. \/ status'[j] = status[j] /\ reversals'[j] = reversals[j]
        \/ status'[j] \in JOB_TERMINAL /\ reversals'[j] = reversals[j]
        \/ status[j] \in JOB_TERMINAL /\ reversals'[j] = reversals[j] + 1
    BY <1>6 DEF RejectJob, WriteStatus, table, TypeOK, JOB_TERMINAL
  <2> QED
    BY <1>1, <1>2, <1>3, <2>1, <2>2, UnendedFinite DEF Bounded, ToEnd, One, JOB_TERMINAL
<1> QED
  BY <1>4, <1>5, <1>6

\* Every step keeps the bound.
LEMMA ReversalsStep ==
    ASSUME TypeOK, TypeOK', RepeatsInv, ReversalsInv, ThreadsAreDirect, [Next]_vars,
           NEW j \in Jobs
    PROVE  Bounded(j)'
<1>. USE DEF redis, spend, bounds, table
<1>1. ASSUME UNCHANGED <<reversals, unanswered>>, UNCHANGED status \/ status'[j] = "queued",
             Unended(j)' \subseteq Unended(j),
             request'[j] = "excepted" => request[j] = "excepted",
             UNCHANGED <<crashes, lapses>> \/ Allowance' = Allowance + 1,
             ~ \E w \in Workers : LockExpires(w) \/ WorkerCrash(w)
      PROVE  Bounded(j)'
  <2>1. Startable(j)' => Startable(j)
    BY <1>1, StartableAfter
  <2>2. Allowance' = Allowance \/ Allowance' = Allowance + 1
    BY <1>1 DEF Allowance
  <2>3. status'[j] \in JOB_TERMINAL => status[j] \in JOB_TERMINAL
    BY <1>1 DEF JOB_TERMINAL
  <2> QED
    BY <1>1, <2>1, <2>2, <2>3, NoNewEnd
<1>2. ASSUME NEW w \in Workers, LockExpires(w) \/ WorkerCrash(w) PROVE Bounded(j)'
  <2>1. UNCHANGED <<status, reversals, unanswered, request>> /\ Allowance' = Allowance + 1
    <3>1. /\ UNCHANGED <<status, reversals, unanswered, request>>
          /\ \/ lapses' = lapses + 1 /\ crashes' = crashes
             \/ lapses' = lapses /\ crashes' = crashes + 1
      BY <1>2 DEF LockExpires, WorkerCrash
    <3>2. crashes \in Nat /\ lapses \in Nat
      BY JobsAssumption DEF TypeOK
    <3>. QED
      BY <3>1, <3>2 DEF Allowance
  <2>2. Unended(j)' \subseteq Unended(j)
    BY <1>2, JobsAssumption DEF LockExpires, WorkerCrash, Goto, Unended, TypeOK, Runners
  <2>. QED
    BY <2>1, <2>2, NoNewEnd
<1>3. ASSUME NEW w \in Workers, NEW i \in Jobs, StartJob(w, i) PROVE Bounded(j)'
  BY <1>3, RunStarts
<1>4. ASSUME NEW i \in Jobs, Enqueue(i) \/ RejectJob(i) PROVE Bounded(j)'
  BY <1>4, RequestStep
<1>5. ASSUME NEW r \in Runners, MarkRunning(r) PROVE Bounded(j)'
  BY <1>5, RunBegins
<1>6. ASSUME NEW r \in Runners, MarkSucceeded(r) \/ MarkFailed(r) PROVE Bounded(j)'
  BY <1>6, RunEnds
<1>7. CASE \E w \in Workers : LockExpires(w) \/ WorkerCrash(w)
  BY <1>2, <1>7
<1>8. CASE ~ \E w \in Workers : LockExpires(w) \/ WorkerCrash(w)
  <2>1. ASSUME NEW i \in Jobs, CreateJob(i) PROVE Bounded(j)'
    <3>1. i = j \/ status'[j] = status[j]
      BY <2>1 DEF CreateJob, TypeOK
    <3>2. status'[j] \in JOB_TERMINAL => status[j] \in JOB_TERMINAL
      BY <2>1, <3>1 DEF CreateJob, TypeOK, JOB_TERMINAL
    <3>3. /\ UNCHANGED <<reversals, unanswered, crashes, lapses>>
          /\ Unended(j)' = Unended(j)
          /\ request'[j] = "excepted" => request[j] = "excepted"
      BY <2>1 DEF CreateJob, Unended, TypeOK
    <3>4. (Startable(j)' => Startable(j)) /\ Allowance' = Allowance
      BY <1>8, <3>3, StartableAfter DEF Allowance
    <3> QED
      BY <3>2, <3>3, <3>4, NoNewEnd
  <2>2. ASSUME NEW i \in Jobs, DropJob(i) PROVE Bounded(j)'
    BY <1>1, <1>8, <2>2 DEF DropJob, Unended
  <2>3. ASSUME NEW r \in Runners, CallAnthropic(r) \/ RecordUsage(r) \/ RecordError(r)
                                  \/ StoreReview(r) \/ Acknowledge(r)
        PROVE  Bounded(j)'
    <3>1. UNCHANGED <<reversals, unanswered, status, request, crashes, lapses>>
      BY <2>3 DEF CallAnthropic, RecordUsage, RecordError, StoreReview, Acknowledge
    <3>2. Unended(j)' \subseteq Unended(j)
      <4>1. CASE Acknowledge(r)
        BY <4>1, JobsAssumption DEF Acknowledge, Goto, Unended, TypeOK, Runners
      <4>2. CASE ~Acknowledge(r)
        <5>1. work' = work
          BY <2>3, <4>2 DEF CallAnthropic, RecordUsage, RecordError, StoreReview
        <5>2. pc[r] \notin {"idle", "ack"} /\ \A q \in Runners \ {r} : pc'[q] = pc[q]
          BY <2>3, <4>2 DEF CallAnthropic, RecordUsage, RecordError, StoreReview, ThenUse,
             ThenReport, Goto, TypeOK
        <5> QED
          BY <5>1, <5>2 DEF Unended, Runners
      <4> QED
        BY <4>1, <4>2
    <3> QED
      BY <1>1, <1>8, <3>1, <3>2
  <2>4. ASSUME NEW t \in Threads, NEW x \in {Direct, Review}, AskDirectly(t, x) PROVE Bounded(j)'
    <3>1. UNCHANGED <<reversals, unanswered, status, request, crashes, lapses>>
      BY <2>4 DEF AskDirectly
    <3>2. Unended(j)' \subseteq Unended(j)
      BY <2>4, JobsAssumption DEF AskDirectly, Goto, Unended, TypeOK, Runners
    <3> QED
      BY <1>1, <1>8, <3>1, <3>2
  <2>5. CASE ApiCrash
    <3>1. /\ UNCHANGED <<reversals, unanswered, status>>
          /\ crashes' = crashes + 1 /\ lapses' = lapses
          /\ request'[j] = "excepted" => request[j] = "excepted"
      BY <2>5 DEF ApiCrash, TypeOK
    <3>2. crashes \in Nat /\ lapses \in Nat
      BY JobsAssumption DEF TypeOK
    <3>3. Allowance' = Allowance + 1
      BY <3>1, <3>2 DEF Allowance
    <3>4. Unended(j)' \subseteq Unended(j)
      BY <2>5, JobsAssumption DEF ApiCrash, Unended, TypeOK, Runners
    <3> QED
      BY <1>1, <1>8, <3>1, <3>3, <3>4
  <2>6. CASE UNCHANGED vars
    BY <1>1, <1>8, <2>6 DEF vars, Unended
  <2> QED
    BY <1>3, <1>4, <1>5, <1>6, <1>8, <2>1, <2>2, <2>3, <2>4, <2>5, <2>6 DEF Next, RunStep
<1> QED
  BY <1>7, <1>8

\* A reply is lost only of a request that was sent.
LEMMA UnansweredWasSent ==
    ASSUME TypeOK, ReversalsInv, [Next]_vars
    PROVE  \A j \in unanswered' : request'[j] \notin {"none", "created"}
<1>. USE DEF redis, spend, bounds, table
<1>1. \A j \in unanswered : j \in Jobs /\ request[j] \notin {"none", "created"}
  BY DEF ReversalsInv, TypeOK
<1>2. ASSUME NEW i \in Jobs, CreateJob(i) \/ Enqueue(i) \/ RejectJob(i) \/ DropJob(i)
      PROVE  \A j \in unanswered' : request'[j] \notin {"none", "created"}
  BY <1>1, <1>2 DEF CreateJob, Enqueue, RejectJob, DropJob, TypeOK
<1>3. CASE ApiCrash
  BY <1>1, <1>3 DEF ApiCrash
<1>4. ASSUME NEW r \in Runners, RunStep(r) PROVE unanswered' = unanswered /\ request' = request
  BY <1>4 DEF RunStep, MarkRunning, CallAnthropic, RecordUsage, RecordError,
              MarkSucceeded, MarkFailed, EndJob, StoreReview, Acknowledge
<1>5. ASSUME NEW w \in Workers, NEW j \in Jobs, StartJob(w, j)
      PROVE  unanswered' = unanswered /\ request' = request
  BY <1>5 DEF StartJob
<1>6. ASSUME NEW w \in Workers, LockExpires(w) \/ WorkerCrash(w)
      PROVE  unanswered' = unanswered /\ request' = request
  BY <1>6 DEF LockExpires, WorkerCrash
<1>7. ASSUME NEW t \in Threads, NEW x \in {Direct, Review}, AskDirectly(t, x)
      PROVE  unanswered' = unanswered /\ request' = request
  BY <1>7 DEF AskDirectly
<1>8. CASE UNCHANGED vars
  BY <1>1, <1>8 DEF vars
<1>. QED
  BY <1>1, <1>2, <1>3, <1>4, <1>5, <1>6, <1>7, <1>8 DEF Next

\* EndedJobsStay: each crash, each expired lock and a lost reply lets one more end of the
\* job be written, and an end is taken back at most once.
THEOREM EndedJobsStayAlways == Spec => []EndedJobsStay
<1>1. Init => RepeatsInv /\ ThreadsAreDirect /\ ReversalsInv
  <2>1. ASSUME Init, NEW j \in Jobs
        PROVE  /\ Cardinality(BeforeCall(j)) = 0 /\ Cardinality(Unended(j)) = 0
               /\ Startable(j) /\ request[j] # "excepted" /\ status[j] \notin JOB_TERMINAL
    <3>1. BeforeCall(j) = {} /\ Unended(j) = {}
      BY <2>1 DEF Init, BeforeCall, Unended, Runners
    <3>. QED
      BY <2>1, <3>1, FS_EmptySet DEF Init, Startable, JOB_TERMINAL
  <2>. QED
    BY <2>1, JobsAssumption
    DEF Init, RepeatsInv, ReversalsInv, Bounded, ToCome, ToEnd, One, Allowance,
        ThreadsAreDirect, Runners, Purposes
<1>2. TypeOK /\ TypeOK' /\ RepeatsInv /\ ThreadsAreDirect /\ ReversalsInv /\ [Next]_vars
        => (RepeatsInv /\ ThreadsAreDirect /\ ReversalsInv)'
  <2>1. ASSUME TypeOK, TypeOK', RepeatsInv, ThreadsAreDirect, ReversalsInv, [Next]_vars
        PROVE  RepeatsInv' /\ ThreadsAreDirect'
    BY <2>1, RepeatsStep, QueuedWasSent, ThreadsStayDirect DEF RepeatsInv
  <2>2. ASSUME TypeOK, TypeOK', RepeatsInv, ThreadsAreDirect, ReversalsInv, [Next]_vars
        PROVE  ReversalsInv'
    BY <2>2, ReversalsStep, UnansweredWasSent DEF ReversalsInv
  <2>. QED
    BY <2>1, <2>2
<1>3. TypeOK /\ ReversalsInv => EndedJobsStay
  <2> SUFFICES ASSUME TypeOK, ReversalsInv, NEW j \in Jobs
               PROVE  reversals[j] <= crashes + lapses + One(j \in unanswered)
    BY DEF EndedJobsStay, One
  <2>1. reversals[j] < 1 + crashes + lapses + One(j \in unanswered)
    BY DEF ReversalsInv, Bounded, Allowance
  <2>2. reversals[j] \in Nat /\ crashes \in Nat /\ lapses \in Nat
    BY JobsAssumption DEF TypeOK
  <2>. QED
    BY <2>1, <2>2 DEF One
<1>. QED
  BY TypeCorrect, <1>1, <1>2, <1>3, PTL DEF Spec

-----------------------------------------------------------------------------
(* With honest enqueue errors: the life of a job.                          *)

\* An exception from enqueue_job means that nothing was stored.
HonestErrors == EnqueueOutcomes \subseteq {"queued", "refused"}

\* What is in Redis or under way was accepted, and threads have no jobs.
OnlyAccepted ==
    /\ \A j \in queue : request[j] = "accepted"
    /\ \A w \in Workers : pc[w] # "idle" => request[work[w]] = "accepted"
    /\ \A t \in Threads : /\ work[t] \in {Direct, Review}
                          /\ pc[t] \in {"idle", "call", "record", "recordError", "store"}
    /\ \A w \in Workers : pc[w] # "store"
    /\ \A j \in Jobs : request[j] # "accepted" => calls[j] = 0

LEMMA OnlyAcceptedStep ==
    ASSUME HonestErrors, TypeOK, OnlyAccepted, [Next]_vars
    PROVE  OnlyAccepted'
<1>. USE JobsAssumption DEF TypeOK, OnlyAccepted, Runners, Purposes, table, spend, redis, bounds,
              Goto
<1>1. ASSUME NEW j \in Jobs, CreateJob(j) \/ RejectJob(j) \/ DropJob(j) PROVE OnlyAccepted'
  BY <1>1 DEF CreateJob, RejectJob, DropJob
<1>2. ASSUME NEW j \in Jobs, Enqueue(j) PROVE OnlyAccepted'
  BY <1>2 DEF Enqueue, HonestErrors
<1>3. ASSUME NEW w \in Workers, NEW j \in Jobs, StartJob(w, j) PROVE OnlyAccepted'
  BY <1>3 DEF StartJob
<1>4. ASSUME NEW r \in Runners, MarkRunning(r) PROVE OnlyAccepted'
  BY <1>4 DEF MarkRunning
<1>5. ASSUME NEW r \in Runners, CallAnthropic(r) PROVE OnlyAccepted'
  BY <1>5 DEF CallAnthropic
<1>6. ASSUME NEW r \in Runners, RecordUsage(r) \/ RecordError(r) PROVE OnlyAccepted'
  BY <1>6 DEF RecordUsage, RecordError, ThenUse, ThenReport
<1>7. ASSUME NEW r \in Runners, MarkSucceeded(r) \/ MarkFailed(r) PROVE OnlyAccepted'
  BY <1>7 DEF MarkSucceeded, MarkFailed, EndJob
<1>8. ASSUME NEW r \in Runners, StoreReview(r) \/ Acknowledge(r) PROVE OnlyAccepted'
  BY <1>8 DEF StoreReview, Acknowledge
<1>9. ASSUME NEW t \in Threads, NEW x \in {Direct, Review}, AskDirectly(t, x)
      PROVE  OnlyAccepted'
  BY <1>9 DEF AskDirectly
<1>10. ASSUME NEW w \in Workers, LockExpires(w) \/ WorkerCrash(w) PROVE OnlyAccepted'
  BY <1>10 DEF LockExpires, WorkerCrash
<1>11. CASE ApiCrash
  BY <1>11 DEF ApiCrash
<1>12. CASE UNCHANGED vars
  BY <1>12 DEF vars
<1>. QED
  BY <1>1, <1>2, <1>3, <1>4, <1>5, <1>6, <1>7, <1>8, <1>9, <1>10, <1>11, <1>12
  DEF Next, RunStep

\* One run of a job at a time: a worker holds the lock of its job, and no one else has it.
OneRunAtATime ==
    /\ \A w \in Workers : pc[w] # "idle" => work[w] \in locks
    /\ \A v, w \in Workers : pc[v] # "idle" /\ pc[w] # "idle" /\ work[v] = work[w] => v = w

\* The row of a job, by its request and its run.
RowFits ==
    /\ \A j \in Jobs :
         /\ request[j] = "none" => status[j] = "absent"
         /\ request[j] \in {"created", "excepted"} => status[j] = "queued"
         /\ request[j] = "accepted" => status[j] # "absent"
         /\ status[j] \in JOB_TERMINAL => outcome[j] # {}
    /\ \A w \in Workers : pc[w] \notin {"idle", "load", "ack"} => status[work[w]] = "running"

LifeInv == OnlyAccepted /\ OneRunAtATime /\ RowFits

LEMMA OneRunStep ==
    ASSUME MaxLapses = 0, TypeOK, OnlyAccepted, OneRunAtATime, [Next]_vars
    PROVE  OneRunAtATime'
<1>. USE JobsAssumption DEF TypeOK, OnlyAccepted, OneRunAtATime, Runners, Purposes,
         table, spend, redis, bounds, Goto
<1>1. ASSUME NEW j \in Jobs, CreateJob(j) \/ RejectJob(j) \/ DropJob(j) \/ Enqueue(j)
      PROVE  OneRunAtATime'
  BY <1>1 DEF CreateJob, RejectJob, DropJob, Enqueue
<1>2. ASSUME NEW w \in Workers, NEW j \in Jobs, StartJob(w, j) PROVE OneRunAtATime'
  BY <1>2 DEF StartJob
<1>3. ASSUME NEW r \in Runners,
             MarkRunning(r) \/ CallAnthropic(r) \/ RecordUsage(r) \/ RecordError(r)
             \/ MarkSucceeded(r) \/ MarkFailed(r) \/ StoreReview(r)
      PROVE  OneRunAtATime'
  <2>1. UNCHANGED <<work, locks>>
    BY <1>3 DEF MarkRunning, CallAnthropic, RecordUsage, RecordError, MarkSucceeded, MarkFailed,
                EndJob, StoreReview
  <2>2. pc[r] # "idle" /\ \A s \in Runners \ {r} : pc'[s] = pc[s]
    BY <1>3 DEF MarkRunning, CallAnthropic, RecordUsage, RecordError, MarkSucceeded, MarkFailed,
                EndJob, StoreReview, ThenUse, ThenReport
  <2>. QED  BY <2>1, <2>2
<1>4. ASSUME NEW r \in Runners, Acknowledge(r) PROVE OneRunAtATime'
  BY <1>4 DEF Acknowledge
<1>5. ASSUME NEW t \in Threads, NEW x \in {Direct, Review}, AskDirectly(t, x)
      PROVE  OneRunAtATime'
  BY <1>5 DEF AskDirectly
<1>6. ASSUME NEW w \in Workers, LockExpires(w) PROVE OneRunAtATime'
  BY <1>6 DEF LockExpires
<1>7. ASSUME NEW w \in Workers, WorkerCrash(w) PROVE OneRunAtATime'
  BY <1>7 DEF WorkerCrash
<1>8. CASE ApiCrash
  BY <1>8 DEF ApiCrash
<1>9. CASE UNCHANGED vars
  BY <1>9 DEF vars
<1>. QED
  BY <1>1, <1>2, <1>3, <1>4, <1>5, <1>6, <1>7, <1>8, <1>9 DEF Next, RunStep

\* A step of AIJobs is one of the promised life, or leaves the rows alone.
LifeStep == [Lifecycle!Next]_(Lifecycle!vars)

LEMMA RowStep ==
    ASSUME HonestErrors, TypeOK, LifeInv, [Next]_vars
    PROVE  RowFits' /\ LifeStep
<1>. USE JobsAssumption DEF WriteStatus, TypeOK, LifeInv, OnlyAccepted, OneRunAtATime, RowFits, LifeStep,
         Runners, Purposes, JOB_TERMINAL, table, spend, redis, bounds, Goto, Lifecycle!vars
<1>1. ASSUME NEW j \in Jobs, CreateJob(j) PROVE RowFits' /\ LifeStep
  <2>1. Lifecycle!Submit(j)
    BY <1>1 DEF CreateJob, Lifecycle!Submit
  <2>2. RowFits'
    BY <1>1 DEF CreateJob
  <2>. QED  BY <2>1, <2>2 DEF Lifecycle!Next
<1>2. ASSUME NEW j \in Jobs, RejectJob(j) PROVE RowFits' /\ LifeStep
  <2>1. Lifecycle!Fail(j) \/ UNCHANGED table
    BY <1>2 DEF RejectJob, Lifecycle!Fail
  <2>2. RowFits'
    BY <1>2 DEF RejectJob
  <2>. QED  BY <2>1, <2>2 DEF Lifecycle!Next
<1>3. ASSUME NEW j \in Jobs, Enqueue(j) \/ DropJob(j) PROVE RowFits' /\ LifeStep
  BY <1>3 DEF Enqueue, DropJob
<1>4. ASSUME NEW w \in Workers, NEW j \in Jobs, StartJob(w, j) PROVE RowFits' /\ LifeStep
  BY <1>4 DEF StartJob
<1>5. ASSUME NEW r \in Runners, MarkRunning(r) PROVE RowFits' /\ LifeStep
  <2>1. r \in Workers /\ pc[r] = "load" /\ work[r] \in Jobs
    BY <1>5 DEF MarkRunning
  <2>2. status[work[r]] # "absent"
    BY <2>1
  <2>3. CASE UNCHANGED status
    BY <1>5, <2>1, <2>3 DEF MarkRunning
  <2>4. CASE status' = [status EXCEPT ![work[r]] = "running"]
    <3>1. RowFits'
      BY <1>5, <2>1, <2>4 DEF MarkRunning
    <3>2. UNCHANGED outcome
      BY <1>5 DEF MarkRunning
    <3>3. CASE status[work[r]] = "queued"
      BY <2>1, <2>4, <3>1, <3>2, <3>3 DEF Lifecycle!Next, Lifecycle!Start
    <3>4. CASE status[work[r]] = "running"
      BY <2>1, <2>4, <3>1, <3>2, <3>4
    <3>5. CASE status[work[r]] \in {"succeeded", "failed"}
      BY <2>1, <2>4, <3>1, <3>2, <3>5 DEF Lifecycle!Next, Lifecycle!Redeliver
    <3>. QED  BY <2>1, <2>2, <3>3, <3>4, <3>5
  <2>. QED  BY <1>5, <2>3, <2>4 DEF MarkRunning
<1>6. ASSUME NEW r \in Runners, CallAnthropic(r) PROVE RowFits' /\ LifeStep
  BY <1>6 DEF CallAnthropic
<1>7. ASSUME NEW r \in Runners, RecordUsage(r) \/ RecordError(r) PROVE RowFits' /\ LifeStep
  BY <1>7 DEF RecordUsage, RecordError, ThenUse, ThenReport
<1>8. ASSUME NEW r \in Runners, MarkSucceeded(r) PROVE RowFits' /\ LifeStep
  <2>1. r \in Workers /\ work[r] \in Jobs /\ status[work[r]] = "running"
    BY <1>8 DEF MarkSucceeded, EndJob
  <2>2. \A w \in Workers : pc[w] # "idle" /\ work[w] = work[r] => w = r
    BY <1>8, <2>1 DEF MarkSucceeded, EndJob
  <2>3. RowFits'
    <3>1. CASE UNCHANGED table
      BY <1>8, <2>1, <3>1 DEF MarkSucceeded, EndJob
    <3>2. CASE /\ status' = [status EXCEPT ![work[r]] = "succeeded"]
               /\ outcome' = [outcome EXCEPT ![work[r]] = @ \cup {"result"}]
      BY <1>8, <2>1, <2>2, <3>2 DEF MarkSucceeded, EndJob
    <3>. QED  BY <1>8, <3>1, <3>2 DEF MarkSucceeded, EndJob
  <2>4. Lifecycle!Succeed(work[r]) \/ UNCHANGED table
    BY <1>8, <2>1 DEF MarkSucceeded, EndJob, Lifecycle!Succeed
  <2>. QED  BY <2>1, <2>3, <2>4 DEF Lifecycle!Next
<1>9. ASSUME NEW r \in Runners, MarkFailed(r) PROVE RowFits' /\ LifeStep
  <2>1. r \in Workers /\ work[r] \in Jobs /\ status[work[r]] = "running"
    BY <1>9 DEF MarkFailed, EndJob
  <2>2. RowFits'
    <3>1. \A w \in Workers : pc[w] # "idle" /\ work[w] = work[r] => w = r
      BY <1>9, <2>1 DEF MarkFailed, EndJob
    <3>2. CASE UNCHANGED table
      BY <1>9, <2>1, <3>2 DEF MarkFailed, EndJob
    <3>3. CASE /\ status' = [status EXCEPT ![work[r]] = "failed"]
               /\ outcome' = [outcome EXCEPT ![work[r]] = @ \cup {"error"}]
      BY <1>9, <2>1, <3>1, <3>3 DEF MarkFailed, EndJob
    <3>. QED  BY <1>9, <3>2, <3>3 DEF MarkFailed, EndJob
  <2>3. Lifecycle!Fail(work[r]) \/ UNCHANGED table
    BY <1>9, <2>1 DEF MarkFailed, EndJob, Lifecycle!Fail
  <2>. QED  BY <2>1, <2>2, <2>3 DEF Lifecycle!Next
<1>10. ASSUME NEW r \in Runners, StoreReview(r) \/ Acknowledge(r) PROVE RowFits' /\ LifeStep
  BY <1>10 DEF StoreReview, Acknowledge
<1>11. ASSUME NEW t \in Threads, NEW x \in {Direct, Review}, AskDirectly(t, x)
       PROVE  RowFits' /\ LifeStep
  BY <1>11 DEF AskDirectly
<1>12. ASSUME NEW w \in Workers, LockExpires(w) \/ WorkerCrash(w)
       PROVE  RowFits' /\ LifeStep
  BY <1>12 DEF LockExpires, WorkerCrash
<1>13. CASE ApiCrash
  BY <1>13 DEF ApiCrash
<1>14. CASE UNCHANGED vars
  BY <1>14 DEF vars
<1>. QED
  BY <1>1, <1>2, <1>3, <1>4, <1>5, <1>6, <1>7, <1>8, <1>9, <1>10, <1>11, <1>12, <1>13,
     <1>14 DEF Next, RunStep

\* With honest enqueue errors and locks that outlive their runs, what a polling client
\* sees of a job is the life JobLifecycle promises, through crashes, redeliveries and
\* failed commits.
THEOREM ImplementsLifecycleAlways ==
    ASSUME HonestErrors, MaxLapses = 0 PROVE Spec => ImplementsLifecycle
<1>1. Init => LifeInv /\ Lifecycle!Init
  BY JobsAssumption DEF Init, LifeInv, OnlyAccepted, OneRunAtATime, RowFits, Runners,
     Purposes, JOB_TERMINAL, Lifecycle!Init
<1>2. TypeOK /\ LifeInv /\ [Next]_vars => LifeInv' /\ [Lifecycle!Next]_(Lifecycle!vars)
  BY OnlyAcceptedStep, OneRunStep, RowStep DEF LifeInv, LifeStep
<1>. QED
  BY <1>1, <1>2, TypeCorrect, PTL DEF Spec, ImplementsLifecycle, Lifecycle!Spec

-----------------------------------------------------------------------------
(* Calls without a row: summed over all purposes, the ledger lacks what      *)
(* crashes and failed commits account for.                                  *)

\* The calls that are recorded right now, whoever made them.
Recording == {r \in Runners : pc[r] \in {"record", "recordError"}}

\* Calls without an ai_usage row, but for those that are recorded right now.
Missing ==
    SumFunctionOnSet(calls, Purposes) - SumFunctionOnSet(usage, Purposes)
      - Cardinality(Recording)

\* What a crash cuts off at most.
PerCrash == Max({1, Cardinality(Threads)})

\* MissingUsageIsExplained, of the sum of all purposes: it is inductive with TypeOK.
MissingInv == Missing <= crashes * PerCrash + faults

\* There are finitely many purposes.
LEMMA PurposesFinite == IsFiniteSet(Purposes)
<1>1. IsFiniteSet({Direct, Review})
  <2>1. IsFiniteSet({Direct}) /\ {Direct, Review} = {Direct} \cup {Review}
    BY FS_Singleton
  <2> QED
    BY <2>1, FS_AddElement
<1> QED
  BY <1>1, JobsAssumption, FS_Union DEF Purposes

\* The sums and counts are numbers.
LEMMA MissingTypes ==
    ASSUME TypeOK
    PROVE  /\ SumFunctionOnSet(calls, Purposes) \in Int
           /\ SumFunctionOnSet(usage, Purposes) \in Int
           /\ IsFiniteSet(Recording) /\ Cardinality(Recording) \in Nat
           /\ crashes \in Nat /\ faults \in Nat
<1>1. \A x \in Purposes : calls[x] \in Int /\ usage[x] \in Int
  BY DEF TypeOK
<1>2. IsFiniteSet(Recording) /\ Cardinality(Recording) \in Nat
  BY RunnersFinite DEF Recording
<1>3. crashes \in Nat /\ faults \in Nat
  BY JobsAssumption DEF TypeOK
<1> QED
  BY <1>1, <1>2, <1>3, PurposesFinite, SumPick

\* A crash may be of one worker or of all threads.
LEMMA PerCrashBounds ==
    /\ PerCrash \in Nat /\ PerCrash >= 1
    /\ IsFiniteSet(Threads) /\ Cardinality(Threads) \in Nat /\ Cardinality(Threads) <= PerCrash
<1>1. IsFiniteSet(Threads) /\ Cardinality(Threads) \in Nat
  BY JobsAssumption, FS_CardinalityType
<1>2. PerCrash = IF Cardinality(Threads) > 1 THEN Cardinality(Threads) ELSE 1
  BY <1>1 DEF PerCrash, Max
<1> QED
  BY <1>1, <1>2

\* A step that records nothing and cuts no recording off.
LEMMA MissingUntouched ==
    ASSUME TypeOK, MissingInv, UNCHANGED <<usage, calls, crashes>>,
           faults' = faults \/ faults' = faults + 1, Recording' = Recording
    PROVE  MissingInv'
<1>1. Missing' = Missing /\ PerCrash' = PerCrash
  BY DEF Missing, PerCrash
<1>2. Missing \in Int
  BY MissingTypes DEF Missing
<1>3. PerCrash * crashes \in Int /\ crashes * PerCrash \in Int
  BY MissingTypes, PerCrashBounds
<1> HIDE DEF Missing
<1> QED
  BY <1>1, <1>2, <1>3, MissingTypes DEF MissingInv

\* A call that is made is recorded next.
LEMMA MissingCall ==
    ASSUME TypeOK, TypeOK', MissingInv, NEW r \in Runners, CallAnthropic(r)
    PROVE  MissingInv'
<1>1. Recording' = Recording \cup {r} /\ r \notin Recording
  BY DEF CallAnthropic, Goto, TypeOK, Recording
<1>2. Cardinality(Recording') = Cardinality(Recording) + 1
  BY <1>1, MissingTypes, FS_AddElement
<1>3. SumFunctionOnSet(calls', Purposes) = SumFunctionOnSet(calls, Purposes) + 1
  <2> DEFINE x == work[r]
             after == calls'
  <2>1. /\ x \in Purposes
        /\ \A y \in Purposes : calls[y] \in Int /\ after[y] \in Int
        /\ \A y \in Purposes \ {x} : after[y] = calls[y]
        /\ after[x] = calls[x] + 1
    BY DEF TypeOK, CallAnthropic
  <2>2. SumFunctionOnSet(calls, Purposes) \in Int /\ SumFunctionOnSet(after, Purposes) \in Int
    BY <2>1, PurposesFinite, SumPick
  <2>3. SumFunctionOnSet(after, Purposes) - SumFunctionOnSet(calls, Purposes) = after[x] - calls[x]
    BY <2>1, PurposesFinite, SumChange
  <2> QED
    BY <2>1, <2>2, <2>3
<1>4. usage' = usage /\ crashes' = crashes /\ faults' = faults /\ Purposes' = Purposes
  BY DEF CallAnthropic, spend, bounds
<1>5. Missing' = Missing
  BY <1>2, <1>3, <1>4, MissingTypes DEF Missing
<1> QED
  BY <1>4, <1>5 DEF MissingInv, PerCrash

\* A recording writes the row, or a fault is counted.
LEMMA MissingRecorded ==
    ASSUME TypeOK, TypeOK', MissingInv, NEW r \in Runners, RecordUsage(r) \/ RecordError(r)
    PROVE  MissingInv'
<1>0. /\ pc[r] \in {"record", "recordError"}
      /\ \E place \in {"idle", "succeed", "fail", "store", "ack"} : Goto(r, place)
      /\ \/ InsertUsage(r) /\ faults' = faults
         \/ usage' = usage /\ faults' = faults + 1
      /\ calls' = calls /\ crashes' = crashes /\ work' = work
  BY DEF RecordUsage, RecordError, ThenUse, ThenReport, CommitFails
<1>1. Recording' = Recording \ {r} /\ r \in Recording
  BY <1>0 DEF Goto, TypeOK, Recording
<1>2. Cardinality(Recording') = Cardinality(Recording) - 1
  BY <1>1, MissingTypes, FS_RemoveElement
<1>3. PerCrash' = PerCrash /\ crashes * PerCrash \in Int /\ Missing \in Int
  BY MissingTypes, PerCrashBounds DEF PerCrash, Missing
<1>4. CASE InsertUsage(r) /\ faults' = faults
  <2>1. SumFunctionOnSet(usage', Purposes) = SumFunctionOnSet(usage, Purposes) + 1
    <3> DEFINE x == work[r]
               after == usage'
    <3>1. /\ x \in Purposes
          /\ \A y \in Purposes : usage[y] \in Int /\ after[y] \in Int
          /\ \A y \in Purposes \ {x} : after[y] = usage[y]
          /\ after[x] = usage[x] + 1
      BY <1>4 DEF TypeOK, InsertUsage
    <3>2. SumFunctionOnSet(usage, Purposes) \in Int /\ SumFunctionOnSet(after, Purposes) \in Int
      BY <3>1, PurposesFinite, SumPick
    <3>3. SumFunctionOnSet(after, Purposes) - SumFunctionOnSet(usage, Purposes)
            = after[x] - usage[x]
      BY <3>1, PurposesFinite, SumChange
    <3> QED
      BY <3>1, <3>2, <3>3
  <2>2. Missing' = Missing
    BY <1>0, <1>2, <2>1, MissingTypes DEF Missing, Purposes
  <2> QED
    BY <1>0, <1>3, <1>4, <2>2 DEF MissingInv
<1>5. CASE usage' = usage /\ faults' = faults + 1
  <2>1. Missing' = Missing + 1
    BY <1>0, <1>2, <1>5, MissingTypes DEF Missing, Purposes
  <2> HIDE DEF Missing
  <2> QED
    BY <1>0, <1>3, <1>5, <2>1, MissingTypes DEF MissingInv
<1> QED
  BY <1>0, <1>4, <1>5

\* One factor more.
LEMMA OneMoreTimes ==
    ASSUME NEW m \in Nat, NEW n \in Nat
    PROVE  (m + 1) * n = m * n + n /\ m * n \in Int
  OBVIOUS

\* A crash cuts off one recording of a worker, or one of each thread.
LEMMA MissingCrash ==
    ASSUME TypeOK, TypeOK', MissingInv, UNCHANGED <<usage, calls, faults>>, crashes' = crashes + 1,
           NEW S, IsFiniteSet(S), Cardinality(S) \in Nat, Cardinality(S) <= PerCrash,
           Recording' = Recording \ S
    PROVE  MissingInv'
<1>1. /\ IsFiniteSet(Recording \cap S)
      /\ Cardinality(Recording \cap S) \in Nat
      /\ Cardinality(Recording \cap S) <= Cardinality(S)
  <2>1. Recording \cap S \in SUBSET S
    OBVIOUS
  <2> QED
    BY <2>1, FS_Subset, FS_CardinalityType
<1>2. Cardinality(Recording \ S) = Cardinality(Recording) - Cardinality(Recording \cap S)
  BY MissingTypes, FS_Difference
<1>3. Missing' <= Missing + PerCrash
  BY <1>1, <1>2, MissingTypes, PerCrashBounds DEF Missing, Purposes
<1>4. Missing \in Int /\ Missing' \in Int /\ PerCrash' = PerCrash
  BY <1>1, <1>2, MissingTypes DEF Missing, PerCrash, Purposes
<1>5. (crashes + 1) * PerCrash = crashes * PerCrash + PerCrash /\ crashes * PerCrash \in Int
  BY MissingTypes, PerCrashBounds, OneMoreTimes
<1> HIDE DEF Missing
<1> QED
  BY <1>3, <1>4, <1>5, MissingTypes, PerCrashBounds DEF MissingInv

\* Every step keeps the bound.
LEMMA MissingStep == TypeOK /\ TypeOK' /\ MissingInv /\ [Next]_vars => MissingInv'
<1> SUFFICES ASSUME TypeOK, TypeOK', MissingInv, [Next]_vars PROVE MissingInv'
  OBVIOUS
<1> USE DEF redis, table, spend, bounds
<1>1. ASSUME UNCHANGED <<usage, calls, crashes>>, faults' = faults \/ faults' = faults + 1,
             NEW r \in Runners, NEW place \in {"idle", "load", "call", "ack"}, Goto(r, place),
             pc[r] \notin {"record", "recordError"}
      PROVE  MissingInv'
  <2>1. Recording' = Recording
    BY <1>1 DEF Recording, Goto, TypeOK
  <2> QED
    BY <1>1, <2>1, MissingUntouched
<1>2. ASSUME UNCHANGED <<usage, calls, crashes, faults, pc>> PROVE MissingInv'
  BY <1>2, MissingUntouched DEF Recording
<1>3. ASSUME NEW w \in Workers, NEW j \in Jobs, StartJob(w, j) PROVE MissingInv'
  BY <1>1, <1>3 DEF StartJob, Runners
<1>4. ASSUME NEW r \in Runners, MarkRunning(r) PROVE MissingInv'
  BY <1>1, <1>4 DEF MarkRunning, CommitFails
<1>5. ASSUME NEW r \in Runners, MarkSucceeded(r) \/ MarkFailed(r) PROVE MissingInv'
  BY <1>1, <1>5 DEF MarkSucceeded, MarkFailed, EndJob, CommitFails
<1>6. ASSUME NEW r \in Runners, StoreReview(r) PROVE MissingInv'
  BY <1>1, <1>6 DEF StoreReview, CommitFails
<1>7. ASSUME NEW r \in Runners, Acknowledge(r) PROVE MissingInv'
  BY <1>1, <1>7 DEF Acknowledge
<1>8. ASSUME NEW t \in Threads, NEW x \in {Direct, Review}, AskDirectly(t, x) PROVE MissingInv'
  BY <1>1, <1>8 DEF AskDirectly, Runners
<1>9. ASSUME NEW w \in Workers, WorkerCrash(w) PROVE MissingInv'
  <2>1. Recording' = Recording \ {w}
    BY <1>9 DEF WorkerCrash, Goto, TypeOK, Recording
  <2>2. IsFiniteSet({w}) /\ Cardinality({w}) = 1
    BY FS_Singleton
  <2> QED
    BY <1>9, <2>1, <2>2, PerCrashBounds, MissingCrash DEF WorkerCrash
<1>10. CASE ApiCrash
  <2>1. Recording' = Recording \ Threads
    BY <1>10 DEF ApiCrash, TypeOK, Recording
  <2> QED
    BY <1>10, <2>1, PerCrashBounds, MissingCrash DEF ApiCrash
<1>11. ASSUME NEW j \in Jobs, CreateJob(j) \/ Enqueue(j) \/ RejectJob(j) \/ DropJob(j)
       PROVE  MissingInv'
  <2>1. UNCHANGED <<usage, calls, crashes, pc>>
    BY <1>11 DEF CreateJob, Enqueue, RejectJob, DropJob
  <2>2. faults' = faults \/ faults' = faults + 1
    BY <1>11 DEF CreateJob, Enqueue, RejectJob, DropJob, CommitFails
  <2> QED
    BY <2>1, <2>2, MissingUntouched DEF Recording
<1>12. ASSUME NEW w \in Workers, LockExpires(w) PROVE MissingInv'
  BY <1>2, <1>12 DEF LockExpires
<1>13. CASE UNCHANGED vars
  BY <1>2, <1>13 DEF vars
<1> QED
  BY <1>3, <1>4, <1>5, <1>6, <1>7, <1>8, <1>9, <1>10, <1>11, <1>12, <1>13,
     MissingCall, MissingRecorded DEF Next, RunStep

\* The calls a purpose misses, added up over the purposes.
LEMMA MissingByPurpose ==
    ASSUME TypeOK
    PROVE  MapThenSumSet(LAMBDA x : calls[x] - usage[x] - Cardinality(Unsettled(x)), Purposes)
             = Missing
<1> DEFINE miss == [x \in Purposes |-> calls[x] - usage[x] - Cardinality(Unsettled(x))]
           byLambda(g) == [T \in SUBSET Purposes |->
             IF T = {} THEN 0
             ELSE LET x == CHOOSE x \in T : TRUE
                  IN  (calls[x] - usage[x] - Cardinality(Unsettled(x))) + g[T \ {x}]]
           byFunction(g) == [T \in SUBSET Purposes |->
             IF T = {} THEN 0
             ELSE LET x == CHOOSE x \in T : TRUE IN miss[x] + g[T \ {x}]]
<1>1. MapThenSumSet(LAMBDA x : calls[x] - usage[x] - Cardinality(Unsettled(x)), Purposes)
        = (CHOOSE g : g = byLambda(g))[Purposes]
  BY DEF MapThenSumSet, MapThenFoldSet
<1>2. SumFunctionOnSet(miss, Purposes) = (CHOOSE g : g = byFunction(g))[Purposes]
  BY SumIsFold DEF IsSum
<1>3. ASSUME NEW g PROVE byLambda(g) = byFunction(g)
  <2>1. \A T \in SUBSET Purposes : T # {} =>
          LET x == CHOOSE x \in T : TRUE
          IN  miss[x] = calls[x] - usage[x] - Cardinality(Unsettled(x))
    OBVIOUS
  <2> HIDE DEF miss
  <2> QED
    BY <2>1
<1> DEFINE size == [x \in Purposes |-> Cardinality(Unsettled(x))]
           part == [x \in Purposes |-> Unsettled(x)]
           owed == [x \in Purposes |-> calls[x] - usage[x]]
<1>4. SumFunctionOnSet(size, Purposes) = Cardinality(Recording)
  <2>1. \A x \in Purposes : /\ part[x] = {r \in Recording : work[r] = x}
                            /\ size[x] = Cardinality(part[x])
    BY DEF Unsettled, Recording
  <2>2. \A r \in Recording : work[r] \in Purposes
    BY DEF Recording, TypeOK
  <2> HIDE DEF size, part
  <2> QED
    BY <2>1, <2>2, PurposesFinite, MissingTypes, SumOfSizes
<1>5. \A x \in Purposes : /\ size[x] \in Int /\ owed[x] \in Int /\ miss[x] \in Int
                          /\ calls[x] \in Int /\ usage[x] \in Int
                          /\ calls[x] = owed[x] + usage[x]
                          /\ owed[x] = miss[x] + size[x]
  BY RunnersFinite DEF TypeOK, Unsettled
<1> HIDE DEF byLambda, byFunction, miss, size, owed
<1>6. (CHOOSE g : g = byLambda(g)) = (CHOOSE g : g = byFunction(g))
  BY <1>3
<1>7. SumFunctionOnSet(calls, Purposes)
        = SumFunctionOnSet(owed, Purposes) + SumFunctionOnSet(usage, Purposes)
  BY <1>5, PurposesFinite, SumBoth
<1>8. SumFunctionOnSet(owed, Purposes)
        = SumFunctionOnSet(miss, Purposes) + SumFunctionOnSet(size, Purposes)
  BY <1>5, PurposesFinite, SumBoth
<1>9. /\ SumFunctionOnSet(miss, Purposes) \in Int /\ SumFunctionOnSet(size, Purposes) \in Int
      /\ SumFunctionOnSet(owed, Purposes) \in Int
  BY <1>5, PurposesFinite, SumPick
<1>10. SumFunctionOnSet(miss, Purposes) = Missing
  BY <1>4, <1>7, <1>8, <1>9, MissingTypes DEF Missing
<1> QED
  BY <1>1, <1>2, <1>6, <1>10 DEF miss

\* MissingUsageIsExplained: but for the calls that are recorded right now, the ledger of
\* Anthropic calls lacks at most one row for each failed commit and each crash of a worker,
\* and one for each thread of the API that a crash of it cuts off.
THEOREM MissingUsageIsExplainedAlways == Spec => []MissingUsageIsExplained
<1>1. Init => MissingInv
  <2> SUFFICES ASSUME Init PROVE MissingInv
    OBVIOUS
  <2>1. Recording = {} /\ Cardinality(Recording) = 0
    BY FS_EmptySet DEF Init, Recording
  <2>2. SumFunctionOnSet(calls, Purposes) = 0 /\ SumFunctionOnSet(usage, Purposes) = 0
    BY PurposesFinite, SumZero DEF Init
  <2>3. crashes = 0 /\ faults = 0 /\ PerCrash \in Nat
    BY PerCrashBounds DEF Init
  <2> QED
    BY <2>1, <2>2, <2>3 DEF MissingInv, Missing
<1>2. TypeOK /\ MissingInv => MissingUsageIsExplained
  BY MissingByPurpose DEF MissingInv, MissingUsageIsExplained, PerCrash
<1> QED
  BY <1>1, <1>2, MissingStep, TypeCorrect, PTL DEF Spec
=============================================================================
