\* Crashes, expired locks, failed commits and lost replies, two jobs, two workers, and
\* a request thread with calls of its own.
CONSTANTS
    Jobs = {j1, j2}
    Workers = {w1, w2}
    Threads = {t1}
    EnqueueOutcomes = {"queued", "refused", "reply_lost"}
    MaxTries = 2
    MaxCrashes = 1
    MaxLapses = 1
    MaxFaults = 1
    MaxDirect = 1
    Direct = Direct
    Review = Review
SPECIFICATION Spec
SYMMETRY JobAndWorkerSymmetry
INVARIANTS
    MissingUsageIsExplained
    ResultIsBilled
    RepeatsAreExplained
    EndedJobsStay
\* Every job is done and every bound used up: nothing is left to do.
CHECK_DEADLOCK FALSE
