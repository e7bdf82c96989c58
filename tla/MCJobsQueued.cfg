\* An enqueue error means that nothing was enqueued, workers crash less often than arq
\* retries, the database answers: what a polling client sees.
CONSTANTS
    Jobs = {j1, j2}
    Workers = {w1, w2}
    Threads = {}
    EnqueueOutcomes = {"queued", "refused"}
    MaxTries = 3
    MaxCrashes = 2
    MaxLapses = 0
    MaxFaults = 0
    MaxDirect = 0
    Direct = Direct
    Review = Review
SPECIFICATION FairSpec
PROPERTIES
    ImplementsLifecycle
    AcceptedJobsEnd
\* Every job is done and every bound used up: nothing is left to do.
CHECK_DEADLOCK FALSE
