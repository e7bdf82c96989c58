\* Redis is up: the threads of one API process only enqueue; one arq worker, a process of
\* its own that may crash, runs every sync.
CONSTANTS
    None = None
    oauthConn = oauthConn
    keyConn = keyConn
    demoConn = demoConn
    oauthAcct = oauthAcct
    keyAcct = keyAcct
    demoAcct = demoAcct
    platformAcct = platformAcct
    api1 = api1
    api2 = api2
    worker1 = worker1
    worker2 = worker2
    PlatformAccount = platformAcct
    Conns <- OneConn
    Accounts <- OneAccounts
    AccountOf <- OneAccountOf
    AuthMethod <- OneAuthMethod
    ApiRunners = {api1, api2}
    Workers = {worker1}
    ProcessOf <- SharedApiProcess
    KeyedProcesses = {api1, worker1}
    DemoConns = {}
    EnqueueOutcomes = {"queued"}
    LogIds = {l1, l2}
    MaxVersion = 2
    MaxFaults = 2
    MaxCrashes = 2
SPECIFICATION FairSpec
PROPERTIES
    SuccessIsFresh
    RerunIsSafe
    ImplementsMirror
    QueuedSyncIsReported
