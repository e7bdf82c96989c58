\* Two request threads of one API process sync inline: the process-wide key.
CONSTANTS
    None = None
    oauthConn = oauthConn
    keyConn = keyConn
    demoConn = demoConn
    oauthAcct = oauthAcct
    keyAcct = keyAcct
    demoAcct = demoAcct
    platformAcct = platformAcct
    api1 = api1
    api2 = api2
    worker1 = worker1
    worker2 = worker2
    PlatformAccount = platformAcct
    Conns <- BothConns
    Accounts <- AllAccounts
    AccountOf <- BothAccountOf
    AuthMethod <- BothAuthMethod
    ApiRunners = {api1, api2}
    Workers = {}
    ProcessOf <- SharedApiProcess
    KeyedProcesses = {api1}
    DemoConns = {}
    EnqueueOutcomes = {"refused"}
    LogIds = {l1, l2}
    MaxVersion = 1
    MaxFaults = 0
    MaxCrashes = 0
SPECIFICATION Spec
SYMMETRY LogSymmetry
INVARIANTS
    OwnAccountRows
CHECK_DEADLOCK FALSE
