\* Redis comes and goes: requests enqueue, fall back to an inline sync, or do both;
\* one API thread and one arq worker, each a process of its own, both crash.
CONSTANTS
    None = None
    oauthConn = oauthConn
    keyConn = keyConn
    demoConn = demoConn
    oauthAcct = oauthAcct
    keyAcct = keyAcct
    demoAcct = demoAcct
    platformAcct = platformAcct
    api1 = api1
    api2 = api2
    worker1 = worker1
    worker2 = worker2
    PlatformAccount = platformAcct
    Conns <- WithDemoConns
    Accounts <- WithDemoAccounts
    AccountOf <- WithDemoAccountOf
    AuthMethod <- WithDemoAuthMethod
    ApiRunners = {api1}
    Workers = {worker1}
    ProcessOf <- OwnProcess
    KeyedProcesses = {api1}
    DemoConns = {demoConn}
    EnqueueOutcomes = {"queued", "refused", "reply_lost"}
    LogIds = {l1, l2}
    MaxVersion = 1
    MaxFaults = 1
    MaxCrashes = 1
SPECIFICATION Spec
SYMMETRY LogSymmetry
INVARIANTS
    OwnAccountRows
    DisconnectIsFinal
    StateHasTrail
