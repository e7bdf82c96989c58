\* Two API processes, one with two threads, two organizations, two flows, keys of both kinds.
CONSTANTS
    None = None
    acctA = acctA
    platformAcct = platformAcct
    readKey = readKey
    blindKey = blindKey
    Orgs = {o1, o2}
    Accounts <- TwoAccounts
    PlatformAccount = platformAcct
    Keys = {readKey, blindKey}
    KeyAccount <- KeyOwners
    AccountRead = {readKey}
    States = {st1, st2}
    t1 = t1
    t2 = t2
    t3 = t3
    first = first
    second = second
    Threads = {t1, t2, t3}
    ProcessOf <- TwoProcesses
    KeyedProcesses = {first}
    MaxRequests = 3
SPECIFICATION Spec
SYMMETRY Symmetry
INVARIANTS
    CredentialFitsRow
    RowIsConsented
    OneRowPerAccount
PROPERTIES
    DeletedIsFinal
\* Every flow is over and every bound used up: nothing is left to do.
CHECK_DEADLOCK FALSE
