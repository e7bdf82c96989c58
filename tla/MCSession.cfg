\* Two tabs, the second opened some time later, or the first reloaded; two calls open at
\* a time in one of them or in both; one answer is lost.
CONSTANTS
    Slots = {s1, s2}
    MaxTokens = 10
    Tabs = {tab1, tab2}
    Calls = {c1, c2}
    MaxSignIns = 1
    MaxAges = 2
    MaxLost = 1
    MaxLoads = 1
    MaxOpen = 2
    None = None
SPECIFICATION FairSpec
INVARIANTS
    OneRotationPerToken
    NoOrphans
PROPERTIES
    KeepsWorkingTokens
    CallsEnd
\* The session is over and every bound used up: nothing is left to do.
CHECK_DEADLOCK FALSE
