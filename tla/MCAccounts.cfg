\* Two threads and three tasks: a run that dies, its repetition, and a rival.
CONSTANTS
    Threads = {t1, t2}
    ann = ann
    bob = bob
    demo = demo
    Identities <- Asked
    Demo <- DemoId
    TestUsers <- Seeds
    MaxTasks = 3
    None = None
SPECIFICATION FairSpec
INVARIANTS
    OneAccountPerIdentity
    EveryUserHasAWorkspace
    AnswersHold
    DeadlocksNeedSeedDb
    SeededOnce
PROPERTIES
    TasksEnd
\* Every task has begun and ended.
CHECK_DEADLOCK FALSE
