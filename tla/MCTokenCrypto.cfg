\* Two connections, an API process and a worker, two keys.
CONSTANTS
    TokenRows = {r1, r2}
    Procs = {api, worker}
    FernetKeys = {k1, k2}
    Old = Old
    MaxWrites = 2
    MaxEvents = 4
SPECIFICATION CryptoSpec
INVARIANTS
    ReadsBack
    SealedAfterMigration
\* The bounds are used up.
CHECK_DEADLOCK FALSE
