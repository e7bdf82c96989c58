---------------------------- MODULE TokenCrypto ----------------------------
(***************************************************************************)
(* The credentials of Stripe connections at rest: the EncryptedString      *)
(* column, its key, and the migration that encrypts the rows of earlier    *)
(* releases, which runs at the start of a deployment while processes of    *)
(* the release before, and of this one, read and write the table.          *)
(*                                                                         *)
(* Abstractions.  A credential is the number of the write to its row; a     *)
(* stored value is a credential under the keys that sealed it, the last    *)
(* one outermost.  Fernet never takes a value for sealed by a key that did *)
(* not seal it.                                                            *)
(***************************************************************************)
EXTENDS Integers, Sequences, FiniteSets

CONSTANTS
    TokenRows,          \* connections, with one credential each
    Procs,              \* processes of the API and the worker
    FernetKeys,         \* values the key in the settings can have
    Old,                \* in place of a key: a process of the release before
    MaxWrites,          \* bound on the credentials stored in a row
    MaxEvents           \* bound on restarts, key changes and dead migrations

ASSUME CryptoAssumption ==
    /\ Old \notin FernetKeys
    /\ MaxWrites \in Nat /\ MaxEvents \in Nat

VARIABLES
    stored,             \* the column: [token, seals]
    configured,         \* the key the settings name
    key,                \* the key a process has cached, or Old
    migration,          \* at, its key, the rows as it read them, and those it has updated
    events,             \* restarts, key changes and dead migrations so far
    token,              \* history: the last credential written to a row
    sealers,            \* history: the keys used on a row since then
    raced,              \* history: rows written between the migration's SELECT and UPDATE
    late                \* history: rows the release before wrote after that SELECT

history == <<token, sealers, raced, late>>
cryptoVars == <<stored, configured, key, migration, events, history>>

Plain(n) == [token |-> n, seals |-> <<>>]

\* encrypt; the release before stores the value as it is.
Encrypt(k, v) == IF k = Old THEN v ELSE [v EXCEPT !.seals = Append(@, k)]

IsEncrypted(k, v) == v.seals # <<>> /\ v.seals[Len(v.seals)] = k

\* Fault: every row of the table is sealed.
AnyValue(k, v) == TRUE

\* The rows the migration rewrites.
NeedsSealing(k, v) == ~IsEncrypted(k, v)

\* decrypt: what the key did not seal is taken for plaintext.
Decrypt(k, v) ==
    IF IsEncrypted(k, v) THEN [v EXCEPT !.seals = SubSeq(@, 1, Len(@) - 1)] ELSE v

NoMigration == [at |-> "pending", key |-> Old, rows |-> stored, updated |-> {}]

Rewrites(r) ==
    migration.at = "running" /\ NeedsSealing(migration.key, migration.rows[r])

-----------------------------------------------------------------------------
(* The processes.                                                          *)

\* A flow stores a credential: it waits for a row the migration has updated.
Write(p, r) ==
    /\ token[r] < MaxWrites
    /\ migration.at = "running" => r \notin migration.updated
    /\ token' = [token EXCEPT ![r] = @ + 1]
    /\ stored' = [stored EXCEPT ![r] = Encrypt(key[p], Plain(token[r] + 1))]
    /\ sealers' = [sealers EXCEPT ![r] = {key[p]} \ {Old}]
    /\ raced' = IF Rewrites(r) THEN raced \cup {r} ELSE raced \ {r}
    /\ late' = IF key[p] = Old /\ migration.at # "pending" THEN late \cup {r} ELSE late \ {r}
    /\ UNCHANGED <<configured, key, migration, events>>

Happens == events < MaxEvents /\ events' = events + 1

\* The process comes back in this release; _fernet caches the key of the settings.
Restart(p) ==
    /\ Happens
    /\ key' = [key EXCEPT ![p] = configured]
    /\ UNCHANGED <<stored, configured, migration, history>>

\* TOKEN_ENCRYPTION_KEY is set, or ACCESS_TOKEN_SECRET changes under it.
Reconfigure(k) ==
    /\ Happens
    /\ configured' = k
    /\ UNCHANGED <<stored, key, migration, history>>

-----------------------------------------------------------------------------
(* alembic upgrade head, in a process of its own.                          *)

\* The SELECT of all rows.
MigrationReads ==
    /\ migration.at = "pending"
    /\ migration' = [at |-> "running", key |-> configured, rows |-> stored, updated |-> {}]
    /\ UNCHANGED <<stored, configured, key, events, history>>

\* The UPDATE of a row by its id, whatever it holds by now; nobody sees it yet.
MigrationUpdates(r) ==
    /\ Rewrites(r) /\ r \notin migration.updated
    /\ migration' = [migration EXCEPT !.updated = @ \cup {r}]
    /\ UNCHANGED <<stored, configured, key, events, history>>

\* The rows and the revision in one commit: the migration is not run again.
MigrationCommits ==
    LET m == migration IN
    /\ m.at = "running" /\ \A r \in TokenRows : Rewrites(r) => r \in m.updated
    /\ stored' = [r \in TokenRows |->
                  IF r \in m.updated THEN Encrypt(m.key, m.rows[r]) ELSE stored[r]]
    /\ sealers' = [r \in TokenRows |-> sealers[r] \cup (IF r \in m.updated THEN {m.key} ELSE {})]
    /\ migration' = [m EXCEPT !.at = "done", !.updated = {}]
    /\ UNCHANGED <<configured, key, events, token, raced, late>>

\* Fault: the revision is stamped in a transaction of its own, before the rows.
DiesAfterStamp ==
    /\ migration.at = "running"
    /\ Happens
    /\ migration' = [migration EXCEPT !.at = "done", !.updated = {}]
    /\ raced' = {}
    /\ UNCHANGED <<stored, configured, key, token, sealers, late>>

\* It dies and is rolled back: what was written meanwhile stays.
MigrationDies ==
    /\ migration.at = "running"
    /\ Happens
    /\ migration' = [migration EXCEPT !.at = "pending", !.updated = {}]
    /\ raced' = {}
    /\ UNCHANGED <<stored, configured, key, token, sealers, late>>

CryptoInit ==
    /\ stored = [r \in TokenRows |-> Plain(0)]
    /\ configured \in FernetKeys
    /\ key = [p \in Procs |-> Old]
    /\ migration = NoMigration
    /\ events = 0
    /\ token = [r \in TokenRows |-> 0]
    /\ sealers = [r \in TokenRows |-> {}]
    /\ raced = {} /\ late = {}

CryptoNext ==
    \/ \E p \in Procs, r \in TokenRows : Write(p, r)
    \/ \E p \in Procs : Restart(p)
    \/ \E k \in FernetKeys : Reconfigure(k)
    \/ MigrationReads \/ MigrationCommits \/ MigrationDies
    \/ \E r \in TokenRows : MigrationUpdates(r)

CryptoSpec == CryptoInit /\ [][CryptoNext]_cryptoVars

-----------------------------------------------------------------------------
(* Properties.                                                             *)

\* A process reads the credential last stored: through a mixed release, a migration
\* that dies and runs again, and writes of other processes, unless a key other than its
\* own was used on the row, or the row was written under the eyes of the migration.
ReadsBack ==
    \A p \in Procs, r \in TokenRows :
      r \notin raced /\ sealers[r] \subseteq {key[p]} =>
        Decrypt(key[p], stored[r]) = Plain(token[r])

\* Once the migration is through nothing lies in plaintext but what the release before
\* wrote after it had read the table.
SealedAfterMigration ==
    migration.at = "done" => \A r \in TokenRows : stored[r].seals = <<>> => r \in late
=============================================================================
