---------------------------- MODULE StripeSync ----------------------------
(***************************************************************************)
(* Mirroring Stripe accounts: POST /connections/{id}/sync, the arq job     *)
(* run_stripe_sync_job, the nightly fan-out and StripeSyncService.sync,    *)
(* together with the handlers that connect and disconnect an account.      *)
(*                                                                         *)
(* A runner is a thread of control that serves one request or one job at a *)
(* time: a request thread of an API process, or an arq worker (whose job   *)
(* has no await, so a worker process runs one job at a time).  Runners of  *)
(* one process share stripe.api_key, a module global of stripe-python.     *)
(*                                                                         *)
(* Abstractions.  A key is represented by the account it authenticates     *)
(* as.  An account is a version number, bumped by every edit made at       *)
(* Stripe; version 0 is an account with no objects yet.  A mirrored row is *)
(* the version its columns were copied from.  Only what a transaction      *)
(* commits is visible; one action is the code between two network calls or *)
(* commits.                                                                *)
(***************************************************************************)
EXTENDS Integers, FiniteSets, FiniteSetsExt

CONSTANTS
    Conns,              \* platform_connections ids
    Accounts,           \* Stripe accounts, the platform's own among them
    PlatformAccount,    \* the account STRIPE_SECRET_KEY authenticates as
    AccountOf,          \* AccountOf[c]: platform_connections.account_id
    AuthMethod,         \* AuthMethod[c]: platform_connections.auth_method
    ApiRunners,         \* request threads of the API processes
    Workers,            \* arq worker processes
    ProcessOf,          \* the process a runner lives in
    KeyedProcesses,     \* the processes that have STRIPE_SECRET_KEY, which is optional
    DemoConns,          \* the connections seed_demo_data.py makes, to accounts Stripe lacks
    EnqueueOutcomes,    \* what enqueue_job can do in this deployment
    LogIds,             \* sync_logs ids (bound on the rows ever inserted)
    MaxVersion,         \* bound on the edits made at Stripe to one account
    MaxCrashes,         \* bound on process crashes
    MaxFaults,          \* bound on commits the database fails
    None                \* SQL NULL, no header, no key

Runners == ApiRunners \cup Workers
Processes == {ProcessOf[r] : r \in Runners}
Resources == {"customers", "subscriptions", "charges"}

\* arq drops a job that was started this often (its max_tries default).
ArqMaxTries == 5

ASSUME ConstantsAssumption ==
    /\ None \notin Accounts \cup Conns \cup LogIds
    /\ PlatformAccount \in Accounts
    /\ AccountOf \in [Conns -> Accounts]
    /\ AuthMethod \in [Conns -> {"oauth", "restricted_key"}]
    /\ ApiRunners \cap Workers = {}
    /\ IsFiniteSet(ApiRunners) /\ IsFiniteSet(Workers)
    /\ ProcessOf \in [Runners -> Processes]
    /\ EnqueueOutcomes \subseteq {"queued", "refused", "reply_lost"}
    /\ KeyedProcesses \subseteq Processes
    /\ DemoConns \subseteq Conns
    /\ \A c \in DemoConns : AuthMethod[c] = "oauth"
    /\ {MaxVersion, MaxFaults} \subseteq Nat
    /\ MaxCrashes \in 0 .. (ArqMaxTries - 1)

VARIABLES
    status,             \* platform_connections.status; "new": id not issued yet
    lastSync,           \* platform_connections.last_sync_status
    mirror,             \* mirror[c][res][a]: version of a's rows under c, 0: no row
    logConn,            \* sync_logs.connection_id
    logStatus,          \* sync_logs.status
    version,            \* version[a]: state of account a at Stripe
    apiKey,             \* stripe.api_key of each process
    queue,              \* queue[c]: run_stripe_sync_job messages for c in Redis
    pc,                 \* where a runner stands
    target,             \* the connection a runner works for
    row,                \* the sync_logs row a run created
    pulled,             \* the rows in the session of a run, not yet committed
    since,              \* history: the account's version when the run began
    crashes,            \* crashes so far
    faults,             \* commits that failed so far
    lost                \* history: lost[c]: runs for c such a commit left unreported

database == <<status, lastSync, mirror, logConn, logStatus>>
session == <<target, row, pulled, since>>
mishaps == <<crashes, faults, lost>>
vars == <<database, version, apiKey, queue, pc, session, mishaps>>

-----------------------------------------------------------------------------
(* The database.                                                           *)

Statuses == {"new", "active", "error", "deleted"}
Connected(c) == status[c] \in {"active", "error"}

NoMirror == [res \in Resources |-> [a \in Accounts |-> 0]]

\* A row the session holds: the version read from the table (0: it was absent,
\* the flush will INSERT) and the version Stripe returned (0: no object).
NothingPulled == [res \in Resources |-> [acct |-> None, base |-> 0, ver |-> 0]]

FreeLogIds == {l \in LogIds : logStatus[l] = "unused"}

\* Work accepted that will still insert a sync_logs row.
RowsOwed ==
    MapThenSumSet(LAMBDA c : queue[c], Conns)
      + Cardinality({r \in Runners : pc[r] \in {"pending", "configure", "open"}})

\* The bound LogIds: new work is accepted only while ids remain for all of it.
Room(n) == Cardinality(FreeLogIds) >= RowsOwed + n

InsertLog(l, c) ==
    /\ l \in FreeLogIds
    /\ logConn' = [logConn EXCEPT ![l] = c]
    /\ logStatus' = [logStatus EXCEPT ![l] = "running"]

-----------------------------------------------------------------------------
(* Stripe.                                                                 *)

KeyFor(c) == IF AuthMethod[c] = "restricted_key" THEN AccountOf[c] ELSE PlatformAccount

\* Made up by the script: no account at Stripe has such an id.
DemoAccounts == {AccountOf[c] : c \in DemoConns}

\* Fault: the call kwargs never name the connected account.
NoHeaderFor(c) == None

HeaderFor(c) == IF AuthMethod[c] = "restricted_key" THEN None ELSE AccountOf[c]

\* Fault: Stripe is asked for the key's own account whatever the header says.
AnswersForKey(key, header) == key

\* The account whose objects a list call returns, None for a rejected call: only
\* the platform's key may name another account in the stripe_account header.
Answers(key, header) ==
    IF header = None THEN key
    ELSE IF key = PlatformAccount /\ header \notin DemoAccounts THEN header ELSE None

Edit(a) ==
    /\ a \notin DemoAccounts
    /\ version[a] < MaxVersion
    /\ version' = [version EXCEPT ![a] = @ + 1]
    /\ UNCHANGED <<database, apiKey, queue, pc, session, mishaps>>

-----------------------------------------------------------------------------
(* Handlers that connect and disconnect an account.                        *)

Idle(r) == pc[r] = "idle"

SetKey(r, key) == apiKey' = [apiKey EXCEPT ![ProcessOf[r]] = key]

\* The key _configure_auth needs: the connection's own, or the platform's.
HasKey(r, c) == AuthMethod[c] = "restricted_key" \/ ProcessOf[r] \in KeyedProcesses

\* The OAuth callback and the API-key form: both authenticate first, then insert
\* the connection or refresh the existing row.
Connect(r, c) ==
    /\ Idle(r)
    /\ c \notin DemoConns
    /\ status[c] # "deleted"
    /\ HasKey(r, c)
    /\ SetKey(r, KeyFor(c))
    /\ status' = [status EXCEPT ![c] = "active"]
    /\ UNCHANGED <<lastSync, mirror, logConn, logStatus, version, queue, pc,
                   session, mishaps>>

\* scripts/seed_demo_data.py: a connection that says its last sync was a success, and
\* has none.  Its made-up rows copy no account: the mirror leaves them out.
SeedDemo(c) ==
    /\ c \in DemoConns
    /\ status[c] = "new"
    /\ status' = [status EXCEPT ![c] = "active"]
    /\ lastSync' = [lastSync EXCEPT ![c] = "success"]
    /\ UNCHANGED <<mirror, logConn, logStatus, version, apiKey, queue, pc, session, mishaps>>

\* disconnect(): revoke an OAuth grant, where the platform's key is there to ask with,
\* and delete the row; the foreign keys cascade to the mirror and to sync_logs.
Disconnect(r, c) ==
    /\ Idle(r)
    /\ Connected(c)
    /\ IF AuthMethod[c] = "oauth" /\ HasKey(r, c)
       THEN SetKey(r, PlatformAccount) ELSE UNCHANGED apiKey
    /\ status' = [status EXCEPT ![c] = "deleted"]
    /\ lastSync' = [lastSync EXCEPT ![c] = None]
    /\ mirror' = [mirror EXCEPT ![c] = NoMirror]
    /\ logStatus' = [l \in LogIds |->
                       IF logConn[l] = c THEN "deleted" ELSE logStatus[l]]
    /\ UNCHANGED <<logConn, version, queue, pc, session, mishaps>>

-----------------------------------------------------------------------------
(* Accepting work.                                                         *)

Begin(r, c, at) ==
    /\ pc' = [pc EXCEPT ![r] = at]
    /\ target' = [target EXCEPT ![r] = c]
    /\ UNCHANGED <<row, pulled, since>>

\* POST /connections/{id}/sync.  An error from Redis leads to an inline sync,
\* also when the message got through and only the reply (or close) failed.
TriggerSync(r, c) ==
    /\ Idle(r)
    /\ Connected(c)
    /\ \E outcome \in EnqueueOutcomes :
         /\ Room(IF outcome = "refused" THEN 1 ELSE 2)
         /\ queue' = IF outcome = "refused" THEN queue
                     ELSE [queue EXCEPT ![c] = @ + 1]
         /\ Begin(r, c, IF outcome = "queued" THEN "pending" ELSE "configure")
    /\ UNCHANGED <<database, version, apiKey, mishaps>>

EndRun(r) ==
    /\ pc' = [pc EXCEPT ![r] = "idle"]
    /\ target' = [target EXCEPT ![r] = None]
    /\ row' = [row EXCEPT ![r] = None]
    /\ pulled' = [pulled EXCEPT ![r] = NothingPulled]
    /\ since' = [since EXCEPT ![r] = 0]

\* After a successful enqueue: a "running" row, so that the client has an id.  The
\* insert fails on the foreign key when the connection went away meanwhile.
WritePendingLog(r) ==
    /\ pc[r] = "pending"
    /\ IF Connected(target[r])
       THEN \E l \in LogIds : InsertLog(l, target[r])
       ELSE UNCHANGED <<logConn, logStatus>>
    /\ EndRun(r)
    /\ UNCHANGED <<status, lastSync, mirror, version, apiKey, queue, mishaps>>

\* cron_sync_all_stripe, a job of a worker: a message for every active connection.
CronFanOut(w) ==
    LET active == {c \in Conns : status[c] = "active"} IN
    /\ Idle(w)
    /\ Room(Cardinality(active))
    /\ queue' = [c \in Conns |-> IF c \in active THEN queue[c] + 1 ELSE queue[c]]
    /\ UNCHANGED <<database, version, apiKey, pc, session, mishaps>>

\* run_stripe_sync_job: a message for a connection that is gone is done at once.
StartJob(w, c) ==
    /\ Idle(w)
    /\ queue[c] > 0
    /\ queue' = [queue EXCEPT ![c] = @ - 1]
    /\ IF Connected(c) THEN Begin(w, c, "configure") ELSE UNCHANGED <<pc, session>>
    /\ UNCHANGED <<database, version, apiKey, mishaps>>

-----------------------------------------------------------------------------
(* StripeSyncService.sync.                                                 *)

\* Without the platform's key it raises before there is a log row and outside the try:
\* the request answers 502, the job swallows it, and the sync is reported nowhere.
ConfigureAuth(r) ==
    /\ pc[r] = "configure"
    /\ \/ /\ HasKey(r, target[r])
          /\ SetKey(r, KeyFor(target[r]))
          /\ pc' = [pc EXCEPT ![r] = "open"]
          /\ UNCHANGED session
       \/ /\ ~HasKey(r, target[r])
          /\ EndRun(r)
          /\ UNCHANGED apiKey
    /\ UNCHANGED <<database, version, queue, mishaps>>

\* Commit the "running" row; for a connection that is gone the insert is refused
\* and the exception leaves sync, before its try.
OpenLog(r) ==
    /\ pc[r] = "open"
    /\ \/ /\ Connected(target[r])
          /\ \E l \in LogIds :
               /\ InsertLog(l, target[r])
               /\ row' = [row EXCEPT ![r] = l]
          /\ since' = [since EXCEPT ![r] = version[AccountOf[target[r]]]]
          /\ pulled' = [pulled EXCEPT ![r] = NothingPulled]
          /\ pc' = [pc EXCEPT ![r] = "customers"]
          /\ UNCHANGED target
       \/ /\ ~Connected(target[r])
          /\ EndRun(r)
          /\ UNCHANGED <<logConn, logStatus>>
    /\ UNCHANGED <<status, lastSync, mirror, version, apiKey, queue, mishaps>>

After == [customers |-> "subscriptions", subscriptions |-> "charges", charges |-> "store"]

\* One X.list(...) with the upserts of its rows: the key is the one the process
\* holds now, the rows already in the table are looked up, nothing is flushed.
\* The first lookup reloads the connection, which fails when it is gone.
Pull(r) ==
    LET res == pc[r]
        c == target[r]
        acct == Answers(apiKey[ProcessOf[r]], HeaderFor(c)) IN
    /\ res \in Resources
    /\ acct # None
    /\ res = "customers" => Connected(c)
    /\ pulled' = [pulled EXCEPT ![r][res] =
                    [acct |-> acct, base |-> mirror[c][res][acct], ver |-> version[acct]]]
    /\ pc' = [pc EXCEPT ![r] = After[res]]
    /\ UNCHANGED <<database, version, apiKey, queue, target, row, since, mishaps>>

\* A commit or a rollback leaves no uncommitted rows in the session.
GoOn(r, at) ==
    /\ pc' = [pc EXCEPT ![r] = at]
    /\ pulled' = [pulled EXCEPT ![r] = NothingPulled]
    /\ UNCHANGED <<target, row, since>>

\* The call is rejected (Stripe has no demo account), times out, or the connection
\* cannot be reloaded.
PullFails(r) ==
    /\ pc[r] \in Resources
    /\ GoOn(r, "fail")
    /\ UNCHANGED <<database, version, apiKey, queue, mishaps>>

\* Fault: no foreign key from the mirrored tables to the connection.
RefusedDuplicates(r) ==
    \E res \in Resources :
      LET p == pulled[r][res] IN
      p.ver > 0 /\ p.base = 0 /\ mirror[target[r]][res][p.acct] > 0

\* Fault: the upsert inserts without looking the row up.
RefusedInserts(r) ==
    \E res \in Resources :
      LET p == pulled[r][res] IN
      p.ver > 0 /\ (~Connected(target[r]) \/ mirror[target[r]][res][p.acct] > 0)

\* The flush of an inserted row fails when the row exists by now (unique
\* constraint), and of any row when the connection is gone (foreign key).
Refused(r) ==
    \E res \in Resources :
      LET p == pulled[r][res] IN
      /\ p.ver > 0
      /\ \/ ~Connected(target[r])
         \/ p.base = 0 /\ mirror[target[r]][res][p.acct] > 0

\* Fault: an existing row is found and left as it is.
WrittenOnInsert(p, stored) == IF p.base = 0 THEN p.ver ELSE stored

\* A column is written only when it differs from what the session read.
Written(p, stored) == IF p.ver # p.base THEN p.ver ELSE stored

Stored(r, c) ==
    [res \in Resources |-> [a \in Accounts |->
        IF a = pulled[r][res].acct THEN Written(pulled[r][res], mirror[c][res][a])
        ELSE mirror[c][res][a]]]

\* The commit of all pulled rows, in one transaction.
StoreRows(r) ==
    /\ pc[r] = "store"
    /\ \/ /\ Refused(r)
          /\ GoOn(r, "fail")
          /\ UNCHANGED mirror
       \/ /\ ~Refused(r)
          /\ GoOn(r, "finish")
          /\ mirror' = [mirror EXCEPT ![target[r]] = Stored(r, target[r])]
    /\ UNCHANGED <<status, lastSync, logConn, logStatus, version, apiKey, queue, mishaps>>

\* Fault: the outcome is set on the connection, the log row is forgotten.
ReportOnConnection(r, outcome) ==
    /\ lastSync' = [lastSync EXCEPT ![target[r]] = outcome]
    /\ status' = [status EXCEPT ![target[r]] = IF outcome = "success" THEN "active" ELSE "error"]
    /\ UNCHANGED logStatus

\* One commit sets the outcome on the log row and on the connection.
Report(r, outcome) ==
    /\ logStatus' = [logStatus EXCEPT ![row[r]] = outcome]
    /\ lastSync' = [lastSync EXCEPT ![target[r]] = outcome]
    /\ status' = [status EXCEPT ![target[r]] = IF outcome = "success" THEN "active" ELSE "error"]

\* The second commit: the log row and the connection, together.  With the rows
\* gone the UPDATE matches nothing and the except branch takes over.
Finish(r) ==
    /\ pc[r] = "finish"
    /\ \/ /\ Connected(target[r])
          /\ Report(r, "success")
          /\ EndRun(r)
       \/ /\ ~Connected(target[r])
          /\ GoOn(r, "fail")
          /\ UNCHANGED <<logStatus, status, lastSync>>
    /\ UNCHANGED <<mirror, logConn, version, apiKey, queue, mishaps>>

\* The except branch: roll back, mark the log row and the connection.  It raises
\* in turn when they are gone.
RecordFailure(r) ==
    /\ pc[r] = "fail"
    /\ IF Connected(target[r]) THEN Report(r, "failed")
       ELSE UNCHANGED <<logStatus, status, lastSync>>
    /\ EndRun(r)
    /\ UNCHANGED <<mirror, logConn, version, apiKey, queue, mishaps>>

\* The database fails a commit and the except branch takes over; before the try, and in
\* that branch itself, the exception leaves sync and the run ends without a report.
CommitFails(r) ==
    /\ faults < MaxFaults
    /\ faults' = faults + 1
    /\ \/ /\ pc[r] \in {"store", "finish"}
          /\ GoOn(r, "fail")
          /\ UNCHANGED lost
       \/ /\ pc[r] \in {"open", "fail"}
          /\ EndRun(r)
          /\ lost' = [lost EXCEPT ![target[r]] = @ + 1]
       \/ /\ pc[r] = "pending"
          /\ EndRun(r)
          /\ UNCHANGED lost
    /\ UNCHANGED <<database, version, apiKey, queue, crashes>>

-----------------------------------------------------------------------------
\* Fault: a job is removed from Redis when it starts.
LostWithWorker(jobs, c) == 0

\* arq removes a message when its job is done: the messages that come back for c.
Redelivered(jobs, c) == Cardinality({r \in jobs : target[r] = c})

\* A process dies.  Its open transactions are rolled back and its requests are
\* gone; arq gives the job of a dead worker to a worker again.
Crash(p) ==
    LET dead == {r \in Runners : ProcessOf[r] = p}
        jobs == {r \in dead \cap Workers : ~Idle(r)} IN
    /\ crashes < MaxCrashes
    /\ Room(Cardinality(jobs))
    /\ crashes' = crashes + 1
    /\ apiKey' = [apiKey EXCEPT ![p] = None]
    /\ queue' = [c \in Conns |-> queue[c] + Redelivered(jobs, c)]
    /\ pc' = [r \in Runners |-> IF r \in dead THEN "idle" ELSE pc[r]]
    /\ target' = [r \in Runners |-> IF r \in dead THEN None ELSE target[r]]
    /\ row' = [r \in Runners |-> IF r \in dead THEN None ELSE row[r]]
    /\ pulled' = [r \in Runners |-> IF r \in dead THEN NothingPulled ELSE pulled[r]]
    /\ since' = [r \in Runners |-> IF r \in dead THEN 0 ELSE since[r]]
    /\ UNCHANGED <<database, version, faults, lost>>

Init ==
    /\ status = [c \in Conns |-> "new"]
    /\ lastSync = [c \in Conns |-> None]
    /\ mirror = [c \in Conns |-> NoMirror]
    /\ logConn = [l \in LogIds |-> None]
    /\ logStatus = [l \in LogIds |-> "unused"]
    /\ version = [a \in Accounts |-> 0]
    /\ apiKey = [p \in Processes |-> None]
    /\ queue = [c \in Conns |-> 0]
    /\ pc = [r \in Runners |-> "idle"]
    /\ target = [r \in Runners |-> None]
    /\ row = [r \in Runners |-> None]
    /\ pulled = [r \in Runners |-> NothingPulled]
    /\ since = [r \in Runners |-> 0]
    /\ crashes = 0
    /\ faults = 0
    /\ lost = [c \in Conns |-> 0]

RunStep(r) ==
    \/ WritePendingLog(r)
    \/ ConfigureAuth(r)
    \/ OpenLog(r)
    \/ Pull(r)
    \/ PullFails(r)
    \/ StoreRows(r)
    \/ Finish(r)
    \/ RecordFailure(r)

Next ==
    \/ \E a \in Accounts : Edit(a)
    \/ \E c \in DemoConns : SeedDemo(c)
    \/ \E r \in ApiRunners, c \in Conns :
         Connect(r, c) \/ Disconnect(r, c) \/ TriggerSync(r, c)
    \/ \E w \in Workers : CronFanOut(w) \/ \E c \in Conns : StartJob(w, c)
    \/ \E r \in Runners : RunStep(r) \/ CommitFails(r)
    \/ \E p \in Processes : Crash(p)

Spec == Init /\ [][Next]_vars

\* Threads are scheduled, network calls return or time out, and arq polls its
\* queue.  Nothing is assumed of users, of Stripe, or of the cron schedule.
Fairness ==
    /\ \A r \in Runners : WF_vars(RunStep(r))
    /\ \A w \in Workers : WF_vars(\E c \in Conns : StartJob(w, c))

FairSpec == Spec /\ Fairness

-----------------------------------------------------------------------------
(* Properties.                                                             *)

PulledRow == [acct : Accounts \cup {None}, base : 0 .. MaxVersion, ver : 0 .. MaxVersion]

Locations == Resources \cup {"idle", "pending", "configure", "open", "store", "finish", "fail"}

DatabaseOK ==
    /\ status \in [Conns -> Statuses]
    /\ lastSync \in [Conns -> {None, "success", "failed"}]
    /\ mirror \in [Conns -> [Resources -> [Accounts -> 0 .. MaxVersion]]]
    /\ logConn \in [LogIds -> Conns \cup {None}]
    /\ logStatus \in [LogIds -> {"unused", "running", "success", "failed", "deleted"}]

RunsOK ==
    /\ pc \in [Runners -> Locations]
    /\ target \in [Runners -> Conns \cup {None}]
    /\ \A r \in Runners : ~Idle(r) => target[r] \in Conns
    /\ row \in [Runners -> LogIds \cup {None}]
    /\ pulled \in [Runners -> [Resources -> PulledRow]]
    /\ since \in [Runners -> 0 .. MaxVersion]

OutsideOK ==
    /\ version \in [Accounts -> 0 .. MaxVersion]
    /\ apiKey \in [Processes -> Accounts \cup {None}]
    /\ queue \in [Conns -> Nat]
    /\ crashes \in 0 .. MaxCrashes
    /\ faults \in 0 .. MaxFaults
    /\ lost \in [Conns -> Nat]

\* The shape of every variable, and that a busy runner works for some connection.
TypeOK == DatabaseOK /\ RunsOK /\ OutsideOK

\* Every row mirrored under a connection was read from that connection's own
\* account: _configure_auth authenticates as it, or targets it in the header.
OwnAccountRows ==
    \A c \in Conns, res \in Resources, a \in Accounts :
      mirror[c][res][a] > 0 => a = AccountOf[c]

\* Why: from ConfigureAuth to its last list call a run finds in stripe.api_key the
\* key it put there, so its session holds rows of its own account only.
KeyIsForTarget ==
    \A r \in Runners : pc[r] \in Resources \cup {"open"} =>
      apiKey[ProcessOf[r]] = KeyFor(target[r])

PulledIsOwn ==
    \A r \in Runners, res \in Resources : pc[r] \in Resources \cup {"store"} =>
      pulled[r][res].acct \in {None, AccountOf[target[r]]}

\* The runners that may come to run a sync: the workers only, where Redis takes every
\* message and requests do no more than enqueue.
Syncers == IF EnqueueOutcomes \subseteq {"queued"} THEN Workers ELSE Runners

OnlySyncersSync == \A r \in Runners \ Syncers : pc[r] \in {"idle", "pending"}

OwnershipInv == KeyIsForTarget /\ PulledIsOwn /\ OwnAccountRows /\ OnlySyncersSync

\* No sync shares its process with anyone else who sets stripe.api_key.
SyncsApart ==
    \A r \in Syncers, q \in Runners : ProcessOf[q] = ProcessOf[r] => q = r

\* Nothing of a connection outlives it: a sync that was under way when the row was
\* deleted brings back neither mirrored rows nor sync_logs rows nor a status.
DisconnectIsFinal ==
    \A c \in Conns : ~Connected(c) =>
      /\ mirror[c] = NoMirror
      /\ lastSync[c] = None
      /\ \A l \in LogIds : logConn[l] = c => logStatus[l] = "deleted"

InSync(r) == pc[r] \in Resources \cup {"store", "finish", "fail"}

\* Two runs never share a sync_logs row, and a run that got as far as Stripe holds
\* a row of its own connection that nobody else finishes.
RunOwnsItsLog ==
    \A r \in Runners :
      /\ ~InSync(r) => row[r] = None
      /\ InSync(r) =>
           /\ row[r] \in LogIds
           /\ logConn[row[r]] = target[r]
           /\ status[target[r]] # "new"
           /\ logStatus[row[r]] = IF Connected(target[r]) THEN "running" ELSE "deleted"
           /\ \A q \in Runners \ {r} : row[q] # row[r]

\* "The connection itself carries the most-recent state; this table is the audit
\* trail": the outcome a connection shows is that of one of its logged runs, and an
\* errored connection has a failed run to show for it.  A demo connection alone shows a
\* success nobody logged, until the first sync of it is reported.
LoggedAs(c, outcomes) == {l \in LogIds : logConn[l] = c /\ logStatus[l] \in outcomes}

ShowsSeed(c) ==
    /\ c \in DemoConns
    /\ lastSync[c] = "success"
    /\ LoggedAs(c, {"success", "failed"}) = {}

StateHasTrail ==
    \A c \in Conns :
      /\ lastSync[c] # None => LoggedAs(c, {lastSync[c]}) # {} \/ ShowsSeed(c)
      /\ status[c] = "error" => LoggedAs(c, {"failed"}) # {}

Succeeds(r) ==
    /\ row[r] \in LogIds
    /\ logStatus[row[r]] = "running"
    /\ logStatus'[row[r]] = "success"

\* A run reported as a success leaves the mirror at least as new as its account
\* was when the run began, in every table.
SuccessIsFresh ==
    [][\A r \in Runners : Succeeds(r) =>
         \A res \in Resources :
           mirror[target[r]][res][AccountOf[target[r]]] >= since[r]]_vars

\* "Re-running the sync is safe": once Stripe has answered every call, storing the
\* answer of a connection that is still there fails only with the database.
RerunIsSafe ==
    [][\A r \in Runners :
         pc[r] = "store" /\ Connected(target[r]) => pc'[r] # "fail" \/ faults' > faults]_vars

\* The syncs of c that are over, and the queued ones that are not: each of its messages
\* is in the queue or a worker is at it.
Ended(c) == Cardinality(LoggedAs(c, {"success", "failed"})) + lost[c]

Owed(c) ==
    queue[c] + Cardinality({w \in Workers : pc[w] \notin {"idle", "pending"} /\ target[w] = c})

\* Every queued sync, not only the first of a connection, is reported by a log row of its
\* own, success or failure, through any crashes of the workers: unless the connection
\* goes away, the database fails the report, or the workers lack the key.
QueuedSyncIsReported ==
    \A c \in Conns : (\A w \in Workers : HasKey(w, c)) =>
      \A n \in 1 .. Cardinality(LogIds) :
        (Ended(c) + Owed(c) >= n) ~> (Ended(c) >= n \/ ~Connected(c))

Mirror == INSTANCE AccountMirror WITH live <- {c \in Conns : Connected(c)}

\* One sync at a time implements the mirror a reader is promised.
ImplementsMirror == Mirror!Spec
=============================================================================
