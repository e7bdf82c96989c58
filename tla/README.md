# InsightPlus: TLA+ models, checks and proofs

InsightPlus mirrors the Stripe accounts of its customers into Postgres, computes
dashboards from the mirror and asks Anthropic for reviews of it. The backend is FastAPI
with SQLAlchemy sessions (`src/app`), an arq worker over Redis (`src/worker.py`), and a
Next.js frontend (`src/frontend`). These modules model the parts in which several actors,
failures or retries meet, and check what the code promises there.

## Inventory

| Component | State | Operations | What is hard | What makes it correct |
|---|---|---|---|---|
| Stripe sync (`routes/connections.py`, `stripe_sync_service.py`, `worker.py`) | connection status and last outcome, the `stripe_*` rows, `sync_logs`, `stripe.api_key` of each process, messages in Redis | trigger (queued, or inline when Redis is away), nightly fan-out, job, sync with three lists and three commits | syncs of one connection at once, a global key shared by threads, a disconnect or a crash in the middle, failures while reporting a failure | rows belong to the account of their connection; one transaction per refresh; nothing outlives a disconnect; each run reports on its own log row; a queued sync is reported |
| Connecting Stripe (`stripe_oauth_service.py`, `stripe_apikey_service.py`) | one-time state rows, connection rows, encrypted tokens | init, callback, connect by key, disconnect | two callbacks with one state, a callback racing a connect by key or a disconnect, a global key shared by threads | one row per account, with that account's credential, for the organization that asked |
| AI jobs and usage (`routes/ai.py`, `jobs_service.py`, `ai_service.py`, `worker.py`) | `ai_jobs`, `ai_usage`, Redis | create and enqueue, job, direct call, poll | redelivery, locks that lapse under a blocking job, a reply lost at enqueue, commits that fail between the call and its record | each job goes through one life; each call is on record; an ended job stays ended |
| Refresh tokens (`auth_service.py`, `routes/auth.py`) | `refresh_tokens` rows | sign in, rotate, revoke | two requests with one token | a token buys one pair |
| Accounts and organizations (`auth_service.py`, `organization_service.py`, `routes/orgs.py`, `dependencies.py`) | users, organizations, memberships | register, demo login, create, membership check | check, then insert, under unique indexes that make the second insert wait | one account per identity, a workspace for each, honest answers |
| Demo and test data (`scripts/seed_demo_data.py`, `scripts/seed_db.py`) | demo connections and the rows under them, accounts | reseed every user, seed two users | a commit for each step of each organization, runs that die or overlap | one demo data set per organization, and a further run repairs one that died |
| Browser session (`frontend/lib/api.ts`, `auth-context.tsx`) | localStorage, `refreshInFlight`, calls under way | wrapper with one rotation and one replay, login, logout, reload | calls that share a rotation, answers lost, tabs sharing storage | one rotation per token; no session lost or left behind; calls end |
| Active workspace (`auth-context.tsx`, `providers.tsx`, `dashboard/page.tsx`, `get_current_membership`) | `active_org_id` in localStorage, the context of each tab, React Query's cache | load, sign in, switch, sign out, ask, answer | keys without an organization, a header read when the request is sent, tabs sharing storage | requests are admitted; figures stand under the name of their workspace |
| Dashboard (`dashboard_service.py`) | none (reads the mirror) | MRR, churn, movements, trend, top customers, activity, customer page | past figures rebuilt from present rows, borders of months and periods, windows and limits, a mirror that lags | the views agree with each other; a month that is over keeps its figure |
| AI review (`ai_review_service.py`) | reviews, usage | figures, call, bill, insert | figures read over several queries, three commits | a review is billed, and its figures add up |
| Token encryption (`crypto.py`, one migration) | the credential column, the cached key | encrypt, decrypt, migrate | legacy plaintext, a change of key, a migration that dies, writers of two releases | what is read is what was stored; no plaintext is left |
| HTTP plumbing, schemas, pages, generated migrations | - | - | none of their own | not modelled |

**How they interact.** The frontend calls the API with a bearer token and rotates its
refresh token when one is refused. The API puts `run_stripe_sync_job` and
`run_messages_job` into Redis; the worker takes them from there. API and worker share only
Postgres and Redis, except that inline syncs of one API process also share the module
global `stripe.api_key`. A deployment runs the migrations while processes of the release
before are still serving. Tabs of a browser share localStorage and nothing else.
Sessions are SQLAlchemy ORM sessions with `autoflush=False`:
reads see what is committed, writes wait for `commit()`. The job functions of the worker
contain no `await`, so one worker process runs them one at a time, and arq's timeout
cannot interrupt them.

## Modules

| Module | Models | Notes |
|---|---|---|
| `StripeSync` | trigger, queue, worker, cron, sync, connect, disconnect, crashes | the core |
| `AccountMirror` | what the mirror promises, with no word of runs or keys | abstract specification of `StripeSync` |
| `MCStripeSync` | the deployments TLC checks | |
| `StripeSyncProofs` | theorems about `StripeSync` | TLAPS |
| `AIJobs` | jobs, arq's delivery, Anthropic calls, usage rows, reviews | |
| `JobLifecycle` | what a polling client may see | abstract specification of `AIJobs` |
| `MCAIJobs` | symmetry for TLC | |
| `AIJobsProofs` | theorems about `AIJobs` | TLAPS, over `Sums` |
| `StripeConnect` | one-time states, callback, form for keys, disconnect, overlapping | the requests `StripeSync` takes as one step each |
| `MCStripeConnect` | two organizations, keys of both kinds | |
| `Dashboard` | MRR, trend, movements, churn, customer page over a lagging mirror | operators of the service, and the events that move them |
| `MCDashboard`, `DashboardProofs` | two subscriptions and their prices; theorems | TLAPS, over `Sums` |
| `Activity` | charges, failed payments, top customers, the feed, the customer page, the figures of a review | windows, limits and the lookback of a sync |
| `MCActivity`, `ActivityProofs` | an instance for TLC; theorems | TLAPS, over `Sums` |
| `TokenRotation` | the refresh-token table and its concurrent requests | server part |
| `SessionClient` | tabs, calls, rotation, localStorage, over `TokenRotation` | composes client and server |
| `SessionClientProofs` | theorems about both | TLAPS |
| `Workspaces` | the active organization: context, storage, header, query cache, membership check | composes browser and server |
| `MCWorkspaces` | two users, three organizations | |
| `Accounts` | registration, demo login, `POST /orgs`, both seeding scripts, in READ COMMITTED transactions | |
| `MCAccounts`, `AccountsProofs` | an instance for TLC; theorems about `Accounts` and `Workspaces` | TLAPS |
| `TokenCrypto` | the encrypted column, its keys, the migration, processes of two releases | |
| `CredentialsProofs` | theorems about `StripeConnect` and `TokenCrypto`: how a credential is obtained and how it is kept | TLAPS |
| `Sums` | lemmas on sums over finite sets | used by three of the proof modules |

Every definition that models code has its lines under `map` in `PROJECT.json`. Names are
unique across the modules a proof module brings together, hence `CryptoSpec` and
`WorkspacesSpec` beside the `Spec` of the others.

Definitions marked `Fault:` are never used by a specification. Each is a plausible bug:
put in place of the definition that follows it, it breaks one of the properties.

### StripeSync

A *runner* is a thread of control: a request thread of an API process, or an arq worker.
`pc[r]` says which network call or commit it will do next, and one action is the code in
between. `target`, `row` and `pulled` are its locals and its open session. `status` and
`lastSync` are columns of `platform_connections`, `logConn` and `logStatus` of
`sync_logs`. `mirror[c][res][a]` is the version of account `a` that was copied into table
`res` under connection `c`.

| Code | Action |
|---|---|
| `POST /connections/{id}/sync` | `TriggerSync`, then `WritePendingLog` or an inline sync |
| `cron_sync_all_stripe` | `CronFanOut` |
| `run_stripe_sync_job` up to the service | `StartJob` |
| `StripeSyncService.sync` | `ConfigureAuth`, `OpenLog`, three `Pull` (or `PullFails`), `StoreRows`, `Finish`, `RecordFailure`; `CommitFails` at each of its commits |
| the demo connection of `seed_demo_data.py` | `SeedDemo` |
| OAuth callback or API key form | `Connect` |
| `disconnect` | `Disconnect` |
| an account edited at Stripe | `Edit` |
| death of a process, and arq's redelivery | `Crash` |

A key is represented by the account it authenticates as, and an account by the number of
edits made to it. That is enough to tell *whose* rows were read and *how old* they are.
Object lists, paging and column values are left out. An upsert is the pair
`(version found, version returned)`. `Written` keeps SQLAlchemy's habit of writing only
columns that differ from what the session read. `Refused` holds when the flush meets the
unique constraint or the foreign key. Listing and looking up are one step, since the first
lookup comes after the last network wait that matters. Connecting and disconnecting are one
step each here; `StripeConnect` has their steps. A connection id is not reissued.

`STRIPE_SECRET_KEY` is optional and set per process (`render.yaml:70`), so
`KeyedProcesses` may be any of them: elsewhere `ConfigureAuth` raises and the run is over.
`DemoConns` are connections to accounts Stripe does not have. They start with a success that
no run logged, and every sync of them fails; the rows the script makes up copy no account and
are left out of `mirror`. `CommitFails` is a database that refuses a commit for reasons of its
own: the except branch takes over, or, before the `try` and in that branch, the exception
leaves `sync`, and `lost` counts the runs that end so without a report.

### StripeConnect

`req[t]` is the request of thread `t`: where it is, what it has read and what it will write.
One action is the code between a network call or commit and the next: `FindState`,
`ConsumeState`, `Exchange`, `FindConnection`, `WriteConnection` for the callback; `Identify`
and the same two for the form; `Deauthorize` and `DeleteConnection` for a disconnect.
`conns` is the table with the unique constraint, `stateOrg` and `stateIs` the OAuth states,
and `codes` and `grants` what Stripe holds. A token is the account it opens. A restricted
key that may not read its account gets an account id made from the key, as `_identify` does.
A read row is remembered in `seen`, because SQLAlchemy writes only columns that differ.
The callback takes a code and a state that need not belong together, and exchanges the code
without the state. `SetKey` is the assignment to `stripe.api_key`, which the threads of a
process share; `SyncSetsKey` is that of a sync that runs in one of them, and a process without
`STRIPE_SECRET_KEY` is not in `KeyedProcesses`. Four variables are history: `overtaken` (threads
whose key was replaced while they were about to ask Stripe with it), `tainted` (rows whose
credential such a thread wrote), `consented` and `swapped` (for which organization an account
was connected, and which codes came back with a state of another page).

### Dashboard

`DashboardService` keeps no state. The variables are the clock, the subscriptions at Stripe
and their copy in the mirror; the figures are operators with the names and comparisons of
the service. A tick is half a second, since Stripe's timestamps are whole seconds and the
server's clock is not. A sync is two steps: customers are listed, and then
subscriptions, with one commit for both. A subscription may start, stop and resume
payments, be canceled at once or at the end of its period (`canceled_at` is then the time of
the request) and resume. Months have one length. The division of
`normalize_to_monthly_cents` is exact here. The float product of the code can be a cent
less (27 cents a week, for instance).

### Activity

A tick is a day. A charge at Stripe is pending, succeeded or failed, and may settle after it
was made; `Sync` copies the charges of the last `LookbackDays` and leaves older rows as they
are. `Of(table, status, days)` is the filter the service repeats for each figure.
`Newest(time, n)` is `.order_by(...).limit(n)`: the *set* of pages the database may return,
since rows of one timestamp come in any order. `ReadOverview` and `ReadActivity` are the two
calls `AIReviewService` makes of `DashboardService`, with whatever happens in between. What
a review does with its figures (the Anthropic call, the bill, the row) is in `AIJobs`.

### AIJobs

`request[j]` is where `POST /ai/jobs` stands, `queue`, `locks` and `tries` are arq's keys in
Redis, and `pc` and `work` say what a worker or request thread is doing. A thread works for
`Direct` (`POST /ai/messages`) or for `Review` (`POST /ai/reviews/generate`), both by
`AskDirectly` and the same `AIService.complete`; a review then has one more commit,
`StoreReview`. arq is external and modelled as the code relies on it: at-least-once delivery,
an in-progress key that expires, `max_tries`. A prefetched job counts as started, since arq
has locked it. Payload, reply and cost are left out; calls, usage rows and reviews are
counted. A fault (`CommitFails`) is possible at every commit inside a job and a review, and
when a job is rejected. A commit that fails while the API inserts a job is not modelled,
because there is no job then. `unanswered` remembers the jobs Redis took although
`enqueue_job` raised, and `reversals` how often a job that had ended got another status.

### TokenRotation and SessionClient

A refresh token is a number. `rows` are those with a row in the table, and `parent[t]` is the
token that was rotated into `t`. A request occupies a slot: `lookup` finds the row, `commit`
deletes it and adds the successor. Nothing keeps two requests apart in between. An ORM
`DELETE` that matches no row only warns, hence both commit.

`SessionClient` adds the page. `store` is localStorage, `inFlight` is `refreshInFlight`,
and `call[b][c]` follows one call from being sent through a 401, waiting for the rotation,
one replay and its end. One action is the JavaScript between two awaits. `open` are the tabs
that show the application. `Reload` and `OpenTab` load a page: its calls and its rotation, if
it had any, are forgotten while the server goes on with them, and `Hydrate` sends the call of
kind "me" by which the page finds out who is signed in; until that ends it offers nothing
(`Loading`). When the replay of this call is refused, the page clears the tokens
(`auth-context.tsx:58-61`); that of any other call leaves them alone. `signedOut` remembers
that a user has signed out, after which the code promises less (see below), and `loads` counts
the pages loaded after the first. What the page does with the organization is in `Workspaces`.

### Workspaces

`store` is what localStorage holds, a user (for its token) and an organization. `tab[b]` is
the context of a tab, whether its page is mounted, and the one query that stands for all:
`data` and `fresh` are React Query's cache, `sent` the request under way. `Load`, `Hydrated`
and `NotHydrated` are the effect of `auth-context.tsx` that runs when a page is loaded,
`SignIn`, `SignedIn` and `NotSignedIn` are `completeLogin`; `LogOut`, `Switch` and
`SessionLost` write the storage and do not touch the cache. `Admitted` is
`get_current_membership`. A tab that another tab wrote the storage under is in `touched`
until it is loaded or signs in again.

### Accounts

A task is a request thread or a run of a script; `task[t].at` is the statement it will do
next, `holds` are the user rows it has inserted and not committed. `EmailTaken` and
`NameTaken` are the two queries of `register_user`. The flush of a row is `EnterEmail` and
`EnterName`, one for each unique index in the order in which the schema migration creates them
(`99e1866b2eed_initial_schema.py:39-41`): each waits while another transaction has the key
entered and not committed (`WaitsFor`) and fails on a committed one, and a row that waits for
its username holds its email. `seed_db.py` inserts two users before it commits, so that it may
wait for a registration that waits for it. `AbortDeadlock` is the deadlock detector of
Postgres, which may choose any task of the circle; the answer of that task is `victim`.
`seed_demo_data.py` is taken commit by commit: the demo user, and for each user in turn the
connection, the delete and the insert of its rows. `Crash` may end any task at any point.
Ids are taken at the commit, and the rows under a demo connection are one batch.

### TokenCrypto

A stored value is a credential under the keys that sealed it, so that a value sealed twice,
or sealed and handed out, is told from the credential. `key[p]` is the key a process has
cached (`_fernet` is cached), or `Old` for a process of the release before, which stores and
reads plaintext. `MigrationReads`, `MigrationUpdates` and `MigrationCommits` are the
migration's SELECT, its UPDATEs by id, and the one commit Alembic ends it with;
`MigrationDies` rolls it back. `sealers`, `raced` and `late` remember which keys were used
on a row and which rows were written while the migration held its copy.

## Runs

| Run | Question | Bounds |
|---|---|---|
| `sync_mixed` | Do the safety invariants hold with one connection of each kind and a demo connection, an API thread, and a worker without the platform's key? | 3 connections, 4 accounts, 1 edit per account, 2 log ids, 1 crash, 1 failed commit |
| `sync_queued` | One worker and no inline sync: is each success fresh, is re-running safe, is every queued sync reported, is `AccountMirror` implemented? | 1 connection, 2 threads of one API process, 2 log ids, 2 edits, 2 crashes, 2 failed commits |
| `sync_shared_key` | Two inline syncs in threads of one process: violates `OwnAccountRows` | 2 API threads |
| `connect` | Requests that connect and disconnect overlap: is there one row per account, how far does a mix-up of keys go, whose credentials does an organization get, and does none come back? | 2 organizations, 2 states, 3 threads in 2 processes, 3 requests |
| `jobs_faulty` | Are usage, results, reviews, repeated calls and the way back from an ended job accounted for, when anything fails? | 2 jobs, 2 workers, 1 thread; one crash, lapse, failed commit and direct call or review |
| `jobs_queued` | Honest enqueue errors, no lapses: do jobs live the promised life and end? | 2 jobs, 2 workers, 2 crashes, 3 tries |
| `session` | Tabs that share a storage: one rotation per token and page, no orphaned session, who forgets a pair that works, calls end | 2 tabs, 2 calls each and 2 at a time, 2 slots, 2 ages, 1 sign-in, 1 lost answer, 1 page loaded after the first, 10 tokens |
| `workspaces` | Two tabs share a storage: whose requests are refused, and when does a page show the figures of another workspace? | 2 tabs, 2 users, 3 organizations |
| `accounts` | Registrations, logins and scripts at once, any of which may die or deadlock: one account per identity, a workspace for each, honest answers, who can deadlock, one demo data set, nobody waits for ever | 2 threads, 3 tasks |
| `crypto` | The migration runs, dies and runs again while processes of two releases write and the key changes: who reads back what was stored? | 2 rows, 2 processes, 2 keys, 2 writes per row, 4 events |
| `dashboard` | Do the figures agree with each other, at every tick? | 2 subscriptions, 2 customers, 2 statuses, 8 ticks in 3 months |
| `activity` | Charges settle late and age out of the windows while syncs commit between the queries of a review: do the views of the recent past agree? | 2 charges, 1 subscription, 1 customer, 5 days |

**Why the bounds are enough.** `LogIds` bounds how often work can be accepted. `Room` keeps an
id for every piece of work under way, so a run never blocks for want of one; two ids are two
overlapping runs, a run and its repetition after a crash, or two runs with edits between.
`MaxVersion` 1 tells "before" from "after" an edit, and with 0 for "no objects yet" covers
insert and update; 2, in `sync_queued`, lets a second sync bring something new after the first.
`MaxCrashes`, `MaxLapses` and `MaxFaults` of 1 or 2 let each failure occur at every point.
`MaxCrashes` is below arq's `max_tries`, and a job that is dropped after its last try is
covered in `AIJobs`. `MaxDirect` and `MaxLoads` bound how often their event occurs. `Slots` 2
is the least number at which two requests overlap. `MaxAges` 2 lets an access token expire and
then its refresh token, or two access tokens one after another. `MaxTokens` 10 is no less than
the instance can issue, so it cuts nothing off. One page loaded after the first is a reload, or
the second tab of a race for one token. `MaxOpen` 2 is two calls that share a rotation, or one
call in each of two tabs.

In `connect`, three requests and two states let a key form, a callback and a disconnect of one
row overlap in pairs, after one that made the row, in threads that share a key and beside one
that has no platform key; rows are tainted and repaired, and codes are swapped. In `accounts`,
three tasks are a run that dies, its repetition and a rival; the identities collide in every
way (one email, one username, the demo's username, a test user's row). In `crypto`, four events
are a restart of each process, a change of key and a dead migration. `workspaces` needs no
bound: its states are finite. In `dashboard` a month is two seconds and a period two and a
half, so that borders of months, windows and seconds fall on different ticks; 8 ticks reach the
third month, where the two months shown have moved and something was carried in; the two prices
(13 and 29 cents a month) tell from a sum what is in it. In `activity` the windows are one and
two days and the clock goes to day 4, so a row leaves each window and the lookback; a limit of
one row makes two rows compete for each page.

Symmetry is used only in runs that check invariants or action properties of interchangeable
values (`LogIds`, `Jobs` with `Workers`, `Orgs`, `Threads`, `States`, `Tabs`), never in a run
with liveness. Deadlock is checked in `sync_mixed`, `sync_queued`, `workspaces` and
`activity`. The other runs switch it off, since a state with every bound used up and nothing
under way is an ordinary end.

**Fairness.** Only the program's own progress is assumed: a thread that can go on does, Stripe
and Anthropic calls return or time out, arq polls its queue, the server answers and a page
handles its answers, Postgres lets a waiting INSERT go on when the transaction it waits for has
ended, and its deadlock detector, which runs when a wait has lasted `deadlock_timeout`, aborts
a task in a circle of waits. Weak fairness suffices, because these steps stay possible until
taken. An INSERT that waits in `Accounts` can be overtaken by that of a third task and wait
again; its turn comes since the number of tasks is bounded. Nothing is assumed of users, of
edits, of crashes, or of the cron.

## What the checks showed about the code

One disagreement has a run of its own, `sync_shared_key`, and an entry under `findings`: two
inline syncs in threads of one process share `stripe.api_key`, and one mirrors the account of
the other. Further behaviour that was met while modelling, and that narrows what the passing
runs may assume:

**Sync**

- The row that `trigger_sync` writes for the client after enqueueing (`connections.py:287`)
  is finished by nobody: the run opens one of its own. It says "running" for ever, and with a
  worker that is faster it is younger than the run it announces.
- Two first syncs of one connection at once (two workers): the second INSERT meets the
  unique constraint and the connection goes to error, so `RerunIsSafe` fails
  (`stripe_sync_service.py:155`; its docstring calls re-running safe).
- Two concurrent syncs may store the older answer last and still report success
  (`SuccessIsFresh` fails with two workers). This is why `sync_queued` has one worker, with
  no inline syncs. The same holds for `ImplementsMirror`.
- In a worker without `STRIPE_SECRET_KEY` a queued sync of an OAuth connection raises before
  its log row and outside the `try` (`stripe_sync_service.py:106`), and the job swallows the
  exception (`worker.py:91`), although it says that a sync is "Recorded in `sync_logs`"
  (`worker.py:77`): the client sees the "running" row and nothing else.
  `QueuedSyncIsReported` is about workers that have the key. It counts the runs whose report
  the database refused (`lost`) as over.
- "The connection itself carries the most-recent state; this table is the audit trail"
  (`stripe_data.py:158`) does not hold of a demo connection, which is inserted with a success
  and no row (`seed_demo_data.py:142`). `StateHasTrail` says that this lasts until its first
  sync is reported, and that every other outcome has its row.
- A failed sync sets `error`, and the nightly fan-out selects active connections only
  (`worker.py:117`), so the connection is never synced again unless by hand.

**Connections**

- With two key forms in threads of one process, or one next to a callback, a disconnect or
  an inline sync, one may ask Stripe with the key of the other (`stripe_apikey_service.py:119`)
  and store its own key under the other's account. `CredentialFitsRow` says that no other row
  suffers: the row is `tainted` until a request that was not overtaken gives it a credential.
- The callback checks the state and the code apart from each other. A code that was issued on
  one page is taken with the state of another, and connects the account to the organization of
  the state (`stripe_oauth_service.py:124`); `RowIsConsented` counts this as a way to connect.
- Two callbacks with one state both find the row before either deletes it, so a state can
  be used twice (`stripe_oauth_service.py:115`, "one-time use"). Each still needs a code of
  its own, and both serve the organization of the state.
- In a process without `STRIPE_SECRET_KEY` a callback uses its state up before it fails
  (`stripe_oauth_service.py:115-119`).
- A row and the grant at Stripe can part ways: a disconnect of one organization revokes the
  grant another organization's row of the same account relies on, a callback that overlaps
  a disconnect may insert a row whose token is revoked already, and a failed
  deauthorization is swallowed.
- A restricted key without Account read gets an account id of its own. An organization may
  then hold the same account twice, and its MRR counts twice.
- An account connected by key and then by OAuth keeps `auth_method` "restricted_key": the
  row is refreshed and not that column (`stripe_oauth_service.py:165`), on which sync and
  disconnect depend, although the token does open its account.

**AI jobs and reviews**

- An exception after Redis took the message is handled as a refusal (`ai.py:136`): the job
  is marked failed, the client gets a 503, and the job runs, although the comment there says
  "never picked up". Its row then goes from failed to running and to what the run makes of
  it. `EndedJobsStay` says that nothing worse follows.
- `mark_running` has no guard (`jobs_service.py:51`): a job redelivered after it was marked
  terminal goes back to running. `JobLifecycle` has `Redeliver` for it. A client that
  stopped polling does not see it.
- "One row per Anthropic API call" holds but for a crash or a failed commit between the call
  and its row (`ai_service.py:64-79`); `MissingUsageIsExplained` bounds the loss.
- After a lapse, the slower of two runs can be the last to mark a job, and with a crash in
  addition a job can stay `running` (`AcceptedJobsEnd` fails with lapses). A sync longer than
  arq's lock is likewise run twice.
- A review that is asked for twice is billed twice, and two that overlap may be stored in
  either order: `latest` (`ai_review_service.py:142`) goes by `created_at` and may then show
  the earlier period.
- A review takes each figure with a query of its own, and each of its two calls of
  `DashboardService` has its own clock. After a sync that commits in between it can tell of
  more new customers than it counts; `ReviewAddsUp` is about reviews that no sync has torn.
  Customers whose subscription is incomplete are new, and not active.

**Browser**

- Two tabs can rotate one token: the server issues two pairs, or it refuses the second tab,
  which then clears the tokens the first has just stored. `OneRotationPerToken` and
  `NoOrphans` are therefore about the time until a second page is loaded; a reload in the
  middle of a rotation has the same effect as a second tab. `KeepsWorkingTokens` is about any
  number of tabs and names the two ways in which a pair that works is forgotten: a rotation
  that fails after another page has stored a pair, and a page whose /auth/me is refused even
  after a rotation.
- `api.ts` clears the tokens on *any* failure of a rotation (line 128-130), although its
  header speaks of a 401. `KeepsWorkingTokens` excludes lost answers for this reason.
- A logout during a rotation (`auth-context.tsx:113`, `api.ts:127`): the rotation's answer
  stores a fresh pair after the tokens were cleared, and a user who signs in again at once
  can have the new pair overwritten by it. `NoOrphans` is therefore about browsers nobody
  has signed out of.
- Query keys do not name the organization (`dashboard/page.tsx:22`), figures count as fresh
  for 30 s (`providers.tsx:14`), and neither a switch (`auth-context.tsx:120`) nor a logout
  drops them. A page can show the figures of one workspace, or of the user before, under the
  name of another; `MismatchIsExplained` says that only figures asked for before the change
  are so.
- With two tabs, one that switches or signs in changes the header of the other's requests and
  not its heading. Both properties of `Workspaces` leave out tabs this has happened to.

**Accounts and demo data**

- Two registrations of one email at once: the second meets the unique index, which nobody
  catches, and is answered with a 500. `AnswersHold` says that the account is there, with
  one exception: a registration that has the email of the second user of `seed_db.py` and the
  username of its first, while that script is between the two rows, is in a deadlock with it.
  Postgres aborts one; the registration may get a 500 although nobody has such an account, or
  the script fails. `DeadlocksNeedSeedDb` says that requests never do this to each other.
- When somebody else has the demo's username, `ensure_demo_user` raises a `ValueError` that
  nobody catches, on each demo login.
- Two runs of `seed_demo_data.py` at once can leave an organization with two demo
  connections, or with the rows twice: account ids and row ids are new each time, so no
  constraint is in the way. `SeededOnce` is about runs that do not overlap.
- A demo connection is active, so the nightly cron selects it; its sync fails and sets
  `error`, and seeding again does not reset it.

**Credentials at rest**

- The migration updates by id what it read at its start
  (`b7f3c9d2a1e4_encrypt_oauth_tokens_at_rest.py:43`): a credential stored in between is
  overwritten with the one before. `ReadsBack` leaves such rows out.
- After a change of key the ciphertext is handed out as the token (`crypto.py:57`).

**Dashboard**

- Past months are computed from the status of today (`dashboard_service.py:178`): a month
  that was paid for loses what is unpaid or canceled today. `PastNeedsAChange` says that
  nothing but such a change of a subscription moves a month that is over.
- The docstrings speak of movements and trend as two views of one month
  (`dashboard_service.py:94-100`, `312`), but a subscription canceled in the month is churn
  there, as `test_dashboard.py` has it (`test_movements_records_new_and_churn`), and in no
  sample of the trend, also not in those before it was canceled. `TrendMovesWithMovements`
  therefore names what the two differ by: the subscriptions not paid today.
- `churn_rate` can be above 1 although `dashboard_service.py:78` says "0..1": it divides
  canceled subscriptions by customers. `ChurnIsExplained` lists the ways. A cancellation at
  the very instant the period begins is in the numerator and not in the denominator.
- `lifetime_value_cents` is documented as all time (`dashboard_service.py:134`), but is the
  sum over the last 100 charges, of which the mirror has those since 90 days before the first
  sync. `LifetimeCoversRecent` says when it is at least the recent revenue.
- Revenue is gross of refunds. `activity_feed` and `top_customers` join customers by Stripe
  id over all connections of an organization, unlike `customer_detail`.

## Theorems

Proved with TLAPS in `StripeSyncProofs`, for every value of the constants that satisfies
`ConstantsAssumption`:

- `TypeCorrect`: `TypeOK` always holds. It is inductive as it stands; it includes that a
  busy runner has a connection.
- `DisconnectIsFinalAlways`: `DisconnectIsFinal` and `RunOwnsItsLog`, for any number of
  connections, runners and crashes. Neither is inductive alone. A run that reports
  must hold a row of its own connection that no one else holds, or its report could revive
  the row of a deleted connection or finish that of another run; and such a row is marked
  deleted exactly when its connection is gone. `LogInv` joins both to `TypeOK`.
- `OwnAccountRowsAlways`: `OwnAccountRows`, assuming `SyncsApart`: a runner that may sync
  shares its process with no other. With Redis up those are the workers, so any number of
  request threads may share API processes, as they do under FastAPI, and the assumption says
  that arq workers are processes of their own. Where a request may sync inline, it says one
  thread per process, and it is needed, as `sync_shared_key` shows. The invariant
  `OwnershipInv` follows the key: it is the target's from `ConfigureAuth` to the last list
  (`KeyIsForTarget`), so the session holds rows of that account only (`PulledIsOwn`), so the
  commit stores no others; the runners that share a process only enqueue (`OnlySyncersSync`).
- `StateHasTrailAlways`: `StateHasTrail`, for any runners, crashes, failed commits, demo
  connections and processes without a key. It rests on `RunOwnsItsLog`: a report writes a row
  that was running, hence nobody's trail; and a new connection has no rows (`LogInv`), so a
  seeded one starts with none.
- `ImplementsMirrorAlways`, `SuccessIsFreshAlways` and `RerunIsSafeAlways`, assuming
  `SyncsApart` and `OneSyncAtATime` (requests only enqueue, and there is at most one worker).
  `MirrorInv` says what a run knows while it is alone: what it found in the table is still
  there unless its connection is gone, what it pulled is of its own account, no older than the
  run and no newer than the account (`SessionFits`). The commit is then a step `Refresh` of
  `AccountMirror`, or changes nothing. The assumptions hold in `sync_queued`.

And in `AIJobsProofs`, under `JobsAssumption`:

- `TypeCorrect`: `TypeOK`, for any sets of jobs, workers and threads.
- `LedgerIsSound`: `UsageHasCall` and `ResultIsBilled`, of jobs and of reviews. The second
  needs that a worker about to mark a job as succeeded, or a thread about to store a review,
  has committed its usage row already (`SucceedIsBilled`), and the first that usage rows and
  rows about to be written together never exceed the calls.
- `RepeatsAreExplainedAlways`: `RepeatsAreExplained`. Counting calls made is not inductive:
  `RepeatsInv` adds for each job the calls to come, of a copy in the queue or of workers
  before their call, and bounds the sum by one and the crashes and lapses so far. It needs
  finite sets of workers, hence `FiniteSetTheorems`.
- `EndedJobsStayAlways`: `EndedJobsStay`, whatever an exception from `enqueue_job` means.
  `ReversalsInv` bounds the reversals so far by those a job can still undergo: by copies in
  the queue or in a worker before its last report, and by the request that rejects it.
- `ImplementsLifecycleAlways`: `AIJobs` implements `JobLifecycle`, assuming `HonestErrors`
  (an exception from `enqueue_job` means that nothing was stored) and
  `MaxLapses` 0, i.e. locks that outlive their runs; crashes, redeliveries and failed commits
  are unrestricted, which goes beyond the run `jobs_queued`. `OnlyAccepted` says that only
  accepted jobs are in Redis or under way. `LifeInv` adds to it
  that a worker alone has the lock of its job (`OneRunAtATime`) and what the row of the job is
  at each point of the request and the run (`RowFits`).
- `MissingUsageIsExplainedAlways`: `MissingUsageIsExplained`. `MissingInv` bounds, summed over
  the purposes, the calls without a row, less the recordings under way, by the crashes (times
  the runners one process can hold) and the failed commits. A crash is the hard step: the
  recordings it cuts off are counted once, among the threads of one process.

And in `CredentialsProofs`, of `StripeConnect` under `ConnectAssumption`:

- `TypeCorrect`: `TypeOK`. It is not inductive: `ShapeInv` adds what a request must have at
  the step it is at (`RequestsComplete`), and that the state it found and the key it set are
  still there (`RequestsGrounded`).
- `OneRowPerAccountAlways` and `DeletedIsFinalAlways`, for any number of overlapping requests
  and any sharing of processes. Both rest on `RowsKept`: a row keeps its organization and
  account until it is deleted, and an id is never used twice.
- `CredentialFitsRowAlways` and `RowIsConsentedAlways`, for any number of threads in a
  process. `RequestsFit` follows the key from `ReceiveKey` to `Identify` and the account from
  there to the row, for requests that were not overtaken (`HeldStep`: a request keeps its key
  or gets the mark, and a mark stays); `ConsentInv` says of all requests that what they carry
  was approved or pasted for their organization, or swapped, and that a state keeps its
  organization once issued.

Of `TokenCrypto`, under `CryptoAssumption`: `ReadsBackAlways` and
`SealedAfterMigrationAlways`, for any rows, processes, keys and bounds. `CryptoInv` has the
shape of a row (`RowsSound`: in plaintext, or sealed once by the only key used on it) and
what a running migration knows (`MigrationGrounded`: the rows as they still are, but for
those written since).

In `SessionClientProofs`, under `ClientAssumption`:

- `TypeCorrect`, for any number of tabs, calls and slots.
- `OneRotationPerTokenAlways`, `NoOrphansAlways` and `KeepsWorkingTokensAlways`, for any
  number of tabs as well. `SessionInv` says of every tab that nothing runs in it before it is
  open (`PagesFit`) and that its rotation is its own (`SlotsOwned`), and of a rotation that was
  answered in the negative that the token it presented is one the server no longer takes
  (`SlotsFit`), which is what `KeepsWorkingTokens` rests on. Until a second page is loaded it
  follows the one rotation under way: a tab waits for it (`OneFlight`), the token it presents
  is the stored one until a user signs out (`FlightFits`), and it has not been rotated before.

In `AccountsProofs`, under `AccountsAssumption`: `OneAccountPerIdentityAlways`,
`EveryUserHasAWorkspaceAlways`, `AnswersHoldAlways` and `DeadlocksNeedSeedDbAlways`, for any
number of threads and tasks. `AccountsInv` extends the unique indexes to rows that are not
committed (`IndexesHold`: the rows two transactions hold never share a key) and to the email of
a row that still waits for its username (`EmailEntered`), which is what the waiting INSERT
gives and a check before the insert does not; it adds what a task has at the statement it is at
(`TaskFits`) and that ids are not reused (`IdsTaken`). For deadlocks, whoever is on a circle of
waits is awaited by another on it (`DeadlockedIsAwaited`, by the least set closed under
waiting), and a task with one row is awaited only for its email, by a task that waits for an
email (`OneRowHeld`); two such tasks cannot follow each other on the circle. `SeededOnceAlways`
is about runs of seed_demo_data.py that do not overlap: `SeedInv` says that what the only run
found when it looked (`RunFits`: no demo connection of the organization, no rows of the
connection it cleared) is so when it writes.

Of `Workspaces`, under `WorkspacesAssumption`: `RequestsAreAdmittedAlways` and
`MismatchIsExplainedAlways`, for any tabs, users and organizations. `WorkspacesInv` says what
a tab and the storage agree on while no other tab writes it (`Agree`): the user unless the
session was lost, and once signed in the organization.

In `DashboardProofs`, under `DashboardAssumption`, for any subscriptions, customers, prices,
lengths of a month and a period, and however long the clock runs: `TrendEndsNowAlways`,
`TrendMovesWithMovementsAlways`, `ChurnIsExplainedAlways`, `CustomersSumToMrrAlways` and
`PastNeedsAChangeAlways`, i.e. every property of the run `dashboard`. The views are functions
of the rows and of the clock, so all five rest on `DashboardInv`, on timestamps alone: whole
seconds that are not in the future, a cancellation no older than its subscription, a row of
the same age as the subscription at Stripe. The lemma `Border` then says that the sample of
a month, taken at its last second or now, parts the timestamps as the movements of the month
do. The rest is about sums: the pages of the customers are the
parts of one, and `TrendMovesWithMovements` parts what a month's movements count into what
  the samples count as well and what is not paid today.

In `ActivityProofs`, under `ActivityAssumption`:

- `FiguresAreAsOfSyncAlways`, for any charges and any windows within the lookback, which the
  assumption states and the constants of the code satisfy (the feed, whose caller chooses the
  days, is not among them). `ActivityInv` says that a charge keeps its time, and that the row
  of a charge within the lookback is as the last sync listed it.
- `LifetimeCoversRecentAlways` and `FailuresAreInFeedAlways`, for any limits: `LeftOut` says
  that a list with a limit leaves out a row only when it is full, of rows that are no older.
  They are about the rows as they are and need no invariant.
- `ReviewAddsUpAlways`: `ReviewInv` says that between its calls the customers who are active
  are still those a review has counted, unless a sync came between.

In `Sums`: the sum over a finite set does not depend on the order in which the fold takes the
elements, and the sum of a union, of a partition, of a function changed at one place, of one
that is smaller everywhere. Each is an induction over the subsets of the set. The library's
induction theorems take an operator, which the provers cannot instantiate. Instead
`SmallestBad` takes the set of the subsets for which the claim fails and picks one that has no
such subset of its own, by the well-founded order on finite subsets.

Each theorem about a specification is proved by one lemma per action group over the
non-temporal step, and a final temporal step. `RunOwnsItsLog` and `UsageHasCall` are proved and
not model-checked, and so are the type invariants. The inductive invariants were checked with
TLC on the instances of the runs before they were proved.

Model-checked only: liveness (`QueuedSyncIsReported`, `AcceptedJobsEnd`, `CallsEnd`,
`TasksEnd`), which is out of the prover's reach and will stay so. Every invariant and every
action property that a passing run checks is proved.

## Plan

1. Proofs: `ImplementsMirror` with two workers, for a weaker `AccountMirror` that lets a
   refresh bring back an older answer.
2. `Dashboard`: the churn of the period before, several currencies, joins with customer names.
3. `SessionClient` under `Workspaces`: the refused header and the refused token in one model.

## Not modelled, and why

- The churn of the previous period is the formula of this period, shifted; refunds are read by
  no view; all amounts are summed whatever their currency.
- `estimate_cost` and its price table are one decimal formula without state. What a call costs
  is therefore left out of `AIJobs`, and calls are counted.
- Which of two reviews `latest` returns is an order of timestamps.
- `require_role` never refuses: every membership the code makes has the role owner.
- `authenticate_user`, `get_current_user`, the listings and `poll` are reads of one row.
- `seed_stripe_test_data.py` writes to a Stripe test account and to nothing here.
- Configuration, logging, request ids, rate limiting, schemas and pages have no state of their
  own that the properties could be about. Generated migrations are DDL; the one with logic is
  in `TokenCrypto`.
