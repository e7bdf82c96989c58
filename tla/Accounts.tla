------------------------------ MODULE Accounts ------------------------------
(***************************************************************************)
(* Accounts and the workspaces they own: POST /auth/register, the          *)
(* one-click demo login, POST /orgs, and the two scripts that fill a       *)
(* database, seed_db.py and seed_demo_data.py.                             *)
(*                                                                         *)
(* A task is a request in a thread of the API, or a run of a script.  Its  *)
(* transactions are READ COMMITTED: a query sees the rows others have      *)
(* committed, and an INSERT enters its row in the index on emails, then in *)
(* the index on usernames, waiting at each for the transaction that has    *)
(* the key entered and not committed.  Of tasks that wait for each other   *)
(* in a circle Postgres aborts one.                                        *)
(*                                                                         *)
(* Abstractions.  A user row is the identity it was registered with; ids   *)
(* are taken at the commit, for nobody reads one before.  The rows a script puts under a demo connection are   *)
(* one batch.  A membership stands for its organization too: its role is   *)
(* always owner, and no code removes either.                               *)
(***************************************************************************)
EXTENDS Integers, Sequences, FiniteSets

CONSTANTS
    Threads,            \* request threads and script runs
    Identities,         \* what registrations ask for: records of email and name
    Demo,               \* the identity of DEMO_USER_EMAIL, DEMO_USER_USERNAME
    TestUsers,          \* the identities of seed_db.py, in order
    MaxTasks,           \* bound on the requests and runs that begin
    None

Identity == Identities \cup {Demo} \cup {TestUsers[k] : k \in DOMAIN TestUsers}

ASSUME AccountsAssumption ==
    /\ \A i \in Identity : DOMAIN i = {"email", "name"}
    /\ TestUsers # <<>> /\ TestUsers \in Seq(Identity)
    /\ MaxTasks \in Nat
    /\ None \notin Nat

VARIABLES
    users,              \* users: [id, who]
    members,            \* memberships: [user, org]
    conns,              \* demo connections: [id, org]
    batches,            \* the rows under them: [id, conn]
    lastId,             \* the ids given so far
    task,               \* what a thread works on
    begun,              \* tasks that have begun
    overlapped,         \* history: two runs of seed_demo_data.py went on at once
    interrupted         \* history: connections a run cleared and never filled

accounts == <<users, members>>
demoRows == <<conns, batches>>
history == <<begun, overlapped, interrupted>>
vars == <<accounts, demoRows, lastId, task, history>>

\* wants: the identities of the rows to insert; holds: those inserted and not committed;
\* todo: users a script has still to seed; answer: how the last piece of work ended.
Idle == [at |-> "idle", kind |-> "none", wants |-> <<>>, holds |-> <<>>, caller |-> None,
         todo |-> {}, org |-> None, conn |-> None, answer |-> "none"]

Same(i, j) == i.email = j.email \/ i.name = j.name

\* The row a task is to insert next, or is inserting.
Row(t) == task[t].wants[Len(task[t].holds) + 1]

\* What a task has entered in the two indexes and not committed.
HoldsEmail(t, i) ==
    \/ \E k \in DOMAIN task[t].holds : task[t].holds[k].email = i.email
    \/ task[t].at = "insert_name" /\ Row(t).email = i.email

HoldsName(t, i) == \E k \in DOMAIN task[t].holds : task[t].holds[k].name = i.name

\* Fault: the query sees rows that are not committed.
EmailSeen(i) ==
    (\E u \in users : u.who.email = i.email) \/ (\E s \in Threads : HoldsEmail(s, i))

\* The two filters of register_user.
EmailTaken(i) == \E u \in users : u.who.email = i.email
NameTaken(i) == \E u \in users : u.who.name = i.name

\* The unique indexes refuse a key that is committed or the transaction's own.
EmailRefused(t) == EmailTaken(Row(t)) \/ HoldsEmail(t, Row(t))

\* Fault: usernames are checked by the queries only.
NameUnchecked(t) == FALSE

NameRefused(t) == NameTaken(Row(t)) \/ HoldsName(t, Row(t))

\* The INSERT of t has come to a key that s has entered and not committed.
WaitsFor(t, s) ==
    /\ s # t
    /\ \/ task[t].at = "insert" /\ HoldsEmail(s, Row(t))
       \/ task[t].at = "insert_name" /\ HoldsName(s, Row(t))

\* Whom t waits for, whom they wait for, and so on: t is among them.
Deadlocked(t) ==
    \A R \in SUBSET Threads :
      (\A q \in R \cup {t}, s \in Threads : WaitsFor(q, s) => s \in R) => t \in R

Go(t, at) == task' = [task EXCEPT ![t].at = at]

\* Fault: the session is not closed, and its transaction stays open.
EndWithoutClosing(t, answer) ==
    task' = [task EXCEPT
      ![t] = [Idle EXCEPT !.kind = task[t].kind, !.wants = task[t].wants, !.answer = answer,
                          !.holds = task[t].holds]]

\* A task ends; closing its session rolls back what is not committed.
End(t, answer) ==
    task' = [task EXCEPT
      ![t] = [Idle EXCEPT !.kind = task[t].kind, !.wants = task[t].wants, !.answer = answer]]

-----------------------------------------------------------------------------
(* Requests and scripts begin.                                             *)

Begin(t, kind, at, wants, caller) ==
    /\ task[t].at = "idle"
    /\ begun < MaxTasks /\ begun' = begun + 1
    /\ task' = [task EXCEPT
         ![t] = [Idle EXCEPT !.kind = kind, !.at = at, !.wants = wants, !.caller = caller]]
    /\ overlapped' = (overlapped \/ (kind = "seed_demo" /\ \E s \in Threads :
                         task[s].kind = "seed_demo" /\ task[s].at # "idle"))
    /\ UNCHANGED <<accounts, demoRows, lastId, interrupted>>

Register(t, i) == Begin(t, "register", "email", <<i>>, None)

DemoLogin(t) == Begin(t, "demo", "find", <<Demo>>, None)

\* create_organization, for a caller get_current_user has found.
CreateOrganization(t, u) == Begin(t, "org", "commit", <<>>, u.id)

\* seed_db.py, on an empty database or with the operator's consent.
SeedDb(t) == Begin(t, "seed_db", "insert", TestUsers, None)

\* Fault: the script makes the test users along with the demo account.
SeedDemoAndTest(t) == Begin(t, "seed_demo", "find", <<Demo>> \o TestUsers, None)

SeedDemo(t) == Begin(t, "seed_demo", "find", <<Demo>>, None)

-----------------------------------------------------------------------------
(* register_user, and ensure_demo_user around it.                          *)

\* A ValueError is a 400 for the form; nobody catches it for the demo account.
Refuse(t) == End(t, IF task[t].kind = "register" THEN "taken" ELSE "error")

FindDemo(t) ==
    /\ task[t].at = "find"
    /\ CASE ~EmailTaken(Demo) -> Go(t, "email")
         [] EmailTaken(Demo) /\ task[t].kind = "seed_demo" -> Go(t, "list")
         [] OTHER -> End(t, "found")
    /\ UNCHANGED <<accounts, demoRows, lastId, history>>

CheckEmail(t) ==
    /\ task[t].at = "email"
    /\ IF EmailTaken(task[t].wants[1]) THEN Refuse(t) ELSE Go(t, "name")
    /\ UNCHANGED <<accounts, demoRows, lastId, history>>

CheckName(t) ==
    /\ task[t].at = "name"
    /\ IF NameTaken(task[t].wants[1]) THEN Refuse(t) ELSE Go(t, "insert")
    /\ UNCHANGED <<accounts, demoRows, lastId, history>>

\* The flush of a user row, up to its entry in the index on emails.  Nobody catches the
\* error of an index.
EnterEmail(t) ==
    /\ task[t].at = "insert"
    /\ \A s \in Threads : ~WaitsFor(t, s)
    /\ IF EmailRefused(t) THEN End(t, "error") ELSE Go(t, "insert_name")
    /\ UNCHANGED <<accounts, demoRows, lastId, history>>

\* The rest of it: the email is entered while it waits for the username.
EnterName(t) ==
    LET last == Len(task[t].wants) = Len(task[t].holds) + 1 IN
    /\ task[t].at = "insert_name"
    /\ \A s \in Threads : ~WaitsFor(t, s)
    /\ IF NameRefused(t) THEN End(t, "error")
       ELSE task' = [task EXCEPT ![t].holds = Append(@, Row(t)),
                       ![t].at = IF last THEN "commit" ELSE "insert"]
    /\ UNCHANGED <<accounts, demoRows, lastId, history>>

\* Fault: the loop makes an organization for its last user only.
WorkspaceOfLast(rows) == {[user |-> lastId + Len(rows), org |-> lastId + Len(rows)]}

\* An organization for each new user, and its membership.
Workspaces(rows) == {[user |-> lastId + k, org |-> lastId + k] : k \in DOMAIN rows}

\* The rows of the users, their organizations and memberships in one commit.
CommitUsers(t) ==
    LET rows == task[t].holds IN
    /\ task[t].at = "commit" /\ task[t].kind # "org"
    /\ lastId' = lastId + Len(rows)
    /\ users' = users \cup {[id |-> lastId + k, who |-> rows[k]] : k \in DOMAIN rows}
    /\ members' = members \cup Workspaces(rows)
    /\ IF task[t].kind = "seed_demo"
       THEN task' = [task EXCEPT ![t].at = "list", ![t].holds = <<>>]
       ELSE End(t, "created")
    /\ UNCHANGED <<demoRows, history>>

CommitOrganization(t) ==
    /\ task[t].at = "commit" /\ task[t].kind = "org"
    /\ lastId' = lastId + 1
    /\ members' = members \cup {[user |-> task[t].caller, org |-> lastId + 1]}
    /\ End(t, "created")
    /\ UNCHANGED <<users, demoRows, history>>

-----------------------------------------------------------------------------
(* seed_demo_data.py, once the demo account is there.                      *)

\* A user without a membership is passed over.
ListUsers(t) ==
    /\ task[t].at = "list"
    /\ task' = [task EXCEPT ![t].at = "loop",
                           ![t].todo = {u.id : u \in users} \cap {m.user : m \in members}]
    /\ UNCHANGED <<accounts, demoRows, lastId, history>>

\* Fault: a connection is taken for a demo connection by the data it holds.
FilledConnections(org) == {c \in conns : c.org = org /\ \E b \in batches : b.conn = c.id}

DemoConnections(org) == {c \in conns : c.org = org}

IsNext(t, u) == u \in task[t].todo /\ \A v \in task[t].todo : u <= v

\* The next user of the loop, its first membership, and the first demo connection of that
\* organization, of rows in no order the queries ask for (that of the users is immaterial).
SeedOrg(t) ==
    /\ task[t].at = "loop"
    /\ \E m \in members :
         LET u == m.user IN
         /\ IsNext(t, u)
         /\ IF DemoConnections(m.org) = {}
            THEN task' = [task EXCEPT ![t].at = "connect", ![t].org = m.org, ![t].todo = @ \ {u}]
            ELSE \E c \in DemoConnections(m.org) :
                   task' = [task EXCEPT ![t].at = "clear", ![t].conn = c.id, ![t].todo = @ \ {u}]
    /\ UNCHANGED <<accounts, demoRows, lastId, history>>

\* _ensure_demo_connection: its account id is new, so that no index stops a second one.
MakeConnection(t) ==
    /\ task[t].at = "connect"
    /\ lastId' = lastId + 1
    /\ conns' = conns \cup {[id |-> lastId + 1, org |-> task[t].org]}
    /\ task' = [task EXCEPT ![t].at = "clear", ![t].conn = lastId + 1]
    /\ UNCHANGED <<accounts, batches, history>>

ClearData(t) ==
    /\ task[t].at = "clear"
    /\ batches' = {b \in batches : b.conn # task[t].conn}
    /\ Go(t, "fill")
    /\ UNCHANGED <<accounts, conns, lastId, history>>

\* The insert of all the rows, in one commit; it fails when the connection is gone.
FillData(t) ==
    /\ task[t].at = "fill"
    /\ IF \E c \in conns : c.id = task[t].conn
       THEN /\ lastId' = lastId + 1
            /\ batches' = batches \cup {[id |-> lastId + 1, conn |-> task[t].conn]}
            /\ interrupted' = interrupted \ {task[t].conn}
            /\ task' = [task EXCEPT ![t].at = "loop", ![t].conn = None, ![t].org = None]
       ELSE End(t, "error") /\ UNCHANGED <<lastId, batches, interrupted>>
    /\ UNCHANGED <<accounts, conns, begun, overlapped>>

FinishSeeding(t) ==
    /\ task[t].at = "loop" /\ task[t].todo = {}
    /\ End(t, "seeded")
    /\ UNCHANGED <<accounts, demoRows, lastId, history>>

-----------------------------------------------------------------------------
(* What goes on around them.                                               *)

\* Postgres finds t in a circle of waits and aborts it: an error nobody catches.
AbortDeadlock(t) ==
    /\ Deadlocked(t)
    /\ End(t, "victim")
    /\ UNCHANGED <<accounts, demoRows, lastId, history>>

\* A member disconnects a demo connection: its rows go with it.
Disconnect(c) ==
    /\ begun < MaxTasks /\ begun' = begun + 1
    /\ conns' = conns \ {c}
    /\ batches' = {b \in batches : b.conn # c.id}
    /\ UNCHANGED <<accounts, lastId, task, overlapped, interrupted>>

\* The process dies, or the database cannot be reached.
Crash(t) ==
    /\ task[t].at # "idle"
    /\ interrupted' = interrupted \cup
         (IF task[t].at \in {"clear", "fill"} THEN {task[t].conn} ELSE {})
    /\ End(t, "crashed")
    /\ UNCHANGED <<accounts, demoRows, lastId, begun, overlapped>>

Init ==
    /\ users = {} /\ members = {}
    /\ conns = {} /\ batches = {}
    /\ lastId = 0
    /\ task = [t \in Threads |-> Idle]
    /\ begun = 0
    /\ overlapped = FALSE
    /\ interrupted = {}

Accept(t) ==
    \/ \E i \in Identities : Register(t, i)
    \/ DemoLogin(t) \/ SeedDb(t) \/ SeedDemo(t)
    \/ \E u \in users : CreateOrganization(t, u)

Work(t) ==
    \/ FindDemo(t) \/ CheckEmail(t) \/ CheckName(t)
    \/ EnterEmail(t) \/ EnterName(t) \/ CommitUsers(t) \/ CommitOrganization(t)
    \/ ListUsers(t) \/ SeedOrg(t) \/ MakeConnection(t)
    \/ ClearData(t) \/ FillData(t) \/ FinishSeeding(t)

Next ==
    \/ \E t \in Threads : Accept(t) \/ Work(t) \/ AbortDeadlock(t) \/ Crash(t)
    \/ \E c \in conns : Disconnect(c)

Spec == Init /\ [][Next]_vars

\* A thread that can go on does, and the deadlock detector of Postgres runs.
FairSpec == Spec /\ \A t \in Threads : WF_vars(Work(t)) /\ WF_vars(AbortDeadlock(t))

-----------------------------------------------------------------------------
(* Properties.                                                             *)

\* No two accounts share an email or a username, although each request looks for them
\* in two queries and inserts in a third statement.
OneAccountPerIdentity ==
    \A u, v \in users : Same(u.who, v.who) => u = v

\* "Every user is the owner of at least one org", whoever made the user and whatever
\* was cut short; and an organization has one owner, who exists.
EveryUserHasAWorkspace ==
    /\ \A u \in users : \E m \in members : m.user = u.id
    /\ \A m \in members : \E u \in users : u.id = m.user
    /\ \A m, n \in members : m.org = n.org => m = n

\* A registration or a demo login that neither died nor was the victim of a deadlock fails
\* only for an account that is there and has the email or the username; one that succeeds
\* leaves the account.
AnswersHold ==
    \A t \in Threads :
      /\ task[t].kind \in {"register", "demo"} /\ task[t].at = "idle"
      /\ task[t].answer \notin {"crashed", "victim"}
      => \E u \in users :
           IF task[t].answer \in {"created", "found"} THEN u.who.email = task[t].wants[1].email
           ELSE Same(u.who, task[t].wants[1])

\* A deadlock takes a run of seed_db.py: the requests and seed_demo_data.py insert one user
\* row in a transaction, the email before the username, and never wait in a circle.
DeadlocksNeedSeedDb ==
    (\E t \in Threads : Deadlocked(t)) =>
      \E s \in Threads : task[s].kind = "seed_db" /\ Deadlocked(s)

\* Somebody fills the connection, or was cut short before he did.
Pending(c) ==
    \/ c.id \in interrupted
    \/ \E t \in Threads : task[t].conn = c.id /\ task[t].at \in {"clear", "fill"}

\* "Idempotent": while its runs follow one another seed_demo_data.py gives an
\* organization one demo connection with one set of rows, a run that died leaves at
\* most none, and the next one makes that good.
SeededOnce ==
    ~overlapped =>
      \A c \in conns :
        LET rows == {b \in batches : b.conn = c.id} IN
        /\ \A d \in conns : d.org = c.org => d = c
        /\ \A a, b \in rows : a = b
        /\ rows = {} => Pending(c)

\* Every request and every run ends: nobody waits for ever for the row of another, not even
\* a registration that waits for seed_db.py and is waited for by it.
TasksEnd == \A t \in Threads : task[t].at # "idle" ~> task[t].at = "idle"
=============================================================================
