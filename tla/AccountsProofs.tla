--------------------------- MODULE AccountsProofs ---------------------------
(***************************************************************************)
(* Theorems about accounts and their organizations: how they come to be    *)
(* (Accounts), for any number of threads, tasks and identities, and which  *)
(* one a browser works in (Workspaces), for any number of tabs, users and  *)
(* organizations.                                                          *)
(***************************************************************************)
EXTENDS Accounts, Workspaces, TLAPS

UserRows == [id : Nat, who : Identity]

Steps == {"idle", "find", "email", "name", "insert", "insert_name", "commit", "list", "loop",
          "connect", "clear", "fill"}

Kinds == {"none", "register", "demo", "org", "seed_db", "seed_demo"}

Answers == {"none", "found", "taken", "error", "created", "seeded", "crashed", "victim"}

Tasks ==
    [at : Steps, kind : Kinds, wants : Seq(Identity), holds : Seq(Identity),
     caller : Nat \cup {None}, todo : SUBSET Nat, org : Nat \cup {None},
     conn : Nat \cup {None}, answer : Answers]

TypeOK ==
    /\ users \in SUBSET UserRows
    /\ members \in SUBSET [user : Nat, org : Nat]
    /\ conns \in SUBSET [id : Nat, org : Nat \cup {None}]
    /\ lastId \in Nat
    /\ task \in [Threads -> Tasks]

Forms == {"register", "demo"}

NoRow == <<>>

Inserting == {"insert", "insert_name"}

\* What task r must have at the step it is at.
TaskFits(r) ==
    /\ r.at \notin Inserting \cup {"commit"} => r.holds = NoRow
    /\ r.at \in {"find", "email", "name"} => Len(r.wants) = 1
    /\ r.at = "find" => r.wants[1] = Demo
    /\ r.at \in {"list", "loop", "connect", "clear", "fill"} => r.kind = "seed_demo"
    /\ r.at \in {"find", "email", "name"} \cup Inserting => r.kind # "org"
    /\ r.at \in Inserting => Len(r.holds) < Len(r.wants)
    /\ r.at \in Inserting /\ r.kind # "seed_db" => Len(r.wants) = 1
    /\ r.at = "commit" /\ r.kind = "org" => \E u \in users : u.id = r.caller
    /\ r.at = "commit" /\ r.kind \in Forms => r.wants[1] = r.holds[1] /\ Len(r.holds) = 1

\* AnswersHold, of task r.
AnswerHolds(r) ==
    r.kind \in Forms /\ r.at = "idle" /\ r.answer \notin {"crashed", "victim"} =>
      \E u \in users :
        IF r.answer \in {"created", "found"} THEN u.who.email = r.wants[1].email
        ELSE Same(u.who, r.wants[1])

\* The unique indexes, of the rows that are committed and of those that are not.
Distinct(s) == \A j, k \in DOMAIN s : Same(s[j], s[k]) => j = k
Apart(s, r) == \A j \in DOMAIN s, k \in DOMAIN r : ~Same(s[j], r[k])
NewRows(s) == \A k \in DOMAIN s : \A u \in users : ~Same(u.who, s[k])

IndexesHold ==
    /\ OneAccountPerIdentity
    /\ \A t \in Threads :
         /\ Distinct(task[t].holds)
         /\ NewRows(task[t].holds)
         /\ \A s \in Threads \ {t} : Apart(task[s].holds, task[t].holds)

\* An email is entered alone in its index before the username is.
EmailEntered(t) ==
    task[t].at = "insert_name" =>
      /\ \A u \in users : u.who.email # Row(t).email
      /\ \A k \in DOMAIN task[t].holds : task[t].holds[k].email # Row(t).email
      /\ \A s \in Threads \ {t} : ~HoldsEmail(s, Row(t))

\* Ids are not used before they are taken.
IdsTaken == \A m \in members : m.org <= lastId

AccountsInv ==
    /\ TypeOK
    /\ \A t \in Threads : TaskFits(task[t]) /\ AnswerHolds(task[t])
    /\ IndexesHold
    /\ \A t \in Threads : EmailEntered(t)
    /\ EveryUserHasAWorkspace
    /\ IdsTaken

LEMMA NoRows == NoRow \in Seq(Identity) /\ Len(NoRow) = 0 /\ DOMAIN NoRow = {}
  BY DEF NoRow

LEMMA OneRow ==
    ASSUME NEW i \in Identity
    PROVE  <<i>> \in Seq(Identity) /\ Len(<<i>>) = 1 /\ <<i>>[1] = i
  OBVIOUS

LEMMA IdleIs ==
    Idle = [at |-> "idle", kind |-> "none", wants |-> NoRow, holds |-> NoRow,
            caller |-> None, todo |-> {}, org |-> None, conn |-> None, answer |-> "none"]
  BY DEF Idle, NoRow

\* A step of t that enters no email: those that are entered stay alone.
LEMMA EmailsKept ==
    ASSUME TypeOK, \A s \in Threads : EmailEntered(s),
           NEW t \in Threads, NEW r, task' = [task EXCEPT ![t] = r],
           r.at # "insert_name",
           \A k \in DOMAIN r.holds : HoldsEmail(t, r.holds[k]),
           \A s \in Threads \ {t} : task[s].at = "insert_name" =>
             \A u \in users' : u.who.email # Row(s).email
    PROVE  \A s \in Threads : EmailEntered(s)'
<1> SUFFICES ASSUME NEW s \in Threads, task'[s].at = "insert_name" PROVE EmailEntered(s)'
  BY DEF EmailEntered
<1>1. task'[t] = r /\ \A v \in Threads \ {t} : task'[v] = task[v]
  BY DEF TypeOK
<1>2. s # t /\ task'[s] = task[s] /\ Row(s)' = Row(s)
  BY <1>1 DEF Row
<1>3. \A k \in DOMAIN task[s].holds : task[s].holds[k].email # Row(s).email
  BY <1>2 DEF EmailEntered
<1>4. ASSUME NEW v \in Threads \ {s}, HoldsEmail(v, Row(s))' PROVE FALSE
  <2>1. ~HoldsEmail(v, Row(s))
    BY <1>2 DEF EmailEntered
  <2>2. CASE v = t
    <3>1. PICK k \in DOMAIN r.holds : r.holds[k].email = Row(s).email
      BY <1>1, <1>2, <1>4, <2>2 DEF HoldsEmail
    <3>2. HoldsEmail(t, r.holds[k])
      OBVIOUS
    <3> QED
      BY <2>1, <2>2, <3>1, <3>2 DEF HoldsEmail
  <2>3. CASE v # t
    BY <1>1, <1>2, <1>4, <2>1, <2>3 DEF HoldsEmail, Row
  <2> QED
    BY <2>2, <2>3
<1> QED
  BY <1>2, <1>3, <1>4 DEF EmailEntered

\* A thread goes on, and nobody's account, membership or uncommitted rows change but that
\* it may drop its own.
LEMMA TaskStep ==
    ASSUME AccountsInv, NEW t \in Threads, NEW r \in Tasks,
           task' = [task EXCEPT ![t] = r],
           TaskFits(r), AnswerHolds(r),
           r.holds = NoRow \/ r.holds = task[t].holds, r.at # "insert_name",
           users' = users, members' = members,
           lastId' \in Nat, lastId' >= lastId,
           conns' \in SUBSET [id : Nat, org : Nat \cup {None}]
    PROVE  AccountsInv'
<1>1. users' = users /\ members' = members
  OBVIOUS
<1>2. task' \in [Threads -> Tasks] /\ task'[t] = r
  BY DEF AccountsInv, TypeOK
<1>3. \A s \in Threads \ {t} : task'[s] = task[s]
  BY DEF AccountsInv, TypeOK
<1>4. TypeOK'
  BY <1>1, <1>2 DEF AccountsInv, TypeOK
<1>5. ASSUME NEW s \in Threads PROVE TaskFits(task[s])' /\ AnswerHolds(task[s])'
  <2>1. TaskFits(task'[s]) /\ AnswerHolds(task'[s])
    BY <1>2, <1>3 DEF AccountsInv
  <2> QED
    BY <1>1, <2>1 DEF TaskFits, AnswerHolds
<1>6. \A s \in Threads : task'[s].holds = task[s].holds \/ task'[s].holds = NoRow
  BY <1>2, <1>3
<1>7. IndexesHold'
  BY <1>1, <1>6, NoRows
     DEF AccountsInv, IndexesHold, OneAccountPerIdentity, Distinct, Apart, NewRows
<1>8. EveryUserHasAWorkspace'
  BY <1>1 DEF AccountsInv, EveryUserHasAWorkspace
<1>9. IdsTaken'
  BY <1>1 DEF AccountsInv, IdsTaken, TypeOK
<1>10. \A k \in DOMAIN r.holds : HoldsEmail(t, r.holds[k])
  BY NoRows DEF HoldsEmail
<1>11. \A s \in Threads : task[s].at = "insert_name" => \A u \in users : u.who.email # Row(s).email
  BY DEF AccountsInv, EmailEntered
<1>12. \A s \in Threads : EmailEntered(s)'
  <2>1. TypeOK /\ \A s \in Threads : EmailEntered(s)
    BY DEF AccountsInv
  <2> QED
    BY <1>1, <1>10, <1>11, <2>1, EmailsKept
<1> QED
  BY <1>4, <1>5, <1>7, <1>8, <1>9, <1>12 DEF AccountsInv

\* A task ends.
LEMMA EndStep ==
    ASSUME AccountsInv, NEW t \in Threads, NEW answer \in Answers, End(t, answer),
           task[t].kind \in Forms /\ answer \notin {"crashed", "victim"} =>
             \E u \in users :
               IF answer \in {"created", "found"} THEN u.who.email = task[t].wants[1].email
               ELSE Same(u.who, task[t].wants[1]),
           users' = users, members' = members,
           lastId' \in Nat, lastId' >= lastId,
           conns' \in SUBSET [id : Nat, org : Nat \cup {None}]
    PROVE  AccountsInv'
<1> DEFINE r == [Idle EXCEPT !.kind = task[t].kind, !.wants = task[t].wants, !.answer = answer]
<1>1. task[t].kind \in Kinds /\ task[t].wants \in Seq(Identity)
  BY DEF AccountsInv, TypeOK, Tasks
<1>2. /\ r.at = "idle" /\ r.kind = task[t].kind /\ r.holds = NoRow
      /\ r.wants = task[t].wants /\ r.answer = answer
  BY IdleIs
<1>3. r \in Tasks
  BY <1>1, IdleIs, NoRows DEF Tasks, Steps
<1>4. task' = [task EXCEPT ![t] = r]
  BY DEF End
<1> HIDE DEF r
<1>5. TaskFits(r) /\ AnswerHolds(r)
  BY <1>2 DEF TaskFits, AnswerHolds, Inserting
<1> QED
  BY <1>2, <1>3, <1>4, <1>5, TaskStep

-----------------------------------------------------------------------------

LEMMA BeginStep ==
    ASSUME AccountsInv, NEW t \in Threads, Accept(t)
    PROVE  AccountsInv'
<1>1. lastId \in Nat /\ conns \in SUBSET [id : Nat, org : Nat \cup {None}]
  BY DEF AccountsInv, TypeOK
<1>2. ASSUME NEW kind \in Kinds, NEW at \in {"find", "email", "insert", "commit"},
             NEW wants \in Seq(Identity), NEW caller \in Nat \cup {None}, Begin(t, kind, at, wants, caller),
             at \in {"find", "email"} => Len(wants) = 1,
             at = "insert" => kind = "seed_db",
             at = "find" => wants[1] = Demo,
             at = "insert" => Len(wants) > 0,
             at = "commit" <=> kind = "org",
             kind = "org" => \E u \in users : u.id = caller
      PROVE  AccountsInv'
  <2> DEFINE r == [Idle EXCEPT !.kind = kind, !.at = at, !.wants = wants, !.caller = caller]
  <2>1. r \in Tasks
    BY IdleIs, NoRows DEF Tasks, Answers, Steps
  <2>2. /\ r.at = at /\ r.kind = kind /\ r.holds = NoRow
        /\ r.wants = wants /\ r.caller = caller
    BY IdleIs
  <2>3. task' = [task EXCEPT ![t] = r] /\ users' = users /\ members' = members
    BY <1>2 DEF Begin, accounts
  <2>5. /\ conns' \in SUBSET [id : Nat, org : Nat \cup {None}]
        /\ lastId' \in Nat /\ lastId' >= lastId
    BY <1>1, <1>2 DEF Begin, demoRows
  <2> HIDE DEF r
  <2>4. TaskFits(r) /\ AnswerHolds(r)
    BY <1>2, <2>2, NoRows DEF TaskFits, AnswerHolds, Forms, Inserting
  <2> QED
    BY <2>1, <2>2, <2>3, <2>4, <2>5, TaskStep
<1>3. ASSUME NEW i \in Identity, NEW kind \in Kinds, NEW at \in {"find", "email"},
             at = "find" => i = Demo, kind # "org",
             Begin(t, kind, at, <<i>>, None)
      PROVE  AccountsInv'
  <2> DEFINE w == <<i>>
  <2>1. w \in Seq(Identity) /\ Len(w) = 1 /\ w[1] = i /\ Begin(t, kind, at, w, None)
    BY <1>3, OneRow
  <2> HIDE DEF w
  <2>2. at \in {"find", "email", "insert", "commit"}
    OBVIOUS
  <2>3. at # "insert" /\ at # "commit" /\ kind # "org"
    BY <1>3
  <2> QED
    BY <1>2, <1>3, <2>1, <2>2, <2>3
<1>4. ASSUME NEW i \in Identities, Register(t, i) PROVE AccountsInv'
  <2>1. i \in Identity
    BY DEF Identity
  <2> QED
    BY <1>3, <1>4, <2>1 DEF Register, Kinds
<1>5. Demo \in Identity
  BY DEF Identity
<1>6. CASE DemoLogin(t)
  BY <1>3, <1>5, <1>6 DEF DemoLogin, Kinds
<1>7. CASE SeedDemo(t)
  BY <1>3, <1>5, <1>7 DEF SeedDemo, Kinds
<1>8. CASE SeedDb(t)
  <2>1. TestUsers \in Seq(Identity) /\ Len(TestUsers) > 0
    BY AccountsAssumption
  <2> QED
    BY <1>2, <1>8, <2>1 DEF SeedDb, Forms, Kinds, Steps
<1>9. ASSUME NEW u \in users, CreateOrganization(t, u) PROVE AccountsInv'
  <2>1. u.id \in Nat
    BY DEF AccountsInv, TypeOK, UserRows
  <2>2. Begin(t, "org", "commit", NoRow, u.id)
    BY <1>9 DEF CreateOrganization, NoRow
  <2>3. \E v \in users : v.id = u.id
    OBVIOUS
  <2> DEFINE caller == u.id
  <2>4. caller \in Nat \cup {None} /\ Begin(t, "org", "commit", NoRow, caller)
    BY <2>1, <2>2
  <2>5. \E v \in users : v.id = caller
    BY <2>3
  <2> HIDE DEF caller
  <2>6. "org" \in Kinds /\ "commit" \in {"find", "email", "insert", "commit"} /\ "org" \notin Forms
    BY DEF Forms, Kinds
  <2> QED
    BY <1>2, <2>4, <2>5, <2>6, NoRows
<1> QED
  BY <1>4, <1>6, <1>7, <1>8, <1>9 DEF Accept

\* The two queries before the insert.
LEMMA CheckStep ==
    ASSUME AccountsInv, NEW t \in Threads, FindDemo(t) \/ CheckEmail(t) \/ CheckName(t)
    PROVE  AccountsInv'
<1> DEFINE i == task[t].wants[1]
<1>1. task[t] \in Tasks /\ TaskFits(task[t])
  BY DEF AccountsInv, TypeOK
<1>2. /\ users' = users /\ members' = members
      /\ conns' \in SUBSET [id : Nat, org : Nat \cup {None}]
      /\ lastId' \in Nat /\ lastId' >= lastId
  BY DEF FindDemo, CheckEmail, CheckName, accounts, demoRows, AccountsInv, TypeOK
<1>3. task[t].at \in {"find", "email", "name"} /\ task[t].holds = NoRow /\ Len(task[t].wants) = 1
  BY <1>1 DEF FindDemo, CheckEmail, CheckName, TaskFits, Inserting
<1>4. ASSUME NEW at \in {"email", "name", "insert", "list"}, Go(t, at),
             at = "list" => task[t].kind = "seed_demo"
      PROVE  AccountsInv'
  <2> DEFINE r == [task[t] EXCEPT !.at = at]
  <2>1. /\ r \in Tasks /\ r.at = at /\ r.kind = task[t].kind /\ r.holds = task[t].holds
        /\ r.wants = task[t].wants
    BY <1>1 DEF Tasks, Steps
  <2>2. task' = [task EXCEPT ![t] = r]
    BY <1>4 DEF Go
  <2> HIDE DEF r
  <2>3. TaskFits(r)
    <3>1. Len(r.holds) < Len(r.wants)
      <4>1. r.holds = NoRow /\ Len(r.wants) = 1
        BY <1>3, <2>1
      <4>2. Len(r.holds) = 0
        BY <4>1, NoRows
      <4> QED
        BY <4>1, <4>2
    <3>2. r.at \in {"email", "name", "insert", "list"}
      BY <2>1
    <3>3. r.holds = NoRow /\ Len(r.wants) = 1
      BY <1>3, <2>1
    <3>4. r.at = "list" => r.kind = "seed_demo"
      BY <1>4, <2>1
    <3>5. r.kind # "org"
      BY <1>1, <1>3, <2>1 DEF TaskFits
    <3> QED
      BY <3>1, <3>2, <3>3, <3>4, <3>5 DEF TaskFits, Inserting
  <2>4. AnswerHolds(r)
    BY <2>1 DEF AnswerHolds
  <2> QED
    BY <1>1, <1>2, <1>3, <2>1, <2>2, <2>3, <2>4, TaskStep
<1>5. ASSUME NEW answer \in {"taken", "error"}, End(t, answer), EmailTaken(i) \/ NameTaken(i)
      PROVE  AccountsInv'
  <2>1. \E u \in users : Same(u.who, i)
    BY <1>5 DEF EmailTaken, NameTaken, Same
  <2> QED
    BY <1>1, <1>2, <1>5, <2>1, EndStep DEF Answers
<1>6. CASE CheckEmail(t)
  BY <1>4, <1>5, <1>6 DEF CheckEmail, Refuse
<1>7. CASE CheckName(t)
  BY <1>4, <1>5, <1>7 DEF CheckName, Refuse
<1>8. CASE FindDemo(t)
  <2>1. CASE Go(t, "email") \/ (Go(t, "list") /\ task[t].kind = "seed_demo")
    BY <1>4, <2>1
  <2>2. CASE End(t, "found") /\ EmailTaken(Demo)
    <3>1. task[t].kind \in Forms => i = Demo
      BY <1>1, <1>8 DEF FindDemo, TaskFits
    <3> QED
      BY <1>1, <1>2, <2>2, <3>1, EndStep DEF EmailTaken, Answers
  <2> QED
    BY <1>8, <2>1, <2>2 DEF FindDemo
<1> QED
  BY <1>6, <1>7, <1>8

\* The script at work on the demo connections.
LEMMA SeedStep ==
    ASSUME AccountsInv, NEW t \in Threads,
           \/ ListUsers(t) \/ SeedOrg(t) \/ MakeConnection(t)
           \/ ClearData(t) \/ FillData(t) \/ FinishSeeding(t)
    PROVE  AccountsInv'
<1>1. task[t] \in Tasks /\ TaskFits(task[t])
  BY DEF AccountsInv, TypeOK
<1>2. /\ task[t].at \in {"list", "loop", "connect", "clear", "fill"}
      /\ task[t].holds = NoRow /\ task[t].kind = "seed_demo"
  BY <1>1 DEF ListUsers, SeedOrg, MakeConnection, ClearData, FillData, FinishSeeding, TaskFits,
             Inserting
<1>3. users' = users /\ members' = members
  BY DEF ListUsers, SeedOrg, MakeConnection, ClearData, FillData, FinishSeeding, accounts
<1>4. lastId \in Nat /\ conns \in SUBSET [id : Nat, org : Nat \cup {None}]
  BY DEF AccountsInv, TypeOK
<1>5. ASSUME NEW r \in Tasks, task' = [task EXCEPT ![t] = r],
             r.at \in {"loop", "connect", "clear", "fill"},
             r.kind = task[t].kind, r.holds = task[t].holds,
             lastId' \in {lastId, lastId + 1},
             conns' \in SUBSET [id : Nat, org : Nat \cup {None}]
      PROVE  AccountsInv'
  <2>1. TaskFits(r) /\ AnswerHolds(r)
    BY <1>2, <1>5 DEF TaskFits, AnswerHolds, Forms, Inserting
  <2>2. lastId' \in Nat /\ lastId' >= lastId
    BY <1>4, <1>5
  <2> QED
    BY <1>3, <1>5, <2>1, <2>2, TaskStep
<1>6. ASSUME NEW answer \in {"seeded", "error"}, End(t, answer),
             lastId' = lastId, conns' = conns
      PROVE  AccountsInv'
  <2>1. answer \in Answers /\ task[t].kind \notin Forms
    BY <1>2 DEF Answers, Forms
  <2>2. lastId' \in Nat /\ lastId' >= lastId
    BY <1>4, <1>6
  <2> QED
    BY <1>3, <1>4, <1>6, <2>1, <2>2, EndStep
<1>7. CASE ListUsers(t)
  <2> DEFINE r == [task[t] EXCEPT !.at = "loop",
                                  !.todo = {u.id : u \in users} \cap {m.user : m \in members}]
  <2>1. {m.user : m \in members} \in SUBSET Nat
    BY DEF AccountsInv, TypeOK
  <2>2. /\ r \in Tasks /\ r.at = "loop" /\ r.kind = task[t].kind /\ r.holds = task[t].holds
    BY <1>1, <2>1 DEF Tasks, Steps
  <2>3. task' = [task EXCEPT ![t] = r] /\ conns' = conns /\ lastId' = lastId
    BY <1>7 DEF ListUsers, demoRows, AccountsInv, TypeOK
  <2> QED
    BY <1>4, <1>5, <2>2, <2>3
<1>8. CASE SeedOrg(t)
  <2>1. PICK m \in members :
          IF DemoConnections(m.org) = {}
          THEN task' = [task EXCEPT ![t].at = "connect", ![t].org = m.org, ![t].todo = @ \ {m.user}]
          ELSE \E c \in DemoConnections(m.org) :
                 task' = [task EXCEPT ![t].at = "clear", ![t].conn = c.id, ![t].todo = @ \ {m.user}]
    BY <1>8 DEF SeedOrg
  <2>2. m.org \in Nat /\ conns' = conns /\ lastId' = lastId
    BY <1>8 DEF AccountsInv, TypeOK, SeedOrg, demoRows
  <2>3. CASE task' = [task EXCEPT ![t].at = "connect", ![t].org = m.org, ![t].todo = @ \ {m.user}]
    <3> DEFINE r == [task[t] EXCEPT !.at = "connect", !.org = m.org, !.todo = @ \ {m.user}]
    <3>1. r \in Tasks /\ r.at = "connect" /\ r.kind = task[t].kind /\ r.holds = task[t].holds
      BY <1>1, <2>2 DEF Tasks, Steps
    <3>2. task' = [task EXCEPT ![t] = r]
      BY <2>3 DEF AccountsInv, TypeOK
    <3> QED
      BY <1>4, <1>5, <2>2, <3>1, <3>2
  <2>4. ASSUME NEW c \in DemoConnections(m.org),
               task' = [task EXCEPT ![t].at = "clear", ![t].conn = c.id, ![t].todo = @ \ {m.user}]
        PROVE  AccountsInv'
    <3> DEFINE r == [task[t] EXCEPT !.at = "clear", !.conn = c.id, !.todo = @ \ {m.user}]
    <3>1. c.id \in Nat
      BY <1>4 DEF DemoConnections
    <3>2. r \in Tasks /\ r.at = "clear" /\ r.kind = task[t].kind /\ r.holds = task[t].holds
      BY <1>1, <3>1 DEF Tasks, Steps
    <3>3. task' = [task EXCEPT ![t] = r]
      BY <2>4 DEF AccountsInv, TypeOK
    <3> QED
      BY <1>4, <1>5, <2>2, <3>2, <3>3
  <2> QED
    BY <2>1, <2>3, <2>4
<1>9. CASE MakeConnection(t)
  <2> DEFINE id == lastId + 1
             r == [task[t] EXCEPT !.at = "clear", !.conn = id]
  <2>5. id \in Nat /\ id = lastId + 1
    BY <1>4
  <2> HIDE DEF id
  <2>1. r \in Tasks /\ r.at = "clear" /\ r.kind = task[t].kind /\ r.holds = task[t].holds
    BY <1>1, <2>5 DEF Tasks, Steps
  <2>2. task' = [task EXCEPT ![t] = r] /\ lastId' = lastId + 1
    BY <1>9, <2>5 DEF MakeConnection, AccountsInv, TypeOK
  <2>3. [id |-> lastId + 1, org |-> task[t].org] \in [id : Nat, org : Nat \cup {None}]
    BY <1>1, <1>4 DEF Tasks
  <2>4. conns' \in SUBSET [id : Nat, org : Nat \cup {None}]
    BY <1>4, <1>9, <2>3 DEF MakeConnection
  <2> QED
    BY <1>5, <2>1, <2>2, <2>4
<1>10. CASE ClearData(t)
  <2> DEFINE r == [task[t] EXCEPT !.at = "fill"]
  <2>1. r \in Tasks /\ r.at = "fill" /\ r.kind = task[t].kind /\ r.holds = task[t].holds
    BY <1>1 DEF Tasks, Steps
  <2>2. task' = [task EXCEPT ![t] = r] /\ conns' = conns /\ lastId' = lastId
    BY <1>10 DEF ClearData, Go
  <2> QED
    BY <1>4, <1>5, <2>1, <2>2
<1>11. CASE FillData(t)
  <2> DEFINE r == [task[t] EXCEPT !.at = "loop", !.conn = None, !.org = None]
  <2>1. r \in Tasks /\ r.at = "loop" /\ r.kind = task[t].kind /\ r.holds = task[t].holds
    BY <1>1 DEF Tasks, Steps
  <2>2. conns' = conns
    BY <1>11 DEF FillData
  <2>3. \/ task' = [task EXCEPT ![t] = r] /\ lastId' = lastId + 1
        \/ End(t, "error") /\ lastId' = lastId
    BY <1>11 DEF FillData, AccountsInv, TypeOK
  <2> QED
    BY <1>4, <1>5, <1>6, <2>1, <2>2, <2>3
<1>12. CASE FinishSeeding(t)
  BY <1>6, <1>12 DEF FinishSeeding, demoRows
<1> QED
  BY <1>7, <1>8, <1>9, <1>10, <1>11, <1>12

\* Nobody's task changes, or a task dies or is aborted.
LEMMA OutsideStep ==
    ASSUME AccountsInv,
           \/ \E c \in conns : Disconnect(c)
           \/ \E t \in Threads : AbortDeadlock(t) \/ Crash(t)
           \/ UNCHANGED vars
    PROVE  AccountsInv'
<1>1. lastId \in Nat /\ conns \in SUBSET [id : Nat, org : Nat \cup {None}]
  BY DEF AccountsInv, TypeOK
<1>2. ASSUME NEW t \in Threads, AbortDeadlock(t) \/ Crash(t) PROVE AccountsInv'
  <2>1. PICK answer \in {"crashed", "victim"} : End(t, answer)
    BY <1>2 DEF AbortDeadlock, Crash
  <2>2. /\ users' = users /\ members' = members /\ lastId' = lastId /\ conns' = conns
        /\ answer \in Answers
    BY <1>2 DEF AbortDeadlock, Crash, accounts, demoRows, Answers
  <2>3. lastId' \in Nat /\ lastId' >= lastId
    BY <1>1, <2>2
  <2> QED
    BY <1>1, <2>1, <2>2, <2>3, EndStep
<1>3. ASSUME UNCHANGED <<users, members, lastId, task>>, conns' \subseteq conns
      PROVE  AccountsInv'
  <2>1. TypeOK'
    BY <1>3 DEF AccountsInv, TypeOK
  <2>2. \A t \in Threads : TaskFits(task[t])' /\ AnswerHolds(task[t])'
    BY <1>3 DEF AccountsInv, TaskFits, AnswerHolds
  <2>3. IndexesHold' /\ EveryUserHasAWorkspace' /\ IdsTaken'
    BY <1>3 DEF AccountsInv, IndexesHold, OneAccountPerIdentity, Distinct, NewRows, Apart,
                EveryUserHasAWorkspace, IdsTaken
  <2>4. \A t \in Threads : EmailEntered(t)'
    BY <1>3 DEF AccountsInv, EmailEntered, HoldsEmail, Row
  <2> QED
    BY <2>1, <2>2, <2>3, <2>4 DEF AccountsInv
<1>4. ASSUME NEW c \in conns, Disconnect(c) PROVE AccountsInv'
  BY <1>3, <1>4 DEF Disconnect, accounts
<1>5. CASE UNCHANGED vars
  BY <1>3, <1>5 DEF vars, accounts, demoRows
<1> QED
  BY <1>2, <1>4, <1>5

\* An insert is refused a key that is committed, or its own transaction's.
LEMMA RefusedStep ==
    ASSUME AccountsInv, NEW t \in Threads, task[t].at \in Inserting, End(t, "error"),
           \/ EmailTaken(Row(t)) \/ NameTaken(Row(t))
           \/ \E k \in DOMAIN task[t].holds : Same(task[t].holds[k], Row(t)),
           users' = users, members' = members, lastId' = lastId, conns' = conns
    PROVE  AccountsInv'
<1>1. /\ task[t] \in Tasks /\ TaskFits(task[t])
      /\ lastId \in Nat /\ conns \in SUBSET [id : Nat, org : Nat \cup {None}]
  BY DEF AccountsInv, TypeOK
<1>2. "error" \in Answers /\ lastId' \in Nat /\ lastId' >= lastId
  BY <1>1 DEF Answers
<1>3. ASSUME task[t].kind \in Forms PROVE \E u \in users : Same(u.who, task[t].wants[1])
  <2>1. Len(task[t].wants) = 1 /\ Len(task[t].holds) < 1
    BY <1>1, <1>3 DEF TaskFits, Forms
  <2>2. task[t].holds \in Seq(Identity)
    BY <1>1 DEF Tasks
  <2>3. Len(task[t].holds) = 0 /\ DOMAIN task[t].holds = {}
    BY <2>1, <2>2
  <2>4. Row(t) = task[t].wants[1]
    BY <2>3 DEF Row
  <2> QED
    BY <2>3, <2>4 DEF EmailTaken, NameTaken, Same
<1> QED
  BY <1>1, <1>2, <1>3, EndStep

\* An email is entered where nobody else has it.
LEMMA EmailStep ==
    ASSUME AccountsInv, NEW t \in Threads, EnterEmail(t)
    PROVE  AccountsInv'
<1>1. /\ task[t] \in Tasks /\ TaskFits(task[t]) /\ task \in [Threads -> Tasks]
      /\ users' = users /\ members' = members /\ lastId' = lastId /\ conns' = conns
      /\ task[t].at = "insert"
  BY DEF EnterEmail, accounts, demoRows, AccountsInv, TypeOK
<1>2. CASE End(t, "error") /\ EmailRefused(t)
  BY <1>1, <1>2, RefusedStep DEF EmailRefused, HoldsEmail, Same, Inserting
<1>3. CASE Go(t, "insert_name") /\ ~EmailRefused(t)
  <2> DEFINE r == [task[t] EXCEPT !.at = "insert_name"]
  <2>1. /\ r \in Tasks /\ r.at = "insert_name" /\ r.kind = task[t].kind
        /\ r.holds = task[t].holds /\ r.wants = task[t].wants
    BY <1>1 DEF Tasks, Steps
  <2>2. task' = [task EXCEPT ![t] = r]
    BY <1>3 DEF Go
  <2> HIDE DEF r
  <2>3. task' \in [Threads -> Tasks] /\ task'[t] = r /\ \A s \in Threads \ {t} : task'[s] = task[s]
    BY <1>1, <2>1, <2>2
  <2>4. TypeOK'
    BY <1>1, <2>3 DEF AccountsInv, TypeOK
  <2>5. TaskFits(r) /\ AnswerHolds(r)
    BY <1>1, <2>1 DEF TaskFits, AnswerHolds, Inserting
  <2>6. ASSUME NEW s \in Threads PROVE TaskFits(task[s])' /\ AnswerHolds(task[s])'
    <3>1. TaskFits(task'[s]) /\ AnswerHolds(task'[s])
      BY <2>3, <2>5 DEF AccountsInv
    <3> QED
      BY <1>1, <3>1 DEF TaskFits, AnswerHolds
  <2>7. \A s \in Threads : task'[s].holds = task[s].holds /\ Row(s)' = Row(s)
    BY <2>1, <2>3 DEF Row
  <2>8. IndexesHold'
    BY <1>1, <2>7
       DEF AccountsInv, IndexesHold, OneAccountPerIdentity, Distinct, Apart, NewRows
  <2>9. ASSUME NEW s \in Threads, task'[s].at = "insert_name" PROVE EmailEntered(s)'
    <3>1. CASE s = t
      <4>1. ~EmailTaken(Row(t)) /\ ~HoldsEmail(t, Row(t))
        BY <1>3 DEF EmailRefused
      <4>2. \A v \in Threads \ {t} : ~HoldsEmail(v, Row(t))
        BY <1>1 DEF EnterEmail, WaitsFor
      <4>3. \A v \in Threads \ {t} : ~HoldsEmail(v, Row(t))'
        BY <2>3, <2>7, <4>2 DEF HoldsEmail
      <4> QED
        BY <1>1, <2>7, <3>1, <4>1, <4>3 DEF EmailEntered, EmailTaken, HoldsEmail
    <3>2. CASE s # t
      <4>1. EmailEntered(s) /\ task[s].at = "insert_name" /\ task'[s] = task[s]
        BY <2>3, <2>9, <3>2 DEF AccountsInv
      <4>2. ~HoldsEmail(s, Row(t))
        BY <1>1, <3>2 DEF EnterEmail, WaitsFor
      <4>3. Row(s).email # Row(t).email
        BY <4>1, <4>2 DEF HoldsEmail
      <4>4. ~HoldsEmail(t, Row(s))'
        BY <2>3, <2>7, <3>2, <4>1, <4>3 DEF EmailEntered, HoldsEmail
      <4>5. \A v \in Threads \ {s, t} : ~HoldsEmail(v, Row(s))'
        BY <2>3, <2>7, <4>1 DEF EmailEntered, HoldsEmail
      <4> QED
        BY <1>1, <2>7, <4>1, <4>4, <4>5 DEF EmailEntered
    <3> QED
      BY <3>1, <3>2
  <2>10. \A s \in Threads : EmailEntered(s)'
    BY <2>9 DEF EmailEntered
  <2>11. EveryUserHasAWorkspace' /\ IdsTaken'
    BY <1>1 DEF AccountsInv, EveryUserHasAWorkspace, IdsTaken
  <2> QED
    BY <2>4, <2>6, <2>8, <2>10, <2>11 DEF AccountsInv
<1> QED
  BY <1>2, <1>3 DEF EnterEmail

\* A row is entered in both indexes: its email was, and no other transaction, no committed
\* row and none of its own has its username.
LEMMA NameStep ==
    ASSUME AccountsInv, NEW t \in Threads, EnterName(t)
    PROVE  AccountsInv'
<1> DEFINE h == task[t].holds
           w == task[t].wants
           i == w[Len(h) + 1]
<1>1. /\ task[t] \in Tasks /\ TaskFits(task[t])
      /\ lastId \in Nat /\ conns \in SUBSET [id : Nat, org : Nat \cup {None}]
      /\ task \in [Threads -> Tasks] /\ users \in SUBSET UserRows
      /\ members \in SUBSET [user : Nat, org : Nat]
  BY DEF AccountsInv, TypeOK
<1>2. /\ users' = users /\ members' = members /\ lastId' = lastId /\ conns' = conns
      /\ task[t].at = "insert_name" /\ Row(t) = i
      /\ \A s \in Threads : ~WaitsFor(t, s)
  BY DEF EnterName, accounts, demoRows, Row
<1>3. h \in Seq(Identity) /\ w \in Seq(Identity) /\ Len(h) < Len(w)
  BY <1>1, <1>2 DEF Tasks, TaskFits, Inserting
<1>4. i \in Identity /\ Len(h) \in Nat /\ Len(w) \in Nat
  BY <1>3
<1>5. CASE End(t, "error") /\ NameRefused(t)
  BY <1>2, <1>5, RefusedStep DEF NameRefused, HoldsName, Same, Inserting
<1>6. ASSUME ~NameRefused(t),
             task' = [task EXCEPT ![t].holds = Append(@, i),
                        ![t].at = IF Len(w) = Len(h) + 1 THEN "commit" ELSE "insert"]
      PROVE  AccountsInv'
  <2> DEFINE g == Append(h, i)
             at == IF Len(w) = Len(h) + 1 THEN "commit" ELSE "insert"
             r == [task[t] EXCEPT !.holds = g, !.at = at]
  <2>1. task' = [task EXCEPT ![t] = r]
    BY <1>1, <1>6
  <2>2. /\ g \in Seq(Identity) /\ Len(g) = Len(h) + 1
        /\ DOMAIN g = DOMAIN h \cup {Len(h) + 1} /\ Len(h) + 1 \notin DOMAIN h
        /\ \A k \in DOMAIN h : g[k] = h[k]
        /\ g[Len(h) + 1] = i
    BY <1>3, <1>4
  <2>3. at \in {"commit", "insert"} /\ (at = "commit" <=> Len(w) = Len(h) + 1)
    OBVIOUS
  <2> HIDE DEF g, at
  <2>4. /\ r \in Tasks /\ r.holds = g /\ r.at = at /\ r.wants = w /\ r.kind = task[t].kind
    BY <1>1, <2>2, <2>3 DEF Tasks, Steps
  <2> HIDE DEF r
  <2>5. task' \in [Threads -> Tasks] /\ task'[t] = r /\ \A s \in Threads \ {t} : task'[s] = task[s]
    BY <1>1, <2>1, <2>4
  <2>6. TypeOK'
    BY <1>1, <1>2, <2>5 DEF TypeOK
  <2>7. TaskFits(r)
    <3>1. r.kind # "seed_db" => Len(w) = 1
      BY <1>1, <1>2, <2>4 DEF TaskFits, Inserting
    <3>2. r.at = "insert" => Len(g) < Len(w)
      BY <1>3, <1>4, <2>2, <2>3, <2>4
    <3>3. r.kind \in Forms => Len(h) = 0
      BY <1>3, <1>4, <3>1 DEF Forms
    <3>4. r.kind \in Forms => w[1] = g[1] /\ Len(g) = 1
      BY <2>2, <3>3
    <3>5. r.kind # "org"
      BY <1>1, <1>2, <2>4 DEF TaskFits, Inserting
    <3> QED
      BY <2>3, <2>4, <3>1, <3>2, <3>4, <3>5 DEF TaskFits, Inserting
  <2>8. AnswerHolds(r)
    BY <2>3, <2>4 DEF AnswerHolds
  <2>9. \A s \in Threads : TaskFits(task[s])' /\ AnswerHolds(task[s])'
    <3> SUFFICES ASSUME NEW s \in Threads PROVE TaskFits(task[s])' /\ AnswerHolds(task[s])'
      OBVIOUS
    <3>1. TaskFits(task'[s]) /\ AnswerHolds(task'[s])
      BY <2>5, <2>7, <2>8 DEF AccountsInv
    <3> QED
      BY <1>2, <3>1 DEF TaskFits, AnswerHolds
  <2>10. EmailEntered(t)
    BY DEF AccountsInv
  <2>11. \A u \in users : ~Same(u.who, i)
    BY <1>2, <1>6, <2>10 DEF NameRefused, NameTaken, EmailEntered, Same
  <2>12. \A k \in DOMAIN h : ~Same(h[k], i) /\ ~Same(i, h[k])
    BY <1>2, <1>6, <2>10 DEF NameRefused, HoldsName, EmailEntered, Same
  <2>13. \A s \in Threads \ {t} : \A k \in DOMAIN task[s].holds :
           ~Same(task[s].holds[k], i) /\ ~Same(i, task[s].holds[k])
    BY <1>2, <2>10 DEF WaitsFor, HoldsName, HoldsEmail, EmailEntered, Same
  <2>14. \A k \in DOMAIN g : HoldsEmail(t, g[k])
    BY <1>2, <2>2 DEF HoldsEmail
  <2>15. \A s \in Threads : EmailEntered(s)'
    <3>1. r.at # "insert_name" /\ r.holds = g
      BY <2>3, <2>4
    <3>2. TypeOK /\ \A s \in Threads : EmailEntered(s)
      BY DEF AccountsInv
    <3>3. \A s \in Threads : task[s].at = "insert_name" =>
            \A u \in users' : u.who.email # Row(s).email
      BY <1>2, <3>2 DEF EmailEntered
    <3> QED
      BY <2>1, <2>14, <3>1, <3>2, <3>3, EmailsKept
  <2> HIDE DEF i, h
  <2>16. Distinct(g)
    <3>1. Distinct(h)
      BY DEF AccountsInv, IndexesHold, h
    <3> QED
      BY <2>2, <2>12, <3>1 DEF Distinct
  <2>17. NewRows(g)
    <3>1. NewRows(h)
      BY DEF AccountsInv, IndexesHold, h
    <3> QED
      BY <2>2, <2>11, <3>1 DEF NewRows
  <2>18. ASSUME NEW s \in Threads \ {t}
         PROVE  Apart(task[s].holds, g) /\ Apart(g, task[s].holds)
    <3>1. Apart(task[s].holds, h) /\ Apart(h, task[s].holds)
      BY DEF AccountsInv, IndexesHold, h
    <3> QED
      BY <2>2, <2>13, <3>1 DEF Apart
  <2>19. IndexesHold'
    <3>1. OneAccountPerIdentity'
      BY <1>2 DEF AccountsInv, IndexesHold, OneAccountPerIdentity
    <3>2. ASSUME NEW s \in Threads
          PROVE  /\ Distinct(task'[s].holds) /\ NewRows(task'[s].holds)
                 /\ \A v \in Threads \ {s} : Apart(task'[v].holds, task'[s].holds)
      <4>1. CASE s = t
        BY <2>4, <2>5, <2>16, <2>17, <2>18, <4>1
      <4>2. CASE s # t
        <5>1. /\ Distinct(task[s].holds) /\ NewRows(task[s].holds)
              /\ \A v \in Threads \ {s} : Apart(task[v].holds, task[s].holds)
          BY DEF AccountsInv, IndexesHold
        <5> QED
          BY <2>4, <2>5, <2>18, <4>2, <5>1
      <4> QED
        BY <4>1, <4>2
    <3>3. \A s \in Threads : NewRows(task'[s].holds) => NewRows(task[s].holds)'
      BY <1>2 DEF NewRows
    <3> QED
      BY <3>1, <3>2, <3>3 DEF IndexesHold, Distinct, Apart
  <2>20. EveryUserHasAWorkspace' /\ IdsTaken'
    BY <1>2 DEF AccountsInv, EveryUserHasAWorkspace, IdsTaken
  <2> QED
    BY <2>6, <2>9, <2>15, <2>19, <2>20 DEF AccountsInv
<1> QED
  BY <1>5, <1>6 DEF EnterName, Row

\* Accounts and memberships are added, and the task that adds them ends, or goes on to
\* seed demo connections.
LEMMA GrowStep ==
    ASSUME AccountsInv, NEW t \in Threads, NEW r \in Tasks,
           task' = [task EXCEPT ![t] = r],
           users \subseteq users', users' \in SUBSET UserRows,
           members' \in SUBSET [user : Nat, org : Nat],
           lastId' \in Nat, conns' = conns,
           r.holds = NoRow,
           r.at = "idle" \/ (r.at = "list" /\ r.kind = "seed_demo"),
           r.at = "idle" /\ r.kind \in Forms =>
             r.answer = "created" /\ \E u \in users' : u.who.email = r.wants[1].email,
           \A u, v \in users' : Same(u.who, v.who) => u = v,
           \A s \in Threads \ {t} : \A k \in DOMAIN task[s].holds :
             \A u \in users' : ~Same(u.who, task[s].holds[k]),
           \A s \in Threads \ {t} : task[s].at = "insert_name" =>
             \A u \in users' : u.who.email # Row(s).email,
           EveryUserHasAWorkspace', IdsTaken'
    PROVE  AccountsInv'
<1>1. task' \in [Threads -> Tasks] /\ task'[t] = r /\ \A s \in Threads \ {t} : task'[s] = task[s]
  BY DEF AccountsInv, TypeOK
<1>2. TypeOK'
  BY <1>1 DEF AccountsInv, TypeOK
<1>3. ASSUME NEW s \in Threads PROVE TaskFits(task[s])'
  <2>1. CASE s = t
    BY <1>1, <2>1 DEF TaskFits, Forms, Inserting
  <2>2. CASE s # t
    <3>1. TaskFits(task[s]) /\ task'[s] = task[s]
      BY <1>1, <2>2 DEF AccountsInv
    <3> QED
      BY <3>1 DEF TaskFits
  <2> QED
    BY <2>1, <2>2
<1>4. ASSUME NEW s \in Threads PROVE AnswerHolds(task[s])'
  <2>1. CASE s = t
    BY <1>1, <2>1 DEF AnswerHolds
  <2>2. CASE s # t
    <3>1. AnswerHolds(task[s]) /\ task'[s] = task[s]
      BY <1>1, <2>2 DEF AccountsInv
    <3> QED
      BY <3>1 DEF AnswerHolds
  <2> QED
    BY <2>1, <2>2
<1>5. IndexesHold'
  <2>1. OneAccountPerIdentity'
    BY DEF OneAccountPerIdentity
  <2>2. ASSUME NEW s \in Threads
        PROVE  /\ Distinct(task'[s].holds)
               /\ \A k \in DOMAIN task'[s].holds : \A u \in users' : ~Same(u.who, task'[s].holds[k])
               /\ \A v \in Threads \ {s} : Apart(task'[v].holds, task'[s].holds)
    <3>1. CASE s = t
      BY <1>1, <3>1, NoRows DEF Distinct, Apart
    <3>2. CASE s # t
      <4>1. /\ Distinct(task[s].holds) /\ task'[s] = task[s]
            /\ \A v \in Threads \ {s} : Apart(task[v].holds, task[s].holds)
        BY <1>1, <3>2 DEF AccountsInv, IndexesHold
      <4>2. \A v \in Threads : task'[v].holds = task[v].holds \/ task'[v].holds = NoRow
        BY <1>1
      <4> QED
        BY <3>2, <4>1, <4>2, NoRows DEF Apart
    <3> QED
      BY <3>1, <3>2
  <2> QED
    BY <2>1, <2>2 DEF IndexesHold, Distinct, NewRows, Apart
<1>6. \A s \in Threads : EmailEntered(s)'
  <2>1. TypeOK /\ (\A s \in Threads : EmailEntered(s)) /\ DOMAIN r.holds = {}
    BY NoRows DEF AccountsInv
  <2>2. r.at # "insert_name"
    OBVIOUS
  <2> QED
    BY <2>1, <2>2, EmailsKept
<1> QED
  BY <1>2, <1>3, <1>4, <1>5, <1>6 DEF AccountsInv

\* Another organization of somebody who is there.
LEMMA OrganizationStep ==
    ASSUME AccountsInv, NEW t \in Threads, CommitOrganization(t)
    PROVE  AccountsInv'
<1> DEFINE n == [user |-> task[t].caller, org |-> lastId + 1]
           r == [Idle EXCEPT !.kind = task[t].kind, !.wants = task[t].wants, !.answer = "created"]
<1>1. /\ task[t] \in Tasks /\ TaskFits(task[t])
      /\ lastId \in Nat /\ users \in SUBSET UserRows
      /\ members \in SUBSET [user : Nat, org : Nat]
  BY DEF AccountsInv, TypeOK
<1>2. /\ users' = users /\ conns' = conns /\ lastId' = lastId + 1
      /\ task[t].at = "commit" /\ task[t].kind = "org"
      /\ members' = members \cup {n}
      /\ task' = [task EXCEPT ![t] = r]
  BY DEF CommitOrganization, demoRows, End
<1>3. PICK u \in users : u.id = task[t].caller
  BY <1>1, <1>2 DEF TaskFits
<1>4. n \in [user : Nat, org : Nat] /\ n.user = u.id /\ n.org = lastId + 1
  BY <1>1, <1>3 DEF UserRows
<1>5. r \in Tasks
  BY <1>1, IdleIs, NoRows DEF Tasks, Steps, Answers
<1>6. r.at = "idle" /\ r.kind = "org" /\ r.holds = NoRow
  BY <1>2, IdleIs
<1> HIDE DEF n, r
<1>7. EveryUserHasAWorkspace'
  <2>1. \A m \in members : m.org # n.org
    BY <1>1, <1>4 DEF AccountsInv, IdsTaken
  <2> QED
    BY <1>2, <1>4, <2>1 DEF AccountsInv, EveryUserHasAWorkspace
<1>8. IdsTaken'
  BY <1>1, <1>2, <1>4 DEF AccountsInv, IdsTaken
<1>9. \A u1, v1 \in users' : Same(u1.who, v1.who) => u1 = v1
  BY <1>2 DEF AccountsInv, IndexesHold, OneAccountPerIdentity
<1>10. \A s \in Threads \ {t} : \A k \in DOMAIN task[s].holds :
         \A v \in users' : ~Same(v.who, task[s].holds[k])
  BY <1>2 DEF AccountsInv, IndexesHold, NewRows
<1>11. /\ members' \in SUBSET [user : Nat, org : Nat] /\ lastId' \in Nat
       /\ users \subseteq users' /\ users' \in SUBSET UserRows
  BY <1>1, <1>2, <1>4
<1>12. r.kind \notin Forms
  BY <1>6 DEF Forms
<1>13. \A s \in Threads \ {t} : task[s].at = "insert_name" =>
         \A v \in users' : v.who.email # Row(s).email
  BY <1>2 DEF AccountsInv, EmailEntered
<1> QED
  BY <1>2, <1>5, <1>6, <1>7, <1>8, <1>9, <1>10, <1>11, <1>12, <1>13, GrowStep

\* The users of one transaction, each with an organization.
LEMMA UsersStep ==
    ASSUME AccountsInv, NEW t \in Threads, CommitUsers(t)
    PROVE  AccountsInv'
<1> DEFINE rows == task[t].holds
           n == Len(rows)
           added == {[id |-> lastId + k, who |-> rows[k]] : k \in DOMAIN rows}
<1>1. /\ task[t] \in Tasks /\ TaskFits(task[t]) /\ task \in [Threads -> Tasks]
      /\ lastId \in Nat /\ users \in SUBSET UserRows
      /\ members \in SUBSET [user : Nat, org : Nat]
  BY DEF AccountsInv, TypeOK
<1>2. /\ users' = users \cup added /\ conns' = conns /\ lastId' = lastId + n
      /\ task[t].at = "commit" /\ task[t].kind # "org"
      /\ members' = members \cup Workspaces(rows)
  BY DEF CommitUsers, demoRows
<1>3. /\ rows \in Seq(Identity) /\ n \in Nat /\ DOMAIN rows = 1 .. n
      /\ \A k \in DOMAIN rows : rows[k] \in Identity
  BY <1>1 DEF Tasks
<1>4. \A k \in DOMAIN rows : k \in Nat /\ 0 < k /\ k <= n
  BY <1>3
<1>5. /\ Distinct(rows) /\ NewRows(rows)
      /\ \A s \in Threads \ {t} : Apart(task[s].holds, rows) /\ Apart(rows, task[s].holds)
  BY DEF AccountsInv, IndexesHold
<1> HIDE DEF n, rows
<1>6. /\ \A k \in DOMAIN rows : \E u \in added : u.id = lastId + k /\ u.who = rows[k]
      /\ \A u \in added : \E k \in DOMAIN rows : u = [id |-> lastId + k, who |-> rows[k]]
  <2>1. ASSUME NEW k \in DOMAIN rows PROVE \E u \in added : u.id = lastId + k /\ u.who = rows[k]
    <3>1. [id |-> lastId + k, who |-> rows[k]] \in added
      OBVIOUS
    <3> QED
      BY <3>1
  <2>2. \A u \in added : \E k \in DOMAIN rows : u = [id |-> lastId + k, who |-> rows[k]]
    OBVIOUS
  <2> QED
    BY <2>1, <2>2
<1>7. /\ \A k \in DOMAIN rows : \E m \in Workspaces(rows) : m.user = lastId + k
      /\ \A m \in Workspaces(rows) : \E k \in DOMAIN rows :
           m = [user |-> lastId + k, org |-> lastId + k]
  <2>1. ASSUME NEW k \in DOMAIN rows PROVE \E m \in Workspaces(rows) : m.user = lastId + k
    <3>1. [user |-> lastId + k, org |-> lastId + k] \in Workspaces(rows)
      BY DEF Workspaces
    <3> QED
      BY <3>1
  <2>2. \A m \in Workspaces(rows) : \E k \in DOMAIN rows :
          m = [user |-> lastId + k, org |-> lastId + k]
    BY DEF Workspaces
  <2> QED
    BY <2>1, <2>2
<1> HIDE DEF added
<1>8. users' \in SUBSET UserRows /\ users \subseteq users' /\ lastId' \in Nat
  <2>1. ASSUME NEW u \in added PROVE u \in UserRows
    <3>1. PICK k \in DOMAIN rows : u = [id |-> lastId + k, who |-> rows[k]]
      BY <1>6
    <3> QED
      BY <1>1, <1>3, <1>4, <3>1 DEF UserRows
  <2> QED
    BY <1>1, <1>2, <1>3, <2>1
<1>9. members' \in SUBSET [user : Nat, org : Nat]
  <2>1. ASSUME NEW m \in Workspaces(rows) PROVE m \in [user : Nat, org : Nat]
    <3>1. PICK k \in DOMAIN rows : m = [user |-> lastId + k, org |-> lastId + k]
      BY <1>7
    <3> QED
      BY <1>1, <1>4, <3>1
  <2> QED
    BY <1>1, <1>2, <2>1
<1>10. EveryUserHasAWorkspace'
  <2>1. \A u \in users' : \E m \in members' : m.user = u.id
    BY <1>2, <1>6, <1>7 DEF AccountsInv, EveryUserHasAWorkspace
  <2>2. \A m \in members' : \E u \in users' : u.id = m.user
    BY <1>2, <1>6, <1>7 DEF AccountsInv, EveryUserHasAWorkspace
  <2>3. ASSUME NEW m \in members', NEW o \in members', m.org = o.org PROVE m = o
    <3>1. CASE m \in members /\ o \in members
      BY <2>3, <3>1 DEF AccountsInv, EveryUserHasAWorkspace
    <3>2. ASSUME NEW x \in members, NEW y \in Workspaces(rows) PROVE x.org # y.org
      <4>1. PICK k \in DOMAIN rows : y = [user |-> lastId + k, org |-> lastId + k]
        BY <1>7
      <4>2. x.org \in Nat /\ x.org <= lastId
        BY <1>1 DEF AccountsInv, IdsTaken
      <4> QED
        BY <1>1, <1>4, <4>1, <4>2
    <3>3. CASE m \in Workspaces(rows) /\ o \in Workspaces(rows)
      BY <1>1, <1>4, <1>7, <2>3, <3>3
    <3> QED
      BY <1>2, <2>3, <3>1, <3>2, <3>3
  <2> QED
    BY <2>1, <2>2, <2>3 DEF EveryUserHasAWorkspace
<1>11. IdsTaken'
  <2>1. ASSUME NEW m \in members' PROVE m.org <= lastId + n
    <3>1. CASE m \in members
      <4>1. m.org \in Nat /\ m.org <= lastId
        BY <1>1, <3>1 DEF AccountsInv, IdsTaken
      <4> QED
        BY <1>1, <1>3, <4>1
    <3>2. CASE m \in Workspaces(rows)
      BY <1>1, <1>3, <1>4, <1>7, <3>2
    <3> QED
      BY <1>2, <3>1, <3>2
  <2> QED
    BY <1>2, <2>1 DEF IdsTaken
<1>12. ASSUME NEW u \in users', NEW v \in users', Same(u.who, v.who) PROVE u = v
  <2>1. CASE u \in users /\ v \in users
    BY <1>12, <2>1 DEF AccountsInv, IndexesHold, OneAccountPerIdentity
  <2>2. ASSUME NEW x \in users, NEW y \in added PROVE ~Same(x.who, y.who) /\ ~Same(y.who, x.who)
    BY <1>5, <1>6 DEF NewRows, Same
  <2>3. CASE u \in added /\ v \in added
    BY <1>5, <1>6, <1>12, <2>3 DEF Distinct
  <2> QED
    BY <1>2, <1>12, <2>1, <2>2, <2>3
<1>13. ASSUME NEW s \in Threads \ {t}, NEW k \in DOMAIN task[s].holds, NEW u \in users'
       PROVE  ~Same(u.who, task[s].holds[k])
  <2>1. CASE u \in users
    BY <2>1 DEF AccountsInv, IndexesHold, NewRows
  <2>2. CASE u \in added
    BY <1>5, <1>6, <2>2 DEF Apart
  <2> QED
    BY <1>2, <2>1, <2>2
<1>14. ASSUME NEW s \in Threads \ {t}, task[s].at = "insert_name", NEW u \in users'
       PROVE  u.who.email # Row(s).email
  <2>1. EmailEntered(s)
    BY DEF AccountsInv
  <2>2. CASE u \in users
    BY <1>14, <2>1, <2>2 DEF EmailEntered
  <2>3. CASE u \in added
    <3>1. ~HoldsEmail(t, Row(s))
      BY <1>14, <2>1 DEF EmailEntered
    <3> QED
      BY <1>6, <2>3, <3>1 DEF HoldsEmail, rows
  <2> QED
    BY <1>2, <2>2, <2>3
<1>15. CASE task[t].kind = "seed_demo"
  <2> DEFINE r == [task[t] EXCEPT !.at = "list", !.holds = NoRow]
  <2>1. task' = [task EXCEPT ![t] = r]
    BY <1>1, <1>15 DEF CommitUsers, NoRow
  <2>2. r \in Tasks
    BY <1>1, NoRows DEF Tasks, Steps
  <2>3. r.at = "list" /\ r.kind = "seed_demo" /\ r.holds = NoRow
    BY <1>1, <1>15 DEF Tasks
  <2> HIDE DEF r
  <2> QED
    BY <1>2, <1>8, <1>9, <1>10, <1>11, <1>12, <1>13, <1>14, <2>1, <2>2, <2>3, GrowStep
<1>16. CASE task[t].kind # "seed_demo"
  <2> DEFINE r == [Idle EXCEPT !.kind = task[t].kind, !.wants = task[t].wants, !.answer = "created"]
  <2>1. task' = [task EXCEPT ![t] = r]
    BY <1>16 DEF CommitUsers, End
  <2>2. r \in Tasks
    BY <1>1, IdleIs, NoRows DEF Tasks, Steps, Answers
  <2>3. /\ r.at = "idle" /\ r.kind = task[t].kind /\ r.holds = NoRow
        /\ r.wants = task[t].wants /\ r.answer = "created"
    BY IdleIs
  <2> HIDE DEF r
  <2>4. ASSUME task[t].kind \in Forms PROVE \E u \in users' : u.who.email = task[t].wants[1].email
    <3>1. task[t].wants[1] = rows[1] /\ n = 1
      BY <1>1, <1>2, <2>4 DEF TaskFits, rows, n
    <3>2. 1 \in DOMAIN rows
      BY <1>3, <3>1
    <3> QED
      BY <1>2, <1>6, <3>1, <3>2
  <2> QED
    BY <1>2, <1>8, <1>9, <1>10, <1>11, <1>12, <1>13, <1>14, <2>1, <2>2, <2>3, <2>4, GrowStep
<1> QED
  BY <1>15, <1>16

-----------------------------------------------------------------------------

LEMMA AccountsStep ==
    ASSUME AccountsInv, [Next]_vars
    PROVE  AccountsInv'
<1>1. ASSUME NEW t \in Threads, Work(t) PROVE AccountsInv'
  BY <1>1, CheckStep, EmailStep, NameStep, UsersStep, OrganizationStep, SeedStep DEF Work
<1> QED
  BY <1>1, BeginStep, OutsideStep DEF Next

LEMMA InitSound == Init => AccountsInv
<1> SUFFICES ASSUME Init PROVE AccountsInv
  OBVIOUS
<1>1. Idle \in Tasks /\ Idle.at = "idle" /\ Idle.kind = "none" /\ Idle.holds = NoRow
  BY IdleIs, NoRows DEF Tasks, Steps, Kinds, Answers
<1>2. \A t \in Threads : task[t] = Idle
  BY DEF Init
<1>3. TypeOK
  BY <1>1 DEF Init, TypeOK
<1>4. \A t \in Threads : TaskFits(task[t]) /\ AnswerHolds(task[t])
  BY <1>1, <1>2 DEF TaskFits, AnswerHolds, Forms, Inserting
<1>5. IndexesHold
  BY <1>1, <1>2, NoRows DEF Init, IndexesHold, OneAccountPerIdentity, Distinct, Apart, NewRows
<1>6. EveryUserHasAWorkspace /\ IdsTaken
  BY DEF Init, EveryUserHasAWorkspace, IdsTaken
<1>7. \A t \in Threads : EmailEntered(t)
  BY <1>1, <1>2 DEF EmailEntered
<1> QED
  BY <1>3, <1>4, <1>5, <1>6, <1>7 DEF AccountsInv

LEMMA AccountsInvHolds == Spec => []AccountsInv
  BY InitSound, AccountsStep, PTL DEF Spec

\* However many requests and scripts look for an account before any inserts one, no two
\* accounts share an email or a username: the unique indexes alone keep them apart.
THEOREM OneAccountPerIdentityAlways == Spec => []OneAccountPerIdentity
<1>1. AccountsInv => OneAccountPerIdentity
  BY DEF AccountsInv, IndexesHold
<1> QED
  BY <1>1, AccountsInvHolds, PTL

\* Every user owns an organization, and an organization has one owner, who exists: what
\* register_user and the scripts insert, they commit at once, wherever a task dies.
THEOREM EveryUserHasAWorkspaceAlways == Spec => []EveryUserHasAWorkspace
<1>1. AccountsInv => EveryUserHasAWorkspace
  BY DEF AccountsInv
<1> QED
  BY <1>1, AccountsInvHolds, PTL

\* What a registration or a demo login was told stays true: the account it made or found
\* is there, or the account that was in its way.
THEOREM AnswersHoldAlways == Spec => []AnswersHold
<1>1. AccountsInv => AnswersHold
  BY DEF AccountsInv, AnswersHold, AnswerHolds, Forms
<1> QED
  BY <1>1, AccountsInvHolds, PTL

-----------------------------------------------------------------------------
(* Deadlocks.                                                               *)

LEMMA DeadlockedWaits ==
    ASSUME NEW t \in Threads, Deadlocked(t)
    PROVE  \E s \in Threads : WaitsFor(t, s)
<1> SUFFICES ASSUME \A s \in Threads : ~WaitsFor(t, s) PROVE FALSE
  OBVIOUS
<1>1. \A q \in {} \cup {t}, s \in Threads : WaitsFor(q, s) => s \in {}
  OBVIOUS
<1>2. {} \in SUBSET Threads
  OBVIOUS
<1> QED
  BY <1>1, <1>2 DEF Deadlocked

\* One of those who wait for a deadlocked task is deadlocked itself.
LEMMA DeadlockedIsAwaited ==
    ASSUME NEW t \in Threads, Deadlocked(t)
    PROVE  \E q \in Threads : WaitsFor(q, t) /\ Deadlocked(q)
<1> DEFINE Closed(R, x) == \A q \in R \cup {x}, s \in Threads : WaitsFor(q, s) => s \in R
           Reach == {x \in Threads : \A R \in SUBSET Threads : Closed(R, t) => x \in R}
           Rest == Reach \ {t}
<1>1. Reach \in SUBSET Threads /\ t \in Reach
  BY DEF Deadlocked
<1>2. Closed(Reach, t)
  <2> SUFFICES ASSUME NEW q \in Reach \cup {t}, NEW s \in Threads, WaitsFor(q, s),
                      NEW R \in SUBSET Threads, Closed(R, t)
               PROVE  s \in R
    OBVIOUS
  <2>1. q \in R \cup {t}
    OBVIOUS
  <2> QED
    BY <2>1
<1>3. PICK q \in Reach : WaitsFor(q, t)
  <2> SUFFICES ASSUME \A q \in Reach : ~WaitsFor(q, t) PROVE FALSE
    OBVIOUS
  <2>1. Closed(Rest, t)
    BY <1>1, <1>2
  <2>2. Rest \in SUBSET Threads /\ t \notin Rest
    OBVIOUS
  <2> QED
    BY <2>1, <2>2 DEF Deadlocked
<1>4. Deadlocked(q)
  <2> SUFFICES ASSUME NEW R \in SUBSET Threads, Closed(R, q) PROVE q \in R
    BY DEF Deadlocked
  <2>1. t \in R
    BY <1>3
  <2>2. Closed(R, t)
    BY <2>1
  <2> QED
    BY <2>2
<1> QED
  BY <1>1, <1>3, <1>4

\* A transaction with one row to insert is not waited for before its email is entered, and
\* for its email alone before its username is.
LEMMA OneRowHeld ==
    ASSUME AccountsInv, NEW t \in Threads, Deadlocked(t), task[t].kind # "seed_db",
           NEW q \in Threads, WaitsFor(q, t)
    PROVE  task[t].at = "insert_name" /\ task[q].at = "insert"
<1>1. task[t].at \in Inserting
  BY DeadlockedWaits DEF WaitsFor, Inserting
<1>2. task[t] \in Tasks /\ TaskFits(task[t])
  BY DEF AccountsInv, TypeOK
<1>3. task[t].holds \in Seq(Identity) /\ Len(task[t].holds) < 1
  BY <1>1, <1>2 DEF Tasks, TaskFits
<1>4. DOMAIN task[t].holds = {}
  BY <1>3
<1> QED
  BY <1>1, <1>4 DEF WaitsFor, HoldsEmail, HoldsName, Inserting

\* However many requests insert accounts at once, they never wait in a circle among
\* themselves: a deadlock takes the two rows of seed_db.py.
THEOREM DeadlocksNeedSeedDbAlways == Spec => []DeadlocksNeedSeedDb
<1>1. ASSUME AccountsInv, NEW t \in Threads, Deadlocked(t)
      PROVE  \E s \in Threads : task[s].kind = "seed_db" /\ Deadlocked(s)
  <2>1. CASE task[t].kind = "seed_db"
    BY <1>1, <2>1
  <2>2. CASE task[t].kind # "seed_db"
    <3>1. PICK q \in Threads : WaitsFor(q, t) /\ Deadlocked(q)
      BY <1>1, DeadlockedIsAwaited
    <3>2. task[q].at = "insert"
      BY <1>1, <2>2, <3>1, OneRowHeld
    <3>3. PICK p \in Threads : WaitsFor(p, q) /\ Deadlocked(p)
      BY <3>1, DeadlockedIsAwaited
    <3>4. task[q].kind = "seed_db"
      BY <1>1, <3>1, <3>2, <3>3, OneRowHeld
    <3> QED
      BY <3>1, <3>4
  <2> QED
    BY <2>1, <2>2
<1>2. AccountsInv => DeadlocksNeedSeedDb
  BY <1>1 DEF DeadlocksNeedSeedDb
<1> QED
  BY <1>2, AccountsInvHolds, PTL

-----------------------------------------------------------------------------
(* Seeding.  What makes the script idempotent is that a run is alone: what  *)
(* it found when it looked is so when it writes.                            *)

Seeding(t) == task[t].kind = "seed_demo" /\ task[t].at # "idle"

RowsOf(id) == {b \in batches : b.conn = id}

\* Connections and what refers to them are numbered by ids already given.
ConnsNumbered ==
    /\ \A c \in conns : c.id <= lastId
    /\ \A c, d \in conns : c.id = d.id => c = d
    /\ \A b \in batches : b.conn \in Nat /\ b.conn <= lastId

OneRun == \A s, t \in Threads : Seeding(s) /\ Seeding(t) => s = t

\* What the run found before it wrote is still so.
RunFits(t) ==
    /\ task[t].at = "connect" => \A c \in conns : c.org # task[t].org
    /\ task[t].at = "fill" => RowsOf(task[t].conn) = {}

SeededConn(c) ==
    /\ \A d \in conns : d.org = c.org => d = c
    /\ \A a, b \in RowsOf(c.id) : a = b
    /\ RowsOf(c.id) = {} => Pending(c)

SeedsWell == OneRun /\ (\A t \in Threads : RunFits(t)) /\ (\A c \in conns : SeededConn(c))

SeedInv == ConnsNumbered /\ (~overlapped => SeedsWell)

Writing == {"connect", "clear", "fill"}

LEMMA SeedsOnce == SeedInv => SeededOnce
  BY DEF SeedInv, SeedsWell, SeededConn, SeededOnce, RowsOf

\* A thread that writes no demo row before or after its step, and seeds after it only if it
\* did before or is the first.
LEMMA QuietSeed ==
    ASSUME AccountsInv, SeedInv, NEW t \in Threads, NEW r,
           task' = [task EXCEPT ![t] = r],
           task[t].at \notin Writing, r.at \notin Writing,
           conns' = conns, batches' = batches, interrupted' = interrupted,
           lastId' \in Nat, lastId' >= lastId,
           ~overlapped' => ~overlapped,
           \/ r.kind = "seed_demo" /\ r.at # "idle" => Seeding(t)
           \/ ~overlapped' => \A s \in Threads : ~Seeding(s)
    PROVE  SeedInv'
<1>1. task'[t] = r /\ \A s \in Threads \ {t} : task'[s] = task[s]
  BY DEF AccountsInv, TypeOK
<1>2. ConnsNumbered'
  BY DEF SeedInv, ConnsNumbered, AccountsInv, TypeOK
<1>3. ASSUME ~overlapped' PROVE SeedsWell'
  <2>1. SeedsWell
    BY <1>3 DEF SeedInv
  <2>2. OneRun'
    BY <1>1, <1>3, <2>1 DEF SeedsWell, OneRun, Seeding
  <2>3. \A s \in Threads : RunFits(s)'
    BY <1>1, <2>1 DEF SeedsWell, RunFits, RowsOf, Writing
  <2>4. \A c \in conns : Pending(c) => Pending(c)'
    BY <1>1 DEF Pending, Writing
  <2>5. \A c \in conns : SeededConn(c)'
    BY <2>1, <2>4 DEF SeedsWell, SeededConn, RowsOf
  <2>. QED  BY <2>2, <2>3, <2>5 DEF SeedsWell
<1>. QED  BY <1>2, <1>3 DEF SeedInv

\* The only run takes a step.
LEMMA LoneStep ==
    ASSUME AccountsInv, SeedInv, NEW t \in Threads, Seeding(t), NEW r,
           task' = [task EXCEPT ![t] = r], r.kind = "seed_demo",
           ~overlapped' => ~overlapped
    PROVE  /\ task'[t] = r /\ \A s \in Threads \ {t} : task'[s] = task[s]
           /\ ~overlapped' =>
                /\ SeedsWell /\ OneRun'
                /\ \A s \in Threads \ {t} : task[s].at \notin Writing /\ task'[s].at \notin Writing
<1>1. task'[t] = r /\ \A s \in Threads \ {t} : task'[s] = task[s]
  BY DEF AccountsInv, TypeOK
<1>2. ASSUME ~overlapped'
      PROVE  /\ SeedsWell /\ OneRun'
             /\ \A s \in Threads \ {t} : task[s].at \notin Writing /\ task'[s].at \notin Writing
  <2>1. SeedsWell
    BY <1>2 DEF SeedInv
  <2>2. OneRun'
    BY <1>1, <2>1 DEF SeedsWell, OneRun, Seeding
  <2>3. \A s \in Threads : task[s].at \in Writing => Seeding(s)
    BY DEF AccountsInv, TaskFits, Writing, Seeding
  <2>. QED  BY <1>1, <2>1, <2>2, <2>3 DEF SeedsWell, OneRun
<1>. QED  BY <1>1, <1>2

LEMMA SeedOrgSeeds ==
    ASSUME AccountsInv, SeedInv, NEW t \in Threads, SeedOrg(t)
    PROVE  SeedInv'
<1>1. /\ task[t] \in Tasks /\ task[t].at = "loop" /\ task[t].kind = "seed_demo" /\ Seeding(t)
  BY DEF SeedOrg, AccountsInv, TypeOK, TaskFits, Seeding
<1>2. UNCHANGED <<conns, batches, lastId, overlapped, interrupted>>
  BY DEF SeedOrg, demoRows, history
<1>3. PICK r \in Tasks :
        /\ task' = [task EXCEPT ![t] = r] /\ r.kind = "seed_demo"
        /\ \/ r.at = "connect" /\ \A c \in conns : c.org # r.org
           \/ r.at = "clear"
  <2>1. PICK m \in members :
          IF DemoConnections(m.org) = {}
          THEN task' = [task EXCEPT ![t].at = "connect", ![t].org = m.org, ![t].todo = @ \ {m.user}]
          ELSE \E c \in DemoConnections(m.org) :
                 task' = [task EXCEPT ![t].at = "clear", ![t].conn = c.id, ![t].todo = @ \ {m.user}]
    BY DEF SeedOrg
  <2>2. m.org \in Nat /\ task[t].todo \ {m.user} \in SUBSET Nat
    BY <1>1 DEF AccountsInv, TypeOK, Tasks
  <2>3. CASE DemoConnections(m.org) = {}
    <3>. DEFINE r == [task[t] EXCEPT !.at = "connect", !.org = m.org, !.todo = @ \ {m.user}]
    <3>1. r \in Tasks /\ r.kind = "seed_demo" /\ r.at = "connect" /\ r.org = m.org
      BY <1>1, <2>2 DEF Tasks, Steps
    <3>2. task' = [task EXCEPT ![t] = r]
      BY <2>1, <2>3 DEF AccountsInv, TypeOK, Tasks
    <3>. QED  BY <3>1, <3>2, <2>3 DEF DemoConnections
  <2>4. CASE DemoConnections(m.org) # {}
    <3>1. PICK c \in conns :
            task' = [task EXCEPT ![t].at = "clear", ![t].conn = c.id, ![t].todo = @ \ {m.user}]
      BY <2>1, <2>4 DEF DemoConnections
    <3>. DEFINE r == [task[t] EXCEPT !.at = "clear", !.conn = c.id, !.todo = @ \ {m.user}]
    <3>2. r \in Tasks /\ r.kind = "seed_demo" /\ r.at = "clear"
      BY <1>1, <2>2 DEF Tasks, Steps, AccountsInv, TypeOK
    <3>3. task' = [task EXCEPT ![t] = r]
      BY <3>1 DEF AccountsInv, TypeOK, Tasks
    <3>. QED  BY <3>2, <3>3
  <2>. QED  BY <2>3, <2>4
<1>4. /\ task'[t] = r /\ \A s \in Threads \ {t} : task'[s] = task[s]
      /\ ~overlapped' => SeedsWell /\ OneRun'
  BY <1>1, <1>2, <1>3, LoneStep
<1>5. ASSUME ~overlapped' PROVE SeedsWell'
  <2>1. \A s \in Threads : RunFits(s)'
    BY <1>2, <1>3, <1>4, <1>5 DEF SeedsWell, RunFits, RowsOf
  <2>2. \A c \in conns : Pending(c) => Pending(c)'
    BY <1>1, <1>2, <1>4 DEF Pending
  <2>3. \A c \in conns' : SeededConn(c)'
    BY <1>2, <1>4, <1>5, <2>2 DEF SeedsWell, SeededConn, RowsOf
  <2>. QED  BY <1>4, <1>5, <2>1, <2>3 DEF SeedsWell
<1>. QED  BY <1>2, <1>5 DEF SeedInv, ConnsNumbered

LEMMA MakeSeeds ==
    ASSUME AccountsInv, SeedInv, NEW t \in Threads, MakeConnection(t)
    PROVE  SeedInv'
<1>1. /\ task[t] \in Tasks /\ task[t].at = "connect" /\ task[t].kind = "seed_demo" /\ Seeding(t)
      /\ lastId \in Nat /\ lastId' = lastId + 1
      /\ \A c \in conns : c.id \in Nat
  BY DEF MakeConnection, AccountsInv, TypeOK, TaskFits, Seeding
<1>2. UNCHANGED <<batches, overlapped, interrupted>>
  BY DEF MakeConnection, history
<1>. DEFINE r == [task[t] EXCEPT !.at = "clear", !.conn = lastId + 1]
<1>3. PICK new : conns' = conns \cup {new} /\ new.id = lastId + 1 /\ new.org = task[t].org
  <2>. DEFINE made == [id |-> lastId + 1, org |-> task[t].org]
  <2>1. made.id = lastId + 1 /\ made.org = task[t].org
    OBVIOUS
  <2>2. conns' = conns \cup {made}
    BY DEF MakeConnection
  <2>. HIDE DEF made
  <2>. QED  BY <2>1, <2>2
<1>4. /\ task' = [task EXCEPT ![t] = r]
      /\ r.kind = "seed_demo" /\ r.at = "clear" /\ r.conn = lastId + 1
  BY <1>1 DEF MakeConnection, AccountsInv, TypeOK, Tasks
<1>. HIDE DEF r
<1>5. /\ task'[t] = r /\ \A s \in Threads \ {t} : task'[s] = task[s]
      /\ ~overlapped' =>
           /\ SeedsWell /\ OneRun'
           /\ \A s \in Threads \ {t} : task[s].at \notin Writing /\ task'[s].at \notin Writing
  BY <1>1, <1>2, <1>4, LoneStep
<1>6. ConnsNumbered'
  <2>1. \A c \in conns : c.id <= lastId /\ c.id # new.id
    BY <1>1, <1>3 DEF SeedInv, ConnsNumbered
  <2>2. \A c \in conns' : c.id <= lastId'
    BY <1>1, <1>3, <2>1
  <2>3. \A c, d \in conns' : c.id = d.id => c = d
    BY <1>3, <2>1 DEF SeedInv, ConnsNumbered
  <2>. QED  BY <1>1, <1>2, <2>2, <2>3 DEF SeedInv, ConnsNumbered
<1>7. ASSUME ~overlapped' PROVE SeedsWell'
  <2>1. \A s \in Threads : RunFits(s)'
    BY <1>4, <1>5, <1>7 DEF RunFits, Writing
  <2>2. RowsOf(new.id)' = {}
    BY <1>1, <1>2, <1>3 DEF RowsOf, SeedInv, ConnsNumbered
  <2>3. Pending(new)'
    BY <1>3, <1>4, <1>5 DEF Pending
  <2>4. \A c \in conns : c.org # new.org
    BY <1>1, <1>3, <1>5, <1>7 DEF SeedsWell, RunFits
  <2>5. \A c \in conns : Pending(c) => Pending(c)'
    BY <1>1, <1>2, <1>5 DEF Pending
  <2>6. \A c \in conns' : SeededConn(c)'
    BY <1>2, <1>3, <1>5, <1>7, <2>2, <2>3, <2>4, <2>5 DEF SeedsWell, SeededConn, RowsOf
  <2>. QED  BY <1>5, <1>7, <2>1, <2>6 DEF SeedsWell
<1>. QED  BY <1>6, <1>7 DEF SeedInv

LEMMA ClearSeeds ==
    ASSUME AccountsInv, SeedInv, NEW t \in Threads, ClearData(t)
    PROVE  SeedInv'
<1>1. /\ task[t] \in Tasks /\ task[t].at = "clear" /\ task[t].kind = "seed_demo" /\ Seeding(t)
  BY DEF ClearData, AccountsInv, TypeOK, TaskFits, Seeding
<1>2. /\ UNCHANGED <<conns, lastId, overlapped, interrupted>>
      /\ batches' = {b \in batches : b.conn # task[t].conn}
  BY DEF ClearData, history
<1>. DEFINE r == [task[t] EXCEPT !.at = "fill"]
<1>3. /\ task' = [task EXCEPT ![t] = r]
      /\ r.kind = "seed_demo" /\ r.at = "fill" /\ r.conn = task[t].conn
  BY <1>1 DEF ClearData, Go, AccountsInv, TypeOK, Tasks
<1>. HIDE DEF r
<1>4. /\ task'[t] = r /\ \A s \in Threads \ {t} : task'[s] = task[s]
      /\ ~overlapped' =>
           /\ SeedsWell /\ OneRun'
           /\ \A s \in Threads \ {t} : task[s].at \notin Writing /\ task'[s].at \notin Writing
  BY <1>1, <1>2, <1>3, LoneStep
<1>5. ASSUME ~overlapped' PROVE SeedsWell'
  <2>1. \A s \in Threads : RunFits(s)'
    BY <1>2, <1>3, <1>4, <1>5 DEF RunFits, RowsOf, Writing
  <2>2. \A c \in conns : Pending(c) => Pending(c)'
    BY <1>1, <1>2, <1>3, <1>4 DEF Pending
  <2>3. \A c \in conns : c.id = task[t].conn => Pending(c)'
    BY <1>3, <1>4 DEF Pending
  <2>4. \A c \in conns : c.id # task[t].conn => RowsOf(c.id)' = RowsOf(c.id)
    BY <1>2 DEF RowsOf
  <2>5. \A c \in conns : RowsOf(c.id)' \subseteq RowsOf(c.id)
    BY <1>2 DEF RowsOf
  <2>6. \A c \in conns : SeededConn(c)'
    BY <1>2, <1>4, <1>5, <2>2, <2>3, <2>4, <2>5 DEF SeedsWell, SeededConn
  <2>. QED  BY <1>2, <1>4, <1>5, <2>1, <2>6 DEF SeedsWell
<1>. QED  BY <1>2, <1>5 DEF SeedInv, ConnsNumbered

LEMMA FillSeeds ==
    ASSUME AccountsInv, SeedInv, NEW t \in Threads, FillData(t),
           NEW c0 \in conns, c0.id = task[t].conn
    PROVE  SeedInv'
<1>1. /\ task[t] \in Tasks /\ task[t].at = "fill" /\ task[t].kind = "seed_demo" /\ Seeding(t)
      /\ lastId \in Nat /\ lastId' = lastId + 1
      /\ \A c \in conns : c.id \in Nat
  BY DEF FillData, AccountsInv, TypeOK, TaskFits, Seeding
<1>. DEFINE new == [id |-> lastId + 1, conn |-> task[t].conn]
            r == [task[t] EXCEPT !.at = "loop", !.conn = None, !.org = None]
<1>2. /\ UNCHANGED <<conns, overlapped>>
      /\ interrupted' = interrupted \ {task[t].conn}
      /\ batches' = batches \cup {new} /\ new.conn = c0.id
  BY DEF FillData
<1>3. task' = [task EXCEPT ![t] = r] /\ r.kind = "seed_demo" /\ r.at = "loop"
  BY <1>1 DEF FillData, AccountsInv, TypeOK, Tasks
<1>. HIDE DEF r, new
<1>4. /\ task'[t] = r /\ \A s \in Threads \ {t} : task'[s] = task[s]
      /\ ~overlapped' =>
           /\ SeedsWell /\ OneRun'
           /\ \A s \in Threads \ {t} : task[s].at \notin Writing /\ task'[s].at \notin Writing
  BY <1>1, <1>2, <1>3, LoneStep
<1>5. ConnsNumbered'
  BY <1>1, <1>2 DEF SeedInv, ConnsNumbered
<1>6. ASSUME ~overlapped' PROVE SeedsWell'
  <2>1. \A s \in Threads : RunFits(s)'
    BY <1>3, <1>4, <1>6 DEF RunFits, Writing
  <2>2. RowsOf(c0.id) = {}
    BY <1>1, <1>4, <1>6 DEF SeedsWell, RunFits
  <2>3. RowsOf(c0.id)' = {new}
    BY <1>2, <2>2 DEF RowsOf
  <2>4. ASSUME NEW c \in conns, c.id # c0.id
        PROVE  RowsOf(c.id)' = RowsOf(c.id) /\ (Pending(c) => Pending(c)')
    <3>1. RowsOf(c.id)' = RowsOf(c.id)
      BY <1>2, <2>4 DEF RowsOf
    <3>2. Pending(c) => c.id \in interrupted
      BY <1>4, <1>6, <2>4 DEF Pending, Writing
    <3>. QED  BY <1>2, <2>4, <3>1, <3>2 DEF Pending
  <2>5. \A c \in conns : SeededConn(c)'
    BY <1>2, <1>4, <1>6, <2>3, <2>4 DEF SeedsWell, SeededConn
  <2>. QED  BY <1>2, <1>4, <1>6, <2>1, <2>5 DEF SeedsWell
<1>. QED  BY <1>5, <1>6 DEF SeedInv

\* A task ends; the connection it was at, if it is still there, is on record.
LEMMA EndSeeds ==
    ASSUME AccountsInv, SeedInv, NEW t \in Threads, NEW answer, End(t, answer),
           UNCHANGED <<conns, batches, overlapped>>,
           lastId' \in Nat, lastId' >= lastId, interrupted \subseteq interrupted',
           \A c \in conns : task[t].conn = c.id /\ task[t].at \in {"clear", "fill"} =>
             c.id \in interrupted'
    PROVE  SeedInv'
<1>1. task'[t].at = "idle" /\ \A s \in Threads \ {t} : task'[s] = task[s]
  BY IdleIs DEF End, AccountsInv, TypeOK
<1>2. ConnsNumbered'
  BY DEF SeedInv, ConnsNumbered, AccountsInv, TypeOK
<1>3. ASSUME ~overlapped' PROVE SeedsWell'
  <2>1. SeedsWell
    BY <1>3 DEF SeedInv
  <2>2. OneRun'
    BY <1>1, <2>1 DEF SeedsWell, OneRun, Seeding
  <2>3. \A s \in Threads : RunFits(s)'
    BY <1>1, <2>1 DEF SeedsWell, RunFits, RowsOf
  <2>4. \A c \in conns : Pending(c) => Pending(c)'
    BY <1>1 DEF Pending
  <2>5. \A c \in conns : SeededConn(c)'
    BY <2>1, <2>4 DEF SeedsWell, SeededConn, RowsOf
  <2>. QED  BY <2>2, <2>3, <2>5 DEF SeedsWell
<1>. QED  BY <1>2, <1>3 DEF SeedInv

LEMMA DisconnectSeeds ==
    ASSUME AccountsInv, SeedInv, NEW c0 \in conns, Disconnect(c0)
    PROVE  SeedInv'
<1>1. /\ UNCHANGED <<lastId, task, overlapped, interrupted>>
      /\ conns' = conns \ {c0} /\ batches' = {b \in batches : b.conn # c0.id}
  BY DEF Disconnect
<1>2. \A c \in conns' : c.id # c0.id
  BY <1>1 DEF SeedInv, ConnsNumbered
<1>3. ASSUME ~overlapped' PROVE SeedsWell'
  <2>1. SeedsWell
    BY <1>1, <1>3 DEF SeedInv
  <2>2. OneRun'
    BY <1>1, <2>1 DEF SeedsWell, OneRun, Seeding
  <2>3. \A s \in Threads : RunFits(s)'
    BY <1>1, <2>1 DEF SeedsWell, RunFits, RowsOf
  <2>4. \A c \in conns' : RowsOf(c.id)' = RowsOf(c.id) /\ Pending(c)' = Pending(c)
    BY <1>1, <1>2 DEF RowsOf, Pending
  <2>5. \A c \in conns' : SeededConn(c)'
    BY <1>1, <2>1, <2>4 DEF SeedsWell, SeededConn
  <2>. QED  BY <2>2, <2>3, <2>5 DEF SeedsWell
<1>. QED  BY <1>1, <1>3 DEF SeedInv, ConnsNumbered

\* Every other piece of work, and the beginning of a task.
LEMMA OtherSeeds ==
    ASSUME AccountsInv, SeedInv, NEW t \in Threads,
           \/ Accept(t) \/ FindDemo(t) \/ CheckEmail(t) \/ CheckName(t)
           \/ EnterEmail(t) \/ EnterName(t) \/ AbortDeadlock(t) \/ CommitUsers(t) \/ CommitOrganization(t) \/ ListUsers(t) \/ FinishSeeding(t)
    PROVE  SeedInv'
<1>. USE DEF Writing, demoRows, history, accounts
<1>1. lastId \in Nat /\ task[t] \in Tasks /\ task \in [Threads -> Tasks]
  BY DEF AccountsInv, TypeOK
<1>2. ASSUME NEW kind, NEW at \in {"email", "find", "commit", "insert"}, NEW wants, NEW caller,
             Begin(t, kind, at, wants, caller)
      PROVE  SeedInv'
  <2>. DEFINE r == [Idle EXCEPT !.kind = kind, !.at = at, !.wants = wants, !.caller = caller]
  <2>1. r.kind = kind /\ r.at = at
    BY IdleIs
  <2>2. task' = [task EXCEPT ![t] = r] /\ task[t].at = "idle"
        /\ lastId' \in Nat /\ lastId' >= lastId
        /\ UNCHANGED <<conns, batches, interrupted>>
    BY <1>1, <1>2 DEF Begin
  <2>3. (~overlapped' => ~overlapped)
        /\ (kind = "seed_demo" => (~overlapped' => \A s \in Threads : ~Seeding(s)))
    BY <1>2 DEF Begin, Seeding
  <2>. HIDE DEF r
  <2>. QED  BY <1>1, <2>1, <2>2, <2>3, QuietSeed
<1>3. CASE Accept(t)
  BY <1>2, <1>3 DEF Accept, Register, DemoLogin, CreateOrganization, SeedDb, SeedDemo
<1>4. ASSUME NEW answer, End(t, answer), task[t].at \notin Writing, lastId' \in Nat,
             lastId' >= lastId, UNCHANGED <<conns, batches, overlapped, interrupted>>
      PROVE  SeedInv'
  BY <1>4, EndSeeds
<1>5. ASSUME NEW at \in {"list", "email", "name", "insert", "insert_name"}, Go(t, at),
             task[t].at \in {"find", "email", "name", "insert"},
             lastId' \in Nat, lastId' >= lastId,
             UNCHANGED <<conns, batches, overlapped, interrupted>>
      PROVE  SeedInv'
  <2>. DEFINE r == [task[t] EXCEPT !.at = at]
  <2>1. task' = [task EXCEPT ![t] = r] /\ r.at = at /\ r.kind = task[t].kind
    BY <1>1, <1>5 DEF Go, Tasks
  <2>. HIDE DEF r
  <2>. QED  BY <1>1, <1>5, <2>1, QuietSeed DEF Seeding
<1>6. CASE FindDemo(t)
  BY <1>1, <1>4, <1>5, <1>6 DEF FindDemo
<1>7. CASE CheckEmail(t)
  BY <1>1, <1>4, <1>5, <1>7 DEF CheckEmail, Refuse
<1>8. CASE CheckName(t)
  BY <1>1, <1>4, <1>5, <1>8 DEF CheckName, Refuse
<1>9. CASE EnterName(t)
  <2>1. task[t].at = "insert_name" /\ UNCHANGED <<conns, batches, overlapped, interrupted>>
        /\ lastId' \in Nat /\ lastId' >= lastId
    BY <1>1, <1>9 DEF EnterName
  <2>2. CASE End(t, "error")
    BY <1>1, <1>4, <2>1, <2>2
  <2>3. CASE ~End(t, "error")
    <3>. DEFINE k == Len(task[t].holds) + 1
                i == task[t].wants[k]
                at == IF Len(task[t].wants) = k THEN "commit" ELSE "insert"
                r == [task[t] EXCEPT !.holds = Append(@, i), !.at = at]
    <3>1. task' = [task EXCEPT ![t].holds = Append(@, i), ![t].at = at]
      BY <1>9, <2>3 DEF EnterName, Row
    <3>2. at \in {"commit", "insert"}
      OBVIOUS
    <3>3. task' = [task EXCEPT ![t] = r] /\ r.at = at /\ r.kind = task[t].kind
      BY <1>1, <3>1 DEF Tasks
    <3>. HIDE DEF r, at
    <3>. QED  BY <1>1, <2>1, <3>2, <3>3, QuietSeed DEF Seeding
  <2>. QED  BY <2>2, <2>3
<1>14. CASE EnterEmail(t)
  BY <1>1, <1>4, <1>5, <1>14 DEF EnterEmail
<1>15. CASE AbortDeadlock(t)
  <2>1. task[t].at \in Inserting
    BY <1>15, DeadlockedWaits DEF AbortDeadlock, WaitsFor, Inserting
  <2> QED
    BY <1>1, <1>4, <1>15, <2>1 DEF AbortDeadlock, Inserting
<1>10. CASE CommitUsers(t)
  <2>1. task[t].at = "commit" /\ UNCHANGED <<conns, batches, overlapped, interrupted>>
        /\ lastId' \in Nat /\ lastId' >= lastId
    BY <1>1, <1>10 DEF CommitUsers, Tasks
  <2>2. CASE End(t, "created")
    BY <1>4, <2>1, <2>2
  <2>3. CASE ~End(t, "created")
    <3>. DEFINE r == [task[t] EXCEPT !.at = "list", !.holds = <<>>]
    <3>1. task' = [task EXCEPT ![t] = r] /\ r.at = "list" /\ r.kind = task[t].kind
      BY <1>1, <1>10, <2>3 DEF CommitUsers, Tasks
    <3>. HIDE DEF r
    <3>. QED  BY <1>1, <2>1, <3>1, QuietSeed DEF Seeding
  <2>. QED  BY <2>2, <2>3
<1>11. CASE CommitOrganization(t)
  BY <1>1, <1>4, <1>11 DEF CommitOrganization
<1>12. CASE ListUsers(t)
  <2>1. PICK ids : task' = [task EXCEPT ![t].at = "loop", ![t].todo = ids]
    BY <1>12 DEF ListUsers
  <2>. DEFINE r == [task[t] EXCEPT !.at = "loop", !.todo = ids]
  <2>2. task' = [task EXCEPT ![t] = r] /\ r.at = "loop" /\ r.kind = task[t].kind
    BY <1>1, <2>1 DEF Tasks
  <2>3. task[t].at = "list" /\ UNCHANGED <<conns, batches, overlapped, interrupted>>
        /\ lastId' \in Nat /\ lastId' >= lastId
    BY <1>1, <1>12 DEF ListUsers
  <2>. HIDE DEF r
  <2>. QED  BY <1>1, <2>2, <2>3, QuietSeed DEF Seeding
<1>13. CASE FinishSeeding(t)
  BY <1>1, <1>4, <1>13 DEF FinishSeeding
<1>. QED  BY <1>3, <1>6, <1>7, <1>8, <1>9, <1>10, <1>11, <1>12, <1>13, <1>14, <1>15

LEMMA SeedInvStep ==
    ASSUME AccountsInv, SeedInv, [Next]_vars
    PROVE  SeedInv'
<1>1. lastId \in Nat
  BY DEF AccountsInv, TypeOK
<1>2. ASSUME NEW t \in Threads, FillData(t) PROVE SeedInv'
  <2>1. CASE \E c \in conns : c.id = task[t].conn
    BY <1>2, <2>1, FillSeeds
  <2>2. CASE ~\E c \in conns : c.id = task[t].conn
    BY <1>1, <1>2, <2>2, EndSeeds DEF FillData
  <2>. QED  BY <2>1, <2>2
<1>3. ASSUME NEW t \in Threads, Crash(t) PROVE SeedInv'
  <2>1. /\ End(t, "crashed") /\ UNCHANGED <<conns, batches, lastId, overlapped>>
        /\ interrupted \subseteq interrupted'
        /\ task[t].at \in {"clear", "fill"} => task[t].conn \in interrupted'
    BY <1>3 DEF Crash, demoRows
  <2>. QED  BY <1>1, <2>1, EndSeeds
<1>4. CASE UNCHANGED vars
  <2>1. UNCHANGED <<conns, batches, lastId, task, overlapped, interrupted>>
    BY <1>4 DEF vars, demoRows, history
  <2>. QED  BY <2>1 DEF SeedInv, ConnsNumbered, SeedsWell, OneRun, Seeding, RunFits, RowsOf,
               SeededConn, Pending
<1>. QED  BY <1>2, <1>3, <1>4, OtherSeeds, SeedOrgSeeds, MakeSeeds, ClearSeeds, DisconnectSeeds
          DEF Next, Work

\* While its runs follow one another seed_demo_data.py leaves an organization one demo
\* connection with one set of rows, whatever crashes and whoever disconnects.
THEOREM SeededOnceAlways == Spec => []SeededOnce
<1>1. Init => SeedInv
  BY IdleIs DEF Init, SeedInv, ConnsNumbered, SeedsWell, OneRun, Seeding, RunFits
<1>2. AccountsInv /\ SeedInv /\ [Next]_vars => SeedInv'
  BY SeedInvStep
<1>. QED  BY <1>1, <1>2, AccountsInvHolds, SeedsOnce, PTL DEF Spec

-----------------------------------------------------------------------------
(* Workspaces: the organization a browser works in.                        *)

Figures == [org : Orgs \cup {Null}, outdated : BOOLEAN]
Requests == [user : Users \cup {Null}, org : Orgs \cup {Null}, outdated : BOOLEAN]

TabStates ==
    [at : {"out", "loading", "signing", "in"}, user : Users \cup {Null},
     org : Orgs \cup {Null}, open : BOOLEAN, data : SUBSET Figures, fresh : BOOLEAN,
     sent : SUBSET Requests]

WorkspacesTypeOK ==
    /\ store \in [user : Users \cup {Null}, org : Orgs \cup {Null}]
    /\ tab \in [Tabs -> TabStates]
    /\ touched \in SUBSET Tabs
    /\ \A b \in Tabs : tab[b].at # "out" => tab[b].user \in Users

\* The context t and localStorage s name one user and one workspace, when the context
\* knows them; requests and figures that are not outdated are of that workspace.
Agree(t, s) ==
    /\ t.at \in {"loading", "signing"} => s.user = t.user
    /\ t.at = "in" => s.user \in {Null, t.user} /\ s.org = t.org /\ t.org \in OrgsOf[t.user]
    /\ \A q \in t.sent :
         ~q.outdated => t.at = "in" /\ q.user \in {Null, t.user} /\ q.org = t.org
    /\ \A d \in t.data : ~d.outdated => t.at = "in" /\ d.org = t.org

WorkspacesInv ==
    /\ WorkspacesTypeOK
    /\ \A b \in Tabs \ touched : Agree(tab[b], store)

LEMMA Organizations ==
    ASSUME WorkspacesTypeOK, NEW u \in Users
    PROVE  /\ FirstOf[u] \in OrgsOf[u] /\ Chosen(u) \in OrgsOf[u]
           /\ OrgsOf[u] \subseteq Orgs
  BY WorkspacesAssumption DEF Chosen, Orgs

\* What Outdated leaves of a tab: nothing that is not outdated.
LEMMA OutdatedTab ==
    ASSUME NEW t \in TabStates
    PROVE  LET o == Outdated(t) IN
           /\ o \in TabStates
           /\ o.at = t.at /\ o.user = t.user /\ o.org = t.org
           /\ \A q \in o.sent : q.outdated
           /\ \A d \in o.data : d.outdated
<1> DEFINE ds == {[d EXCEPT !.outdated = TRUE] : d \in t.data}
           qs == {[q EXCEPT !.outdated = TRUE] : q \in t.sent}
<1>1. Outdated(t) = [t EXCEPT !.data = ds, !.sent = qs]
  BY DEF Outdated
<1>2. ds \in SUBSET Figures /\ \A d \in ds : d.outdated
  <2>1. t.data \subseteq Figures
    BY DEF TabStates
  <2>2. ASSUME NEW d \in Figures
        PROVE  /\ [d EXCEPT !.outdated = TRUE] \in Figures
               /\ [d EXCEPT !.outdated = TRUE].outdated
    BY DEF Figures
  <2> QED
    BY <2>1, <2>2
<1>3. qs \in SUBSET Requests /\ \A q \in qs : q.outdated
  <2>1. t.sent \subseteq Requests
    BY DEF TabStates
  <2>2. ASSUME NEW q \in Requests
        PROVE  /\ [q EXCEPT !.outdated = TRUE] \in Requests
               /\ [q EXCEPT !.outdated = TRUE].outdated
    BY DEF Requests
  <2> QED
    BY <2>1, <2>2
<1> HIDE DEF ds, qs
<1> QED
  BY <1>1, <1>2, <1>3 DEF TabStates

\* A step of tab b leaves the invariant as it was, if its new state has the type, if it
\* agrees with what is then stored (or b is touched), and if all others are touched when
\* the storage has changed.
LEMMA TabStep ==
    ASSUME WorkspacesInv, NEW b \in Tabs, NEW t \in TabStates,
           t.at # "out" => t.user \in Users,
           tab' = [tab EXCEPT ![b] = t],
           store' \in [user : Users \cup {Null}, org : Orgs \cup {Null}],
           touched' \in SUBSET Tabs,
           b \notin touched' => Agree(t, store'),
           \/ Tabs \ {b} \subseteq touched'
           \/ store' = store /\ touched \ {b} \subseteq touched'
    PROVE  WorkspacesInv'
<1>1. WorkspacesTypeOK'
  BY DEF WorkspacesInv, WorkspacesTypeOK
<1>2. ASSUME NEW c \in Tabs \ touched' PROVE Agree(tab[c], store)'
  <2>1. CASE c = b
    <3>1. tab'[c] = t
      BY <2>1 DEF WorkspacesInv, WorkspacesTypeOK
    <3> QED
      BY <1>2, <2>1, <3>1 DEF Agree
  <2>2. CASE c # b
    <3>1. tab'[c] = tab[c] /\ store' = store /\ c \notin touched
      BY <1>2, <2>2 DEF WorkspacesInv, WorkspacesTypeOK
    <3>2. Agree(tab[c], store)
      BY <3>1 DEF WorkspacesInv
    <3> QED
      BY <3>1, <3>2 DEF Agree
  <2> QED
    BY <2>1, <2>2
<1> QED
  BY <1>1, <1>2 DEF WorkspacesInv

-----------------------------------------------------------------------------

LEMMA LoadStep ==
    ASSUME WorkspacesInv, NEW b \in Tabs, Load(b)
    PROVE  WorkspacesInv'
<1> DEFINE t == IF store.user = Null THEN Blank
                ELSE [Blank EXCEPT !.at = "loading", !.user = store.user]
<1>1. t \in TabStates /\ t.sent = {} /\ t.data = {} /\ t.at \in {"out", "loading"}
  BY DEF WorkspacesInv, WorkspacesTypeOK, Blank, TabStates
<1>2. t.at # "out" => t.user \in Users /\ t.user = store.user
  BY DEF WorkspacesInv, WorkspacesTypeOK, Blank
<1>3. tab' = [tab EXCEPT ![b] = t] /\ store' = store /\ touched' = touched \ {b}
  BY DEF Load
<1> HIDE DEF t
<1>4. Agree(t, store')
  BY <1>1, <1>2, <1>3 DEF Agree
<1> QED
  BY <1>1, <1>2, <1>3, <1>4, TabStep DEF WorkspacesInv, WorkspacesTypeOK

\* /auth/me is answered or refused, after a page load or a sign-in.
LEMMA IdentityStep ==
    ASSUME WorkspacesInv, NEW b \in Tabs,
           Hydrated(b) \/ NotHydrated(b) \/ SignedIn(b) \/ NotSignedIn(b)
    PROVE  WorkspacesInv'
<1> DEFINE u == tab[b].user
<1>1. /\ tab[b] \in TabStates /\ touched \in SUBSET Tabs
      /\ store \in [user : Users \cup {Null}, org : Orgs \cup {Null}]
  BY DEF WorkspacesInv, WorkspacesTypeOK
<1>2. tab[b].at # "out" => u \in Users
  BY DEF WorkspacesInv, WorkspacesTypeOK
<1>3. b \notin touched => Agree(tab[b], store)
  BY DEF WorkspacesInv
<1>4. CASE Hydrated(b)
  <2> DEFINE t == [Blank EXCEPT !.at = "in", !.user = u, !.org = Chosen(u)]
  <2>1. u \in Users /\ tab[b].at = "loading"
    BY <1>2, <1>4 DEF Hydrated
  <2>2. Chosen(u) \in OrgsOf[u] /\ Chosen(u) \in Orgs
    BY <2>1, Organizations DEF WorkspacesInv
  <2>3. /\ t \in TabStates /\ t.at = "in" /\ t.user = u /\ t.org = Chosen(u)
        /\ t.sent = {} /\ t.data = {}
    BY <2>1, <2>2 DEF Blank, TabStates
  <2>4. /\ tab' = [tab EXCEPT ![b] = t]
        /\ store' = [user |-> store.user, org |-> Chosen(u)]
        /\ touched' = touched \cup (Tabs \ {b})
    BY <1>4 DEF Hydrated, Put
  <2> HIDE DEF t, u
  <2>5. b \notin touched' => Agree(t, store')
    BY <1>3, <2>1, <2>2, <2>3, <2>4 DEF Agree, u
  <2> QED
    BY <1>1, <2>1, <2>2, <2>3, <2>4, <2>5, TabStep
<1>5. CASE NotHydrated(b)
  <2>1. Blank \in TabStates /\ Blank.at = "out" /\ \A s : Agree(Blank, s)
    BY DEF Blank, TabStates, Agree
  <2>2. tab' = [tab EXCEPT ![b] = Blank]
    BY <1>5 DEF NotHydrated
  <2>3. CASE Put(b, Null, Null)
    BY <1>1, <2>1, <2>2, <2>3, TabStep DEF Put
  <2>4. CASE Put(b, Null, store.org)
    BY <1>1, <2>1, <2>2, <2>4, TabStep DEF Put
  <2>5. CASE UNCHANGED <<store, touched>>
    BY <1>1, <2>1, <2>2, <2>5, TabStep
  <2> QED
    BY <1>5, <2>3, <2>4, <2>5 DEF NotHydrated
<1>6. CASE SignedIn(b)
  <2> DEFINE t == [tab[b] EXCEPT !.at = "in", !.org = FirstOf[u]]
  <2>1. u \in Users /\ tab[b].at = "signing"
    BY <1>2, <1>6 DEF SignedIn
  <2>2. FirstOf[u] \in OrgsOf[u] /\ FirstOf[u] \in Orgs
    BY <2>1, Organizations DEF WorkspacesInv
  <2>3. /\ t \in TabStates /\ t.at = "in" /\ t.user = u /\ t.org = FirstOf[u]
        /\ t.sent = tab[b].sent /\ t.data = tab[b].data
    BY <1>1, <2>2 DEF TabStates
  <2>4. /\ tab' = [tab EXCEPT ![b] = t]
        /\ store' = [user |-> store.user, org |-> FirstOf[u]]
        /\ touched' = touched \cup (Tabs \ {b})
    BY <1>1, <1>6 DEF SignedIn, Put, TabStates, WorkspacesInv, WorkspacesTypeOK
  <2> HIDE DEF t, u
  <2>5. b \notin touched' => Agree(t, store')
    BY <1>3, <2>1, <2>2, <2>3, <2>4 DEF Agree, u
  <2> QED
    BY <1>1, <2>1, <2>2, <2>3, <2>4, <2>5, TabStep
<1>7. CASE NotSignedIn(b)
  <2> DEFINE t == [tab[b] EXCEPT !.at = "out", !.user = Null]
  <2>1. /\ t \in TabStates /\ t.at = "out"
        /\ t.sent = tab[b].sent /\ t.data = tab[b].data
    BY <1>1 DEF TabStates
  <2>2. tab' = [tab EXCEPT ![b] = t] /\ tab[b].at = "signing"
    BY <1>7 DEF NotSignedIn, WorkspacesInv, WorkspacesTypeOK, TabStates
  <2> HIDE DEF t
  <2>3. b \notin touched => \A s : Agree(t, s)
    BY <1>3, <2>1, <2>2 DEF Agree
  <2>4. CASE Put(b, Null, store.org)
    BY <1>1, <2>1, <2>2, <2>3, <2>4, TabStep DEF Put
  <2>5. CASE UNCHANGED <<store, touched>>
    BY <1>1, <2>1, <2>2, <2>3, <2>5, TabStep
  <2> QED
    BY <1>7, <2>4, <2>5 DEF NotSignedIn
<1> QED
  BY <1>4, <1>5, <1>6, <1>7

\* Signing in, logging out and changing the workspace leave only outdated figures.
LEMMA ChangeStep ==
    ASSUME WorkspacesInv, NEW b \in Tabs,
           \/ \E u \in Users : SignIn(b, u)
           \/ LogOut(b)
           \/ \E o \in Orgs : Switch(b, o)
    PROVE  WorkspacesInv'
<1> DEFINE w == Outdated(tab[b])
<1>1. /\ tab[b] \in TabStates /\ touched \in SUBSET Tabs
      /\ store \in [user : Users \cup {Null}, org : Orgs \cup {Null}]
  BY DEF WorkspacesInv, WorkspacesTypeOK
<1>2. /\ w \in TabStates
      /\ w.at = tab[b].at /\ w.user = tab[b].user /\ w.org = tab[b].org
      /\ \A q \in w.sent : q.outdated
      /\ \A d \in w.data : d.outdated
  BY <1>1, OutdatedTab
<1>3. ASSUME NEW u \in Users, SignIn(b, u) PROVE WorkspacesInv'
  <2> DEFINE t == [w EXCEPT !.at = "signing", !.user = u]
  <2>1. tab' = [tab EXCEPT ![b] = t]
    BY <1>3 DEF SignIn, WorkspacesInv, WorkspacesTypeOK
  <2>2. /\ store' = [store EXCEPT !.user = u]
        /\ touched' = (touched \cup Tabs) \ {b}
    BY <1>3 DEF SignIn
  <2> HIDE DEF w
  <2>3. t \in TabStates /\ t.at = "signing" /\ t.user = u /\ t.sent = w.sent /\ t.data = w.data
    BY <1>2 DEF TabStates
  <2> HIDE DEF t
  <2>4. Agree(t, store')
    BY <1>1, <1>2, <2>2, <2>3 DEF Agree
  <2> QED
    BY <1>1, <2>1, <2>2, <2>3, <2>4, TabStep
<1>4. CASE LogOut(b)
  <2> DEFINE t == [w EXCEPT !.at = "out", !.user = Null, !.org = Null, !.open = FALSE]
  <2>1. tab' = [tab EXCEPT ![b] = t]
    BY <1>4 DEF LogOut, WorkspacesInv, WorkspacesTypeOK
  <2>2. /\ store' = [user |-> Null, org |-> Null]
        /\ touched' = touched \cup (Tabs \ {b})
    BY <1>4 DEF LogOut, Put
  <2> HIDE DEF w
  <2>3. t \in TabStates /\ t.at = "out" /\ t.sent = w.sent /\ t.data = w.data
    BY <1>2 DEF TabStates
  <2> HIDE DEF t
  <2>4. Agree(t, store')
    BY <1>2, <2>3 DEF Agree
  <2> QED
    BY <1>1, <2>1, <2>2, <2>3, <2>4, TabStep
<1>5. ASSUME NEW o \in Orgs, Switch(b, o) PROVE WorkspacesInv'
  <2> DEFINE t == [w EXCEPT !.org = o]
  <2>1. tab' = [tab EXCEPT ![b] = t]
    BY <1>5 DEF Switch, WorkspacesInv, WorkspacesTypeOK
  <2>2. /\ store' = [user |-> store.user, org |-> o]
        /\ touched' = touched \cup (Tabs \ {b})
        /\ tab[b].at = "in" /\ o \in OrgsOf[tab[b].user]
    BY <1>5 DEF Switch, Put
  <2>3. tab[b].user \in Users
    BY <2>2 DEF WorkspacesInv, WorkspacesTypeOK
  <2>4. b \notin touched => store.user \in {Null, tab[b].user}
    BY <2>2 DEF WorkspacesInv, Agree
  <2> HIDE DEF w
  <2>5. /\ t \in TabStates /\ t.at = "in" /\ t.user = tab[b].user /\ t.org = o
        /\ t.sent = w.sent /\ t.data = w.data
    BY <1>2, <2>2 DEF TabStates
  <2> HIDE DEF t
  <2>6. b \notin touched' => Agree(t, store')
    BY <1>2, <2>2, <2>4, <2>5 DEF Agree
  <2> QED
    BY <1>1, <2>1, <2>2, <2>3, <2>5, <2>6, TabStep
<1> QED
  BY <1>3, <1>4, <1>5

LEMMA SessionLostStep ==
    ASSUME WorkspacesInv, NEW b \in Tabs, SessionLost(b)
    PROVE  WorkspacesInv'
<1>1. /\ tab' = [tab EXCEPT ![b] = tab[b]] /\ tab[b] \in TabStates
      /\ tab[b].at = "in" /\ tab[b].user \in Users
      /\ store \in [user : Users \cup {Null}, org : Orgs \cup {Null}]
      /\ touched \in SUBSET Tabs
  BY DEF SessionLost, WorkspacesInv, WorkspacesTypeOK
<1>2. /\ store' = [user |-> Null, org |-> store.org]
      /\ touched' = touched \cup (Tabs \ {b})
  BY DEF SessionLost, Put
<1>3. b \notin touched' => Agree(tab[b], store')
  BY <1>1, <1>2 DEF WorkspacesInv, Agree
<1> QED
  BY <1>1, <1>2, <1>3, TabStep

\* The page: a request takes its token and its organization from a storage that agrees
\* with the tab, and its answer is of that organization.
LEMMA PageStep ==
    ASSUME WorkspacesInv, NEW b \in Tabs,
           Open(b) \/ Leave(b) \/ Answered(b) \/ Age(b)
    PROVE  WorkspacesInv'
<1>1. /\ tab[b] \in TabStates /\ touched \in SUBSET Tabs
      /\ store \in [user : Users \cup {Null}, org : Orgs \cup {Null}]
      /\ tab[b].at # "out" => tab[b].user \in Users
      /\ tab \in [Tabs -> TabStates]
  BY DEF WorkspacesInv, WorkspacesTypeOK
<1>2. b \notin touched => Agree(tab[b], store)
  BY DEF WorkspacesInv
<1>3. UNCHANGED <<store, touched>>
  BY DEF Open, Leave, Answered, Age
<1>4. CASE Open(b)
  <2> DEFINE sent == IF Asks(b) THEN {Request(b)} ELSE tab[b].sent
             t == [tab[b] EXCEPT !.open = TRUE, !.sent = sent]
  <2>1. Request(b) \in Requests
    BY <1>1 DEF Request, Requests
  <2>2. sent \in SUBSET Requests
    BY <1>1, <2>1 DEF TabStates
  <2>3. \A q \in sent : q \in tab[b].sent \/ (q.user = store.user /\ q.org = store.org)
    BY DEF Request
  <2>4. tab' = [tab EXCEPT ![b] = t] /\ tab[b].at = "in"
    BY <1>1, <1>4 DEF Open
  <2> HIDE DEF sent
  <2>5. /\ t \in TabStates /\ t.at = tab[b].at /\ t.user = tab[b].user /\ t.org = tab[b].org
        /\ t.sent = sent /\ t.data = tab[b].data
    BY <1>1, <2>2 DEF TabStates
  <2> HIDE DEF t
  <2>6. b \notin touched => Agree(t, store)
    BY <1>2, <2>3, <2>4, <2>5 DEF Agree
  <2> QED
    BY <1>1, <1>3, <2>4, <2>5, <2>6, TabStep
<1>5. ASSUME NEW t \in TabStates, tab' = [tab EXCEPT ![b] = t],
             t.at = tab[b].at, t.user = tab[b].user, t.org = tab[b].org,
             t.sent \subseteq tab[b].sent,
             \A d \in t.data : d \in tab[b].data \/
               \E q \in tab[b].sent : d.org = q.org /\ d.outdated = q.outdated
      PROVE  WorkspacesInv'
  <2>1. b \notin touched => Agree(t, store)
    BY <1>2, <1>5 DEF Agree
  <2> QED
    BY <1>1, <1>3, <1>5, <2>1, TabStep
<1>6. CASE Leave(b)
  <2> DEFINE t == [tab[b] EXCEPT !.open = FALSE]
  <2>1. tab' = [tab EXCEPT ![b] = t]
    BY <1>1, <1>6 DEF Leave
  <2>2. /\ t \in TabStates /\ t.at = tab[b].at /\ t.user = tab[b].user /\ t.org = tab[b].org
        /\ t.sent = tab[b].sent /\ t.data = tab[b].data
    BY <1>1 DEF TabStates
  <2> QED
    BY <1>5, <2>1, <2>2
<1>7. CASE Answered(b)
  <2>1. PICK q \in tab[b].sent : tab' = [tab EXCEPT ![b] =
           IF Admitted(q)
           THEN [@ EXCEPT !.sent = {}, !.fresh = TRUE,
                          !.data = {[org |-> q.org, outdated |-> q.outdated]}]
           ELSE [@ EXCEPT !.sent = {}]]
    BY <1>7 DEF Answered
  <2>2. q \in Requests
    BY <1>1 DEF TabStates
  <2>3. CASE Admitted(q)
    <3> DEFINE d == [org |-> q.org, outdated |-> q.outdated]
               t == [tab[b] EXCEPT !.sent = {}, !.fresh = TRUE, !.data = {d}]
    <3>1. tab' = [tab EXCEPT ![b] = t]
      BY <1>1, <2>1, <2>3
    <3>2. d \in Figures /\ d.org = q.org /\ d.outdated = q.outdated
      BY <2>2 DEF Requests, Figures
    <3> HIDE DEF d
    <3>3. /\ t \in TabStates /\ t.at = tab[b].at /\ t.user = tab[b].user
          /\ t.org = tab[b].org /\ t.sent = {} /\ t.data = {d}
      BY <1>1, <3>2 DEF TabStates
    <3> QED
      BY <1>5, <3>1, <3>2, <3>3
  <2>4. CASE ~Admitted(q)
    <3> DEFINE t == [tab[b] EXCEPT !.sent = {}]
    <3>1. tab' = [tab EXCEPT ![b] = t]
      BY <1>1, <2>1, <2>4
    <3>2. /\ t \in TabStates /\ t.at = tab[b].at /\ t.user = tab[b].user
          /\ t.org = tab[b].org /\ t.sent = {} /\ t.data = tab[b].data
      BY <1>1 DEF TabStates
    <3> QED
      BY <1>5, <3>1, <3>2
  <2> QED
    BY <2>3, <2>4
<1>8. CASE Age(b)
  <2>1. CASE tab[b].fresh /\ tab' = [tab EXCEPT ![b].fresh = FALSE]
    <3> DEFINE t == [tab[b] EXCEPT !.fresh = FALSE]
    <3>1. tab' = [tab EXCEPT ![b] = t]
      BY <1>1, <2>1
    <3>2. /\ t \in TabStates /\ t.at = tab[b].at /\ t.user = tab[b].user
          /\ t.org = tab[b].org /\ t.sent = tab[b].sent /\ t.data = tab[b].data
      BY <1>1 DEF TabStates
    <3> QED
      BY <1>5, <3>1, <3>2
  <2>2. CASE tab' = [tab EXCEPT ![b].fresh = FALSE, ![b].data = {}]
    <3> DEFINE t == [tab[b] EXCEPT !.fresh = FALSE, !.data = {}]
    <3>1. tab' = [tab EXCEPT ![b] = t]
      BY <1>1, <2>2
    <3>2. /\ t \in TabStates /\ t.at = tab[b].at /\ t.user = tab[b].user
          /\ t.org = tab[b].org /\ t.sent = tab[b].sent /\ t.data = {}
      BY <1>1 DEF TabStates
    <3> QED
      BY <1>5, <3>1, <3>2
  <2> QED
    BY <1>8, <2>1, <2>2 DEF Age
<1> QED
  BY <1>4, <1>6, <1>7, <1>8

LEMMA StutterStep ==
    ASSUME WorkspacesInv, UNCHANGED workspacesVars
    PROVE  WorkspacesInv'
  BY DEF workspacesVars, WorkspacesInv, WorkspacesTypeOK, Agree

LEMMA WorkspacesInvHolds == WorkspacesSpec => []WorkspacesInv
<1>1. WorkspacesInit => WorkspacesInv
  BY DEF WorkspacesInit, WorkspacesInv, WorkspacesTypeOK, TabStates, Blank, Agree
<1>2. WorkspacesInv /\ [WorkspacesNext]_workspacesVars => WorkspacesInv'
  BY LoadStep, IdentityStep, ChangeStep, SessionLostStep, PageStep, StutterStep DEF WorkspacesNext
<1> QED
  BY <1>1, <1>2, PTL DEF WorkspacesSpec

\* Whatever users sign in one after another in a browser, and whatever organization was
\* left behind, a tab whose storage no other tab wrote is refused no request for its
\* organization (get_current_membership).
THEOREM RequestsAreAdmittedAlways == WorkspacesSpec => []RequestsAreAdmitted
<1>1. WorkspacesInv => RequestsAreAdmitted
  BY DEF WorkspacesInv, WorkspacesTypeOK, Agree, RequestsAreAdmitted, Admitted
<1> QED
  BY <1>1, WorkspacesInvHolds, PTL

\* Such a tab shows under the name of one workspace the figures of another only when they
\* were asked for before a change of user or workspace: the query keys name neither.
THEOREM MismatchIsExplainedAlways == WorkspacesSpec => []MismatchIsExplained
<1>1. WorkspacesInv => MismatchIsExplained
  BY DEF WorkspacesInv, Agree, MismatchIsExplained
<1> QED
  BY <1>1, WorkspacesInvHolds, PTL
=============================================================================
