------------------------- MODULE StripeSyncProofs -------------------------
(***************************************************************************)
(* Theorems about StripeSync, for every set of connections, accounts,      *)
(* runners and log ids.  TypeCorrect, DisconnectIsFinalAlways and          *)
(* StateHasTrailAlways need nothing but the assumptions on the constants.  *)
(* OwnAccountRowsAlways needs one more: that a runner that may sync shares *)
(* its process, and with it stripe.api_key, with no other runner           *)
(* (SyncsApart); the run sync_shared_key shows that this cannot be left    *)
(* out.  Where requests only enqueue, it is about the workers alone.  The  *)
(* theorems about the mirror need in addition that one sync runs at a      *)
(* time.                                                                   *)
(***************************************************************************)
EXTENDS StripeSync, FiniteSetTheorems, TLAPS

\* The Accounts \cup {None} are the values a key, a header or an answer can have.
LEMMA KeyTypes ==
    ASSUME NEW c \in Conns
    PROVE  /\ KeyFor(c) \in Accounts
           /\ HeaderFor(c) \in Accounts \cup {None}
  BY ConstantsAssumption DEF KeyFor, HeaderFor

LEMMA AnswerType ==
    ASSUME NEW key \in Accounts \cup {None}, NEW header \in Accounts \cup {None}
    PROVE  Answers(key, header) \in Accounts \cup {None}
  BY DEF Answers

\* The runners of a process are finitely many, so a crash requeues a number of jobs.
LEMMA JobsCounted ==
    ASSUME NEW S \in SUBSET Runners
    PROVE  Cardinality(S) \in Nat
<1>1. IsFiniteSet(Runners)
  BY ConstantsAssumption, FS_Union DEF Runners
<1>2. IsFiniteSet(S)
  BY <1>1, FS_Subset
<1>. QED
  BY <1>2, FS_CardinalityType

\* A key and a header that ConfigureAuth set for c make Stripe answer for c's account, or
\* not at all.
LEMMA RightKeyRightAccount ==
    ASSUME NEW c \in Conns
    PROVE  Answers(KeyFor(c), HeaderFor(c)) \in {None, AccountOf[c]}
  BY ConstantsAssumption DEF Answers, KeyFor, HeaderFor
-----------------------------------------------------------------------------
(* Type correctness.                                                       *)

LEMMA NothingPulledType == NothingPulled \in [Resources -> PulledRow]
  BY ConstantsAssumption DEF NothingPulled, PulledRow

LEMMA NoMirrorType == NoMirror \in [Resources -> [Accounts -> 0 .. MaxVersion]]
  BY ConstantsAssumption DEF NoMirror

LEMMA TypeInit == Init => TypeOK
  BY ConstantsAssumption, NothingPulledType, NoMirrorType
  DEF Init, TypeOK, DatabaseOK, RunsOK, OutsideOK, Statuses, Idle, Locations

\* What the pieces an action is made of do to the variables they touch.
LEMMA EndRunType ==
    ASSUME RunsOK, NEW r \in Runners, EndRun(r)
    PROVE  RunsOK'
  BY ConstantsAssumption, NothingPulledType DEF EndRun, RunsOK, Idle, Locations

LEMMA BeginType ==
    ASSUME RunsOK, NEW r \in Runners, NEW c \in Conns, NEW at \in Locations,
           Begin(r, c, at)
    PROVE  RunsOK'
  BY DEF Begin, RunsOK, Idle

\* A busy runner moves on to another place.
LEMMA MoveType ==
    ASSUME RunsOK, NEW r \in Runners, ~Idle(r), NEW at \in Locations,
           pc' = [pc EXCEPT ![r] = at], UNCHANGED session
    PROVE  RunsOK'
  BY DEF session, RunsOK, Idle

LEMMA GoOnType ==
    ASSUME RunsOK, NEW r \in Runners, ~Idle(r), NEW at \in Locations, GoOn(r, at)
    PROVE  RunsOK'
  BY NothingPulledType DEF GoOn, RunsOK, Idle

LEMMA SetKeyType ==
    ASSUME OutsideOK, NEW r \in Runners, NEW key \in Accounts \cup {None}, SetKey(r, key)
    PROVE  apiKey' \in [Processes -> Accounts \cup {None}]
  BY ConstantsAssumption DEF SetKey, OutsideOK

LEMMA InsertLogType ==
    ASSUME DatabaseOK, NEW c \in Conns, NEW l \in LogIds, InsertLog(l, c),
           UNCHANGED <<status, lastSync, mirror>>
    PROVE  DatabaseOK'
  BY DEF InsertLog, DatabaseOK

LEMMA StoredType ==
    ASSUME TypeOK, NEW r \in Runners, NEW c \in Conns
    PROVE  Stored(r, c) \in [Resources -> [Accounts -> 0 .. MaxVersion]]
<1>1. ASSUME NEW res \in Resources, NEW a \in Accounts
      PROVE  /\ mirror[c][res][a] \in 0 .. MaxVersion
             /\ Written(pulled[r][res], mirror[c][res][a]) \in 0 .. MaxVersion
  BY <1>1 DEF TypeOK, DatabaseOK, RunsOK, Written, PulledRow
<1>. QED
  BY <1>1 DEF Stored

\* Every variable keeps its shape, and a busy runner works for some connection.
THEOREM TypeCorrect == Spec => []TypeOK
<1>1. Init => TypeOK
  BY TypeInit
<1>2. TypeOK /\ [Next]_vars => TypeOK'
  <2> SUFFICES ASSUME DatabaseOK, RunsOK, OutsideOK, [Next]_vars
               PROVE  DatabaseOK' /\ RunsOK' /\ OutsideOK'
    BY DEF TypeOK
  <2>. USE ConstantsAssumption DEF Runners, mishaps
  <2>1. ASSUME NEW a \in Accounts, Edit(a)
        PROVE  DatabaseOK' /\ RunsOK' /\ OutsideOK'
    BY <2>1 DEF Edit, DatabaseOK, RunsOK, OutsideOK, database, session, Idle
  <2>2. ASSUME NEW r \in ApiRunners, NEW c \in Conns, Connect(r, c)
        PROVE  DatabaseOK' /\ RunsOK' /\ OutsideOK'
    <3>1. apiKey' \in [Processes -> Accounts \cup {None}]
      BY <2>2, SetKeyType, KeyTypes DEF Connect
    <3>. QED
      BY <2>2, <3>1 DEF Connect, DatabaseOK, RunsOK, OutsideOK, session, Statuses, Idle
  <2>3. ASSUME NEW r \in ApiRunners, NEW c \in Conns, Disconnect(r, c)
        PROVE  DatabaseOK' /\ RunsOK' /\ OutsideOK'
    <3>1. apiKey' \in [Processes -> Accounts \cup {None}]
      <4>1. CASE UNCHANGED apiKey
        BY <4>1 DEF OutsideOK
      <4>2. CASE SetKey(r, PlatformAccount)
        BY <4>2, SetKeyType
      <4>. QED
        BY <2>3, <4>1, <4>2 DEF Disconnect
    <3>2. DatabaseOK'
      BY <2>3, NoMirrorType DEF Disconnect, DatabaseOK, Statuses
    <3>. QED
      BY <2>3, <3>1, <3>2 DEF Disconnect, RunsOK, OutsideOK, session, Idle
  <2>4. ASSUME NEW r \in ApiRunners, NEW c \in Conns, TriggerSync(r, c)
        PROVE  DatabaseOK' /\ RunsOK' /\ OutsideOK'
    <3>1. RunsOK'
      BY <2>4, BeginType DEF TriggerSync, Locations
    <3>2. queue' \in [Conns -> Nat]
      BY <2>4 DEF TriggerSync, OutsideOK
    <3>. QED
      BY <2>4, <3>1, <3>2 DEF TriggerSync, DatabaseOK, OutsideOK, database
  <2>5. ASSUME NEW w \in Workers, CronFanOut(w)
        PROVE  DatabaseOK' /\ RunsOK' /\ OutsideOK'
    BY <2>5 DEF CronFanOut, DatabaseOK, RunsOK, OutsideOK, database, session, Idle
  <2>6. ASSUME NEW w \in Workers, NEW c \in Conns, StartJob(w, c)
        PROVE  DatabaseOK' /\ RunsOK' /\ OutsideOK'
    <3>1. RunsOK'
      <4>1. CASE Connected(c)
        BY <2>6, <4>1, BeginType DEF StartJob, Locations
      <4>2. CASE ~Connected(c)
        BY <2>6, <4>2 DEF StartJob, RunsOK, session, Idle
      <4>. QED
        BY <4>1, <4>2
    <3>2. queue' \in [Conns -> Nat]
      BY <2>6 DEF StartJob, OutsideOK
    <3>. QED
      BY <2>6, <3>1, <3>2 DEF StartJob, DatabaseOK, OutsideOK, database
  <2>7. ASSUME NEW r \in Runners, WritePendingLog(r)
        PROVE  DatabaseOK' /\ RunsOK' /\ OutsideOK'
    <3>1. target[r] \in Conns
      BY <2>7 DEF WritePendingLog, RunsOK, Idle
    <3>2. DatabaseOK'
      <4>1. CASE Connected(target[r])
        BY <2>7, <3>1, <4>1, InsertLogType DEF WritePendingLog
      <4>2. CASE ~Connected(target[r])
        BY <2>7, <4>2 DEF WritePendingLog, DatabaseOK
      <4>. QED
        BY <4>1, <4>2
    <3>. QED
      BY <2>7, <3>2, EndRunType DEF WritePendingLog, OutsideOK
  <2>8. ASSUME NEW r \in Runners, ConfigureAuth(r)
        PROVE  DatabaseOK' /\ RunsOK' /\ OutsideOK'
    <3>1. target[r] \in Conns /\ ~Idle(r)
      BY <2>8 DEF ConfigureAuth, RunsOK, Idle
    <3>2. apiKey' \in [Processes -> Accounts \cup {None}]
      <4>1. CASE HasKey(r, target[r])
        BY <2>8, <3>1, <4>1, KeyTypes, SetKeyType DEF ConfigureAuth
      <4>2. CASE ~HasKey(r, target[r])
        BY <2>8, <4>2 DEF ConfigureAuth, OutsideOK
      <4>. QED
        BY <4>1, <4>2
    <3>3. RunsOK'
      <4>1. CASE HasKey(r, target[r])
        BY <2>8, <3>1, <4>1, MoveType DEF ConfigureAuth, Locations
      <4>2. CASE ~HasKey(r, target[r])
        BY <2>8, <4>2, EndRunType DEF ConfigureAuth
      <4>. QED
        BY <4>1, <4>2
    <3>. QED
      BY <2>8, <3>2, <3>3 DEF ConfigureAuth, DatabaseOK, OutsideOK, database
  <2>9. ASSUME NEW r \in Runners, OpenLog(r)
        PROVE  DatabaseOK' /\ RunsOK' /\ OutsideOK'
    <3>1. target[r] \in Conns
      BY <2>9 DEF OpenLog, RunsOK, Idle
    <3>2. CASE Connected(target[r])
      <4>1. PICK l \in LogIds : InsertLog(l, target[r]) /\ row' = [row EXCEPT ![r] = l]
        BY <2>9, <3>2 DEF OpenLog
      <4>2. DatabaseOK'
        BY <2>9, <3>1, <4>1, InsertLogType DEF OpenLog
      <4>3. version[AccountOf[target[r]]] \in 0 .. MaxVersion
        BY <3>1 DEF OutsideOK
      <4>4. RunsOK'
        BY <2>9, <3>1, <3>2, <4>1, <4>3, NothingPulledType
        DEF OpenLog, RunsOK, Idle, Locations, Resources
      <4>. QED
        BY <2>9, <4>2, <4>4 DEF OpenLog, OutsideOK
    <3>3. CASE ~Connected(target[r])
      BY <2>9, <3>3, EndRunType DEF OpenLog, DatabaseOK, OutsideOK
    <3>. QED
      BY <3>2, <3>3
  <2>10. ASSUME NEW r \in Runners, Pull(r)
         PROVE  DatabaseOK' /\ RunsOK' /\ OutsideOK'
    <3>. DEFINE res == pc[r]
                acct == Answers(apiKey[ProcessOf[r]], HeaderFor(target[r]))
                new == [acct |-> acct, base |-> mirror[target[r]][res][acct],
                        ver |-> version[acct]]
    <3>1. res \in Resources /\ acct # None /\ target[r] \in Conns
      BY <2>10 DEF Pull, RunsOK, Idle, Resources
    <3>2. acct \in Accounts
      BY <3>1, KeyTypes, AnswerType DEF OutsideOK
    <3>3. new \in PulledRow
      BY <3>1, <3>2 DEF DatabaseOK, OutsideOK, PulledRow
    <3>4. pulled' = [pulled EXCEPT ![r][res] = new]
      BY <2>10 DEF Pull
    <3>5. pulled' \in [Runners -> [Resources -> PulledRow]]
      BY <3>1, <3>3, <3>4 DEF RunsOK
    <3>6. After[res] \in Locations
      BY <3>1 DEF After, Resources, Locations
    <3>7. RunsOK'
      BY <2>10, <3>1, <3>5, <3>6 DEF Pull, RunsOK, Idle
    <3>. QED
      BY <2>10, <3>7 DEF Pull, DatabaseOK, OutsideOK, database
  <2>11. ASSUME NEW r \in Runners, PullFails(r)
         PROVE  DatabaseOK' /\ RunsOK' /\ OutsideOK'
    <3>1. RunsOK'
      BY <2>11, GoOnType DEF PullFails, Locations, Resources, Idle
    <3>. QED
      BY <2>11, <3>1 DEF PullFails, DatabaseOK, OutsideOK, database
  <2>12. ASSUME NEW r \in Runners, StoreRows(r)
         PROVE  DatabaseOK' /\ RunsOK' /\ OutsideOK'
    <3>1. target[r] \in Conns
      BY <2>12 DEF StoreRows, RunsOK, Idle
    <3>2. Stored(r, target[r]) \in [Resources -> [Accounts -> 0 .. MaxVersion]]
      BY <3>1, StoredType DEF TypeOK
    <3>3. DatabaseOK'
      <4>1. \/ UNCHANGED mirror
            \/ mirror' = [mirror EXCEPT ![target[r]] = Stored(r, target[r])]
        BY <2>12 DEF StoreRows
      <4>2. mirror' \in [Conns -> [Resources -> [Accounts -> 0 .. MaxVersion]]]
        BY <3>1, <3>2, <4>1 DEF DatabaseOK
      <4>. QED
        BY <2>12, <4>2 DEF StoreRows, DatabaseOK
    <3>4. RunsOK'
      BY <2>12, GoOnType DEF StoreRows, Locations, Idle
    <3>. QED
      BY <2>12, <3>3, <3>4 DEF StoreRows, OutsideOK
  <2>13. ASSUME NEW r \in Runners, Finish(r)
         PROVE  DatabaseOK' /\ RunsOK' /\ OutsideOK'
    <3>1. CASE Connected(target[r])
      BY <2>13, <3>1, EndRunType DEF Report, Finish, DatabaseOK, OutsideOK, Statuses
    <3>2. CASE ~Connected(target[r])
      <4>1. RunsOK'
        BY <2>13, <3>2, GoOnType DEF Finish, Locations, Idle
      <4>. QED
        BY <2>13, <3>2, <4>1 DEF Report, Finish, DatabaseOK, OutsideOK
    <3>. QED
      BY <3>1, <3>2
  <2>14. ASSUME NEW r \in Runners, RecordFailure(r)
         PROVE  DatabaseOK' /\ RunsOK' /\ OutsideOK'
    <3>1. DatabaseOK'
      BY <2>14 DEF Report, RecordFailure, DatabaseOK, Statuses
    <3>. QED
      BY <2>14, <3>1, EndRunType DEF Report, RecordFailure, OutsideOK
  <2>15. ASSUME NEW p \in Processes, Crash(p)
         PROVE  DatabaseOK' /\ RunsOK' /\ OutsideOK'
    <3>1. queue' \in [Conns -> Nat]
      <4>. DEFINE jobs == {r \in {q \in Runners : ProcessOf[q] = p} \cap Workers : ~Idle(r)}
      <4>1. queue' = [c \in Conns |-> queue[c] + Cardinality({r \in jobs : target[r] = c})]
        BY <2>15 DEF Crash, Redelivered
      <4>2. \A c \in Conns : Cardinality({r \in jobs : target[r] = c}) \in Nat
        BY JobsCounted
      <4>. HIDE DEF jobs
      <4>. QED
        BY <4>1, <4>2 DEF OutsideOK
    <3>2. RunsOK'
      BY <2>15, NothingPulledType DEF Crash, RunsOK, Idle, Locations
    <3>3. apiKey' \in [Processes -> Accounts \cup {None}] /\ crashes' \in 0 .. MaxCrashes
      BY <2>15 DEF Crash, OutsideOK
    <3>. QED
      BY <2>15, <3>1, <3>2, <3>3 DEF Crash, DatabaseOK, OutsideOK, database
  <2>16. CASE UNCHANGED vars
    BY <2>16 DEF DatabaseOK, RunsOK, OutsideOK, Idle, vars, database, session
  <2>17. ASSUME NEW c \in DemoConns, SeedDemo(c)
         PROVE  DatabaseOK' /\ RunsOK' /\ OutsideOK'
    BY <2>17 DEF SeedDemo, DatabaseOK, RunsOK, OutsideOK, Statuses, session, Idle
  <2>18. ASSUME NEW r \in Runners, CommitFails(r)
         PROVE  DatabaseOK' /\ RunsOK' /\ OutsideOK'
    <3>1. RunsOK'
      BY <2>18, EndRunType, GoOnType DEF CommitFails, Locations, Idle
    <3>2. faults' \in 0 .. MaxFaults /\ lost' \in [Conns -> Nat]
      BY <2>18 DEF CommitFails, OutsideOK
    <3>. QED
      BY <2>18, <3>1, <3>2 DEF CommitFails, DatabaseOK, OutsideOK, database
  <2>. QED
    BY <2>1, <2>2, <2>3, <2>4, <2>5, <2>6, <2>7, <2>8, <2>9, <2>10, <2>11, <2>12,
       <2>13, <2>14, <2>15, <2>16, <2>17, <2>18 DEF Next, RunStep
<1>. QED
  BY <1>1, <1>2, PTL DEF Spec

-----------------------------------------------------------------------------
(* Ownership.  OwnAccountRows is not inductive: StoreRows writes what the   *)
(* session holds, the session holds what Stripe answered, and the answer   *)
(* depends on the key the process holds at the time of the call.           *)

\* Who sets a key leaves those of the other runners in a sync alone.
LEMMA OthersKeepTheirKey ==
    ASSUME SyncsApart, OnlySyncersSync, OutsideOK, NEW r \in Runners, NEW key, SetKey(r, key),
           NEW q \in Runners \ {r}, pc[q] \notin {"idle", "pending"}
    PROVE  apiKey'[ProcessOf[q]] = apiKey[ProcessOf[q]]
<1>1. q \in Syncers
  BY DEF OnlySyncersSync
<1>. QED  BY <1>1, ConstantsAssumption DEF SyncsApart, SetKey, OutsideOK

\* Where every message is queued, requests do not get beyond the pending row.
LEMMA OnlySyncersStep ==
    ASSUME RunsOK, OnlySyncersSync, [Next]_vars
    PROVE  OnlySyncersSync'
<1>. SUFFICES ASSUME NEW q \in Runners \ Syncers
              PROVE  pc'[q] \in {"idle", "pending"}
  BY DEF OnlySyncersSync, Syncers
<1>. EnqueueOutcomes \subseteq {"queued"} /\ q \notin Workers /\ pc[q] \in {"idle", "pending"}
  BY DEF OnlySyncersSync, Syncers
<1>1. ASSUME NEW r \in ApiRunners, NEW c \in Conns, TriggerSync(r, c)
      PROVE  pc'[q] \in {"idle", "pending"}
  BY <1>1 DEF TriggerSync, Begin, RunsOK
<1>2. ASSUME NEW r \in ApiRunners, NEW c \in Conns, Connect(r, c) \/ Disconnect(r, c)
      PROVE  pc'[q] \in {"idle", "pending"}
  BY <1>2 DEF Connect, Disconnect
<1>3. ASSUME NEW w \in Workers, CronFanOut(w) \/ \E c \in Conns : StartJob(w, c)
      PROVE  pc'[q] \in {"idle", "pending"}
  BY <1>3 DEF CronFanOut, StartJob, Begin, RunsOK
<1>4. ASSUME NEW r \in Runners, RunStep(r) \/ CommitFails(r)
      PROVE  pc'[q] \in {"idle", "pending"}
  <2>1. CASE pc[r] = "pending"
    BY <1>4, <2>1 DEF RunStep, WritePendingLog, ConfigureAuth, OpenLog, Pull, PullFails,
       StoreRows, Finish, RecordFailure, CommitFails, EndRun, RunsOK, Resources
  <2>2. CASE pc[r] # "pending"
    <3>1. pc[r] # "idle"
      BY <1>4, <2>2 DEF RunStep, WritePendingLog, ConfigureAuth, OpenLog, Pull, PullFails,
         StoreRows, Finish, RecordFailure, CommitFails, Resources
    <3>2. \E at : pc' = [pc EXCEPT ![r] = at]
      BY <1>4 DEF RunStep, WritePendingLog, ConfigureAuth, OpenLog, Pull, PullFails,
         StoreRows, Finish, RecordFailure, CommitFails, GoOn, EndRun
    <3>. QED  BY <2>2, <3>1, <3>2 DEF RunsOK
  <2>. QED  BY <2>1, <2>2
<1>5. ASSUME NEW p \in Processes, Crash(p)
      PROVE  pc'[q] \in {"idle", "pending"}
  BY <1>5 DEF Crash
<1>6. UNCHANGED vars \/ (\E a \in Accounts : Edit(a)) \/ (\E c \in DemoConns : SeedDemo(c))
        => pc' = pc
  BY DEF vars, Edit, SeedDemo
<1>. QED  BY <1>1, <1>2, <1>3, <1>4, <1>5, <1>6 DEF Next

\* A runner that is or becomes idle is outside both clauses about runs, and the
\* others keep what the clauses speak of.
LEMMA EndRunKeeps ==
    ASSUME RunsOK, KeyIsForTarget, PulledIsOwn, NEW r \in Runners, EndRun(r),
           UNCHANGED apiKey
    PROVE  KeyIsForTarget' /\ PulledIsOwn'
  BY DEF EndRun, RunsOK, KeyIsForTarget, PulledIsOwn, Resources

LEMMA GoOnKeeps ==
    ASSUME RunsOK, KeyIsForTarget, PulledIsOwn, NEW r \in Runners,
           NEW at \in {"finish", "fail"}, GoOn(r, at), UNCHANGED apiKey
    PROVE  KeyIsForTarget' /\ PulledIsOwn'
  BY DEF GoOn, RunsOK, KeyIsForTarget, PulledIsOwn, Resources

\* What a session of rows of the right account stores is the right account's.
LEMMA StoredIsOwn ==
    ASSUME OwnAccountRows, PulledIsOwn, NEW r \in Runners, pc[r] = "store",
           target[r] \in Conns, NEW res \in Resources, NEW a \in Accounts,
           Stored(r, target[r])[res][a] > 0
    PROVE  a = AccountOf[target[r]]
<1>1. pulled[r][res].acct \in {None, AccountOf[target[r]]}
  BY DEF PulledIsOwn
<1>2. CASE a = pulled[r][res].acct
  BY <1>1, <1>2, ConstantsAssumption
<1>3. CASE a # pulled[r][res].acct
  BY <1>3 DEF Stored, OwnAccountRows
<1>. QED
  BY <1>2, <1>3

LEMMA OwnershipStep ==
    ASSUME SyncsApart, TypeOK, OwnershipInv, [Next]_vars
    PROVE  OwnershipInv'
<1>. USE ConstantsAssumption DEF Runners
<1>. DatabaseOK /\ RunsOK /\ OutsideOK
  BY DEF TypeOK
<1>. KeyIsForTarget /\ PulledIsOwn /\ OwnAccountRows /\ OnlySyncersSync
  BY DEF OwnershipInv
<1>. SUFFICES KeyIsForTarget' /\ PulledIsOwn' /\ OwnAccountRows'
  BY OnlySyncersStep DEF OwnershipInv
<1>1. ASSUME NEW a \in Accounts, Edit(a)
      PROVE  KeyIsForTarget' /\ PulledIsOwn' /\ OwnAccountRows'
  BY <1>1 DEF Edit, KeyIsForTarget, PulledIsOwn, OwnAccountRows, database, session
<1>2. ASSUME NEW r \in ApiRunners, NEW c \in Conns, Connect(r, c)
      PROVE  KeyIsForTarget' /\ PulledIsOwn' /\ OwnAccountRows'
  <2>1. KeyIsForTarget'
    BY <1>2, OthersKeepTheirKey DEF Connect, KeyIsForTarget, Idle, Resources, session
  <2>. QED
    BY <1>2, <2>1 DEF Connect, PulledIsOwn, OwnAccountRows, session
<1>3. ASSUME NEW r \in ApiRunners, NEW c \in Conns, Disconnect(r, c)
      PROVE  KeyIsForTarget' /\ PulledIsOwn' /\ OwnAccountRows'
  <2>1. KeyIsForTarget'
    BY <1>3, OthersKeepTheirKey DEF Disconnect, KeyIsForTarget, Idle, Resources, session
  <2>2. OwnAccountRows'
    BY <1>3 DEF Disconnect, OwnAccountRows, DatabaseOK, NoMirror
  <2>. QED
    BY <1>3, <2>1, <2>2 DEF Disconnect, PulledIsOwn, session
<1>4. ASSUME NEW r \in ApiRunners, NEW c \in Conns, TriggerSync(r, c)
      PROVE  KeyIsForTarget' /\ PulledIsOwn' /\ OwnAccountRows'
  BY <1>4 DEF TriggerSync, Begin, RunsOK, KeyIsForTarget, PulledIsOwn, OwnAccountRows,
     Resources, database
<1>5. ASSUME NEW w \in Workers, CronFanOut(w)
      PROVE  KeyIsForTarget' /\ PulledIsOwn' /\ OwnAccountRows'
  BY <1>5 DEF CronFanOut, KeyIsForTarget, PulledIsOwn, OwnAccountRows, database, session
<1>6. ASSUME NEW w \in Workers, NEW c \in Conns, StartJob(w, c)
      PROVE  KeyIsForTarget' /\ PulledIsOwn' /\ OwnAccountRows'
  BY <1>6 DEF StartJob, Begin, RunsOK, KeyIsForTarget, PulledIsOwn, OwnAccountRows,
     Resources, database, session
<1>7. ASSUME NEW r \in Runners, WritePendingLog(r)
      PROVE  KeyIsForTarget' /\ PulledIsOwn' /\ OwnAccountRows'
  BY <1>7, EndRunKeeps DEF WritePendingLog, OwnAccountRows
<1>8. ASSUME NEW r \in Runners, ConfigureAuth(r)
      PROVE  KeyIsForTarget' /\ PulledIsOwn' /\ OwnAccountRows'
  <2>0. CASE ~HasKey(r, target[r])
    BY <1>8, <2>0, EndRunKeeps DEF ConfigureAuth, OwnAccountRows, database
  <2>. SUFFICES ASSUME HasKey(r, target[r])
                PROVE  KeyIsForTarget' /\ PulledIsOwn' /\ OwnAccountRows'
    BY <2>0
  <2>1. apiKey'[ProcessOf[r]] = KeyFor(target[r])
    BY <1>8 DEF ConfigureAuth, SetKey, OutsideOK
  <2>2. \A q \in Runners \ {r} : pc[q] \notin {"idle", "pending"} =>
          apiKey'[ProcessOf[q]] = apiKey[ProcessOf[q]]
    BY <1>8, OthersKeepTheirKey DEF ConfigureAuth
  <2>3. KeyIsForTarget'
    BY <1>8, <2>1, <2>2 DEF ConfigureAuth, KeyIsForTarget, KeyFor, RunsOK, Resources, session
  <2>. QED
    BY <1>8, <2>3 DEF ConfigureAuth, RunsOK, PulledIsOwn, OwnAccountRows, Resources,
       database, session
<1>9. ASSUME NEW r \in Runners, OpenLog(r)
      PROVE  KeyIsForTarget' /\ PulledIsOwn' /\ OwnAccountRows'
  <2>1. CASE Connected(target[r])
    BY <1>9, <2>1 DEF OpenLog, RunsOK, KeyIsForTarget, KeyFor, PulledIsOwn,
       OwnAccountRows, NothingPulled, Resources
  <2>2. CASE ~Connected(target[r])
    BY <1>9, <2>2, EndRunKeeps DEF OpenLog, OwnAccountRows
  <2>. QED
    BY <2>1, <2>2
<1>10. ASSUME NEW r \in Runners, Pull(r)
       PROVE  KeyIsForTarget' /\ PulledIsOwn' /\ OwnAccountRows'
  <2>1. pc[r] \in Resources /\ target[r] \in Conns
    BY <1>10 DEF Pull, RunsOK, Idle, Resources
  <2>2. Answers(apiKey[ProcessOf[r]], HeaderFor(target[r])) = AccountOf[target[r]]
    BY <1>10, <2>1, RightKeyRightAccount DEF KeyIsForTarget, Pull
  <2>3. After[pc[r]] \in Resources \cup {"store"}
    BY <2>1 DEF After, Resources
  <2>4. KeyIsForTarget'
    BY <1>10, <2>1, <2>3 DEF Pull, RunsOK, KeyIsForTarget, KeyFor, Resources
  <2>5. PulledIsOwn'
    BY <1>10, <2>1, <2>2, <2>3 DEF Pull, RunsOK, PulledIsOwn, PulledRow
  <2>. QED
    BY <1>10, <2>4, <2>5 DEF Pull, OwnAccountRows, database
<1>11. ASSUME NEW r \in Runners, PullFails(r)
       PROVE  KeyIsForTarget' /\ PulledIsOwn' /\ OwnAccountRows'
  BY <1>11, GoOnKeeps DEF PullFails, OwnAccountRows, database
<1>12. ASSUME NEW r \in Runners, StoreRows(r)
       PROVE  KeyIsForTarget' /\ PulledIsOwn' /\ OwnAccountRows'
  <2>1. KeyIsForTarget' /\ PulledIsOwn'
    BY <1>12, GoOnKeeps DEF StoreRows
  <2>2. target[r] \in Conns
    BY <1>12 DEF StoreRows, RunsOK, Idle
  <2>3. OwnAccountRows'
    <3>1. CASE Refused(r)
      BY <1>12, <3>1 DEF StoreRows, OwnAccountRows
    <3>2. CASE ~Refused(r)
      <4>1. mirror' = [mirror EXCEPT ![target[r]] = Stored(r, target[r])] /\ pc[r] = "store"
        BY <1>12, <3>2 DEF StoreRows
      <4>2. ASSUME NEW c \in Conns, NEW res \in Resources, NEW a \in Accounts,
                   mirror'[c][res][a] > 0
            PROVE  a = AccountOf[c]
        <5>1. CASE c = target[r]
          <6>1. mirror'[c] = Stored(r, target[r])
            BY <4>1, <5>1 DEF DatabaseOK
          <6>. QED
            BY <4>1, <4>2, <5>1, <6>1, <2>2, StoredIsOwn
        <5>2. CASE c # target[r]
          <6>1. mirror'[c] = mirror[c]
            BY <4>1, <5>2 DEF DatabaseOK
          <6>. QED
            BY <4>2, <6>1 DEF OwnAccountRows
        <5>. QED
          BY <5>1, <5>2
      <4>. QED
        BY <4>2 DEF OwnAccountRows
    <3>. QED
      BY <3>1, <3>2
  <2>. QED
    BY <2>1, <2>3
<1>13. ASSUME NEW r \in Runners, Finish(r)
       PROVE  KeyIsForTarget' /\ PulledIsOwn' /\ OwnAccountRows'
  <2>1. CASE Connected(target[r])
    BY <1>13, <2>1, EndRunKeeps DEF Report, Finish, OwnAccountRows
  <2>2. CASE ~Connected(target[r])
    BY <1>13, <2>2, GoOnKeeps DEF Finish, OwnAccountRows
  <2>. QED
    BY <2>1, <2>2
<1>14. ASSUME NEW r \in Runners, RecordFailure(r)
       PROVE  KeyIsForTarget' /\ PulledIsOwn' /\ OwnAccountRows'
  BY <1>14, EndRunKeeps DEF Report, RecordFailure, OwnAccountRows
<1>15. ASSUME NEW p \in Processes, Crash(p)
       PROVE  KeyIsForTarget' /\ PulledIsOwn' /\ OwnAccountRows'
  <2>1. KeyIsForTarget'
    BY <1>15 DEF Crash, KeyIsForTarget, KeyFor, OutsideOK, RunsOK, Resources
  <2>. QED
    BY <1>15, <2>1 DEF Crash, PulledIsOwn, OwnAccountRows, Resources, database
<1>16. CASE UNCHANGED vars
  BY <1>16 DEF KeyIsForTarget, KeyFor, PulledIsOwn, OwnAccountRows, vars, database, session
<1>17. ASSUME NEW c \in DemoConns, SeedDemo(c)
       PROVE  KeyIsForTarget' /\ PulledIsOwn' /\ OwnAccountRows'
  BY <1>17 DEF SeedDemo, KeyIsForTarget, PulledIsOwn, OwnAccountRows, session
<1>18. ASSUME NEW r \in Runners, CommitFails(r)
       PROVE  KeyIsForTarget' /\ PulledIsOwn' /\ OwnAccountRows'
  BY <1>18, EndRunKeeps, GoOnKeeps DEF CommitFails, OwnAccountRows, database
<1>. QED
  BY <1>1, <1>2, <1>3, <1>4, <1>5, <1>6, <1>7, <1>8, <1>9, <1>10, <1>11, <1>12,
     <1>13, <1>14, <1>15, <1>16, <1>17, <1>18 DEF Next, RunStep

\* Where a sync never shares its process with another setter of the key, every row mirrored under a connection is
\* of the account that connection was granted for.
THEOREM OwnAccountRowsAlways ==
    ASSUME SyncsApart
    PROVE  Spec => []OwnAccountRows
<1>1. Init => OwnershipInv
  BY ConstantsAssumption
  DEF Init, OwnershipInv, KeyIsForTarget, PulledIsOwn, OwnAccountRows,
      OnlySyncersSync, NoMirror, Resources
<1>2. TypeOK /\ OwnershipInv /\ [Next]_vars => OwnershipInv'
  BY OwnershipStep
<1>3. OwnershipInv => OwnAccountRows
  BY DEF OwnershipInv
<1>. QED
  BY <1>1, <1>2, <1>3, TypeCorrect, PTL DEF Spec

-----------------------------------------------------------------------------
(* Disconnecting.  A run outlives its connection; what keeps it from        *)
(* writing is that each commit is refused without the connection's row,     *)
(* and that the sync_logs row it writes is its own (RunOwnsItsLog).         *)

LogInv == RunOwnsItsLog /\ DisconnectIsFinal

\* A connection that is gone gets no rows from a commit that goes through.
LEMMA GoneStoresNothing ==
    ASSUME TypeOK, NEW r \in Runners, target[r] \in Conns, ~Connected(target[r]),
           ~Refused(r), mirror[target[r]] = NoMirror
    PROVE  Stored(r, target[r]) = NoMirror
<1>1. ASSUME NEW res \in Resources, NEW a \in Accounts
      PROVE  Written(pulled[r][res], mirror[target[r]][res][a]) = 0
  <2>1. pulled[r][res].ver \in 0 .. MaxVersion
    BY DEF TypeOK, RunsOK, PulledRow
  <2>2. pulled[r][res].ver = 0
    BY <2>1, ConstantsAssumption DEF Refused
  <2>3. mirror[target[r]][res][a] = 0
    BY DEF NoMirror
  <2>. QED
    BY <2>2, <2>3 DEF Written
<1>2. \A res \in Resources, a \in Accounts : mirror[target[r]][res][a] = 0
  BY DEF NoMirror
<1>. QED
  BY <1>1, <1>2 DEF Stored, NoMirror

\* Ending a run gives up its row, and takes no row from another run.
LEMMA EndRunRows ==
    ASSUME RunsOK, RunOwnsItsLog, NEW r \in Runners, EndRun(r)
    PROVE  /\ row'[r] = None /\ ~InSync(r)'
           /\ \A q \in Runners \ {r} :
                row'[q] = row[q] /\ target'[q] = target[q] /\ pc'[q] = pc[q]
  BY DEF EndRun, RunsOK, InSync, Resources

\* Reporting an outcome on a connection that is still there disturbs no other run and
\* nothing of a connection that is gone.
LEMMA ReportKeeps ==
  ASSUME TypeOK, LogInv, NEW r \in Runners, NEW outcome \in {"success", "failed"},
         InSync(r), Connected(target[r]), Report(r, outcome), EndRun(r),
         UNCHANGED <<mirror, logConn>>
  PROVE  RunOwnsItsLog' /\ DisconnectIsFinal'
<1>. USE DEF TypeOK, LogInv
<1>1. target[r] \in Conns
  BY DEF InSync, RunsOK, Idle, Resources
<1>2. row[r] \in LogIds /\ logConn[row[r]] = target[r]
      /\ \A q \in Runners \ {r} : row[q] # row[r]
  BY DEF RunOwnsItsLog
<1>3. status'[target[r]] \in {"active", "error"}
      /\ \A c \in Conns \ {target[r]} : status'[c] = status[c] /\ lastSync'[c] = lastSync[c]
  BY <1>1 DEF Report, DatabaseOK
<1>4. \A l \in LogIds \ {row[r]} : logStatus'[l] = logStatus[l]
  BY DEF Report, DatabaseOK
<1>5. \A c \in Conns : Connected(c)' = Connected(c)
  BY <1>3 DEF Connected
<1>6. ~InSync(r)' /\ row'[r] = None
      /\ \A q \in Runners \ {r} :
           row'[q] = row[q] /\ target'[q] = target[q] /\ pc'[q] = pc[q]
  BY EndRunRows DEF InSync
<1>7. RunOwnsItsLog'
  <2>1. ASSUME NEW q \in Runners \ {r}, InSync(q)
        PROVE  /\ row'[q] \in LogIds
               /\ logConn'[row'[q]] = target'[q]
               /\ status'[target'[q]] # "new"
               /\ logStatus'[row'[q]] =
                    IF Connected(target[q])' THEN "running" ELSE "deleted"
               /\ \A x \in Runners \ {q} : row'[x] # row'[q]
    <3>1. target[q] \in Conns /\ row[q] \in LogIds \ {row[r]}
      BY <2>1, <1>2 DEF InSync, RunsOK, Idle, RunOwnsItsLog, Resources
    <3>2. status'[target[q]] # "new"
      BY <2>1, <3>1, <1>3 DEF RunOwnsItsLog
    <3>3. logStatus'[row[q]] = IF Connected(target[q])' THEN "running" ELSE "deleted"
      BY <2>1, <3>1, <1>4, <1>5, <1>6 DEF RunOwnsItsLog, Connected
    <3>4. \A x \in Runners \ {q} : row'[x] # row[q]
      BY <2>1, <3>1, <1>6, ConstantsAssumption DEF RunOwnsItsLog
    <3>. QED
      BY <2>1, <3>1, <3>2, <3>3, <3>4, <1>6 DEF RunOwnsItsLog
  <2>2. \A q \in Runners \ {r} : InSync(q)' = InSync(q)
    BY <1>6 DEF InSync
  <2>. QED
    BY <2>1, <2>2, <1>6 DEF RunOwnsItsLog
<1>8. DisconnectIsFinal'
  <2>1. ASSUME NEW c \in Conns, ~Connected(c)
        PROVE  /\ mirror'[c] = NoMirror
               /\ lastSync'[c] = None
               /\ \A l \in LogIds : logConn'[l] = c => logStatus'[l] = "deleted"
    BY <2>1, <1>2, <1>3, <1>4 DEF DisconnectIsFinal
  <2>. QED
    BY <2>1, <1>5 DEF DisconnectIsFinal
<1>. QED
  BY <1>7, <1>8

\* A run that goes on inside sync keeps its row.
LEMMA GoOnRows ==
    ASSUME RunsOK, RunOwnsItsLog, NEW r \in Runners, InSync(r),
           NEW at \in {"finish", "fail"}, GoOn(r, at), UNCHANGED <<logConn, logStatus, status>>
    PROVE  RunOwnsItsLog'
  BY DEF GoOn, RunsOK, RunOwnsItsLog, InSync, Connected

LEMMA LogStep ==
    ASSUME TypeOK, LogInv, [Next]_vars
    PROVE  LogInv'
<1>. USE ConstantsAssumption DEF Runners
<1>. DatabaseOK /\ RunsOK /\ OutsideOK
  BY DEF TypeOK
<1>. RunOwnsItsLog /\ DisconnectIsFinal
  BY DEF LogInv
<1>. SUFFICES RunOwnsItsLog' /\ DisconnectIsFinal'
  BY DEF LogInv
<1>1. ASSUME NEW a \in Accounts, Edit(a)
      PROVE  RunOwnsItsLog' /\ DisconnectIsFinal'
  BY <1>1 DEF Edit, RunOwnsItsLog, DisconnectIsFinal, InSync, Connected, database, session
<1>2. ASSUME NEW r \in ApiRunners, NEW c \in Conns, Connect(r, c)
      PROVE  RunOwnsItsLog' /\ DisconnectIsFinal'
  <2>1. DisconnectIsFinal'
    BY <1>2 DEF Connect, DisconnectIsFinal, Connected, DatabaseOK, Statuses
  <2>2. \A r0 \in Runners : InSync(r0) => Connected(target[r0])' = Connected(target[r0])
    BY <1>2 DEF Connect, RunOwnsItsLog, InSync, Connected, DatabaseOK, RunsOK, Statuses,
       Idle, Resources, session
  <2>. QED
    BY <1>2, <2>1, <2>2 DEF Connect, RunOwnsItsLog, InSync, DatabaseOK, session
<1>3. ASSUME NEW r \in ApiRunners, NEW c \in Conns, Disconnect(r, c)
      PROVE  RunOwnsItsLog' /\ DisconnectIsFinal'
  <2>1. DisconnectIsFinal'
    BY <1>3 DEF Disconnect, DisconnectIsFinal, Connected, DatabaseOK
  <2>2. RunOwnsItsLog'
    BY <1>3 DEF Disconnect, RunOwnsItsLog, InSync, Connected, DatabaseOK, session
  <2>. QED
    BY <2>1, <2>2
<1>4. ASSUME NEW r \in ApiRunners, NEW c \in Conns, TriggerSync(r, c)
      PROVE  RunOwnsItsLog' /\ DisconnectIsFinal'
  BY <1>4 DEF TriggerSync, Begin, Idle, RunsOK, RunOwnsItsLog, DisconnectIsFinal, InSync,
     Connected, Resources, database
<1>5. ASSUME NEW w \in Workers, CronFanOut(w)
      PROVE  RunOwnsItsLog' /\ DisconnectIsFinal'
  BY <1>5 DEF CronFanOut, RunOwnsItsLog, DisconnectIsFinal, InSync, Connected, database, session
<1>6. ASSUME NEW w \in Workers, NEW c \in Conns, StartJob(w, c)
      PROVE  RunOwnsItsLog' /\ DisconnectIsFinal'
  BY <1>6 DEF StartJob, Begin, Idle, RunsOK, RunOwnsItsLog, DisconnectIsFinal, InSync,
     Connected, Resources, database, session
<1>7. ASSUME NEW r \in Runners, WritePendingLog(r)
      PROVE  RunOwnsItsLog' /\ DisconnectIsFinal'
  <2>0. \A q \in Runners : row[q] \in LogIds => logStatus[row[q]] # "unused"
    BY DEF RunOwnsItsLog
  <2>1. CASE Connected(target[r])
    <3>1. PICK l \in LogIds : InsertLog(l, target[r])
      BY <1>7, <2>1 DEF WritePendingLog
    <3>2. \A q \in Runners : row[q] # l
      BY <3>1, <2>0 DEF InsertLog, FreeLogIds
    <3>3. RunOwnsItsLog'
      <4>1. /\ row'[r] = None /\ ~InSync(r)'
            /\ \A q \in Runners \ {r} :
                 row'[q] = row[q] /\ target'[q] = target[q] /\ pc'[q] = pc[q]
        BY <1>7, EndRunRows DEF WritePendingLog
      <4>2. \A q \in Runners : row[q] \in LogIds =>
              logConn'[row[q]] = logConn[row[q]] /\ logStatus'[row[q]] = logStatus[row[q]]
        BY <3>1, <3>2 DEF InsertLog, DatabaseOK
      <4>3. UNCHANGED status
        BY <1>7 DEF WritePendingLog
      <4>. QED
        BY <4>1, <4>2, <4>3 DEF RunOwnsItsLog, InSync, Connected
    <3>4. DisconnectIsFinal'
      BY <1>7, <2>1, <3>1
      DEF WritePendingLog, InsertLog, DisconnectIsFinal, Connected, DatabaseOK
    <3>. QED
      BY <3>3, <3>4
  <2>2. CASE ~Connected(target[r])
    <3>1. RunOwnsItsLog'
      BY <1>7, <2>2, EndRunRows DEF WritePendingLog, RunOwnsItsLog, InSync, Connected
    <3>. QED
      BY <1>7, <2>2, <3>1 DEF WritePendingLog, DisconnectIsFinal, Connected
  <2>. QED
    BY <2>1, <2>2
<1>8. ASSUME NEW r \in Runners, ConfigureAuth(r)
      PROVE  RunOwnsItsLog' /\ DisconnectIsFinal'
  <2>1. CASE HasKey(r, target[r])
    BY <1>8, <2>1 DEF ConfigureAuth, RunsOK, RunOwnsItsLog, DisconnectIsFinal, InSync,
       Connected, Resources, database, session
  <2>2. CASE ~HasKey(r, target[r])
    <3>1. UNCHANGED database /\ EndRun(r)
      BY <1>8, <2>2 DEF ConfigureAuth
    <3>2. RunOwnsItsLog'
      BY <3>1, EndRunRows DEF RunOwnsItsLog, InSync, Connected, database
    <3>. QED
      BY <3>1, <3>2 DEF DisconnectIsFinal, Connected, database
  <2>. QED
    BY <2>1, <2>2
<1>9. ASSUME NEW r \in Runners, OpenLog(r)
      PROVE  RunOwnsItsLog' /\ DisconnectIsFinal'
  <2>0. \A q \in Runners : row[q] \in LogIds => logStatus[row[q]] # "unused"
    BY DEF RunOwnsItsLog
  <2>1. CASE Connected(target[r])
    <3>1. PICK l \in LogIds : InsertLog(l, target[r]) /\ row' = [row EXCEPT ![r] = l]
      BY <1>9, <2>1 DEF OpenLog
    <3>2. \A q \in Runners : row[q] # l
      BY <3>1, <2>0 DEF InsertLog, FreeLogIds
    <3>3. RunOwnsItsLog'
      <4>1. ASSUME NEW q \in Runners \ {r}
            PROVE  /\ ~InSync(q)' => row'[q] = None
                   /\ InSync(q)' =>
                        /\ row'[q] \in LogIds
                        /\ logConn'[row'[q]] = target'[q]
                        /\ status'[target'[q]] # "new"
                        /\ logStatus'[row'[q]] =
                             IF Connected(target[q])' THEN "running" ELSE "deleted"
                        /\ \A x \in Runners \ {q} : row'[x] # row'[q]
        BY <1>9, <2>1, <3>1, <3>2
        DEF OpenLog, InsertLog, RunOwnsItsLog, InSync, Connected, DatabaseOK, RunsOK
      <4>2. /\ InSync(r)'
            /\ row'[r] \in LogIds
            /\ logConn'[row'[r]] = target'[r]
            /\ status'[target'[r]] # "new"
            /\ logStatus'[row'[r]] = IF Connected(target[r])' THEN "running" ELSE "deleted"
            /\ \A x \in Runners \ {r} : row'[x] # row'[r]
        BY <1>9, <2>1, <3>1, <3>2
        DEF OpenLog, InsertLog, InSync, Connected, DatabaseOK, RunsOK, Resources
      <4>. QED
        BY <4>1, <4>2 DEF RunOwnsItsLog
    <3>4. DisconnectIsFinal'
      BY <1>9, <2>1, <3>1
      DEF OpenLog, InsertLog, DisconnectIsFinal, Connected, DatabaseOK
    <3>. QED
      BY <3>3, <3>4
  <2>2. CASE ~Connected(target[r])
    <3>1. RunOwnsItsLog'
      BY <1>9, <2>2, EndRunRows DEF OpenLog, RunOwnsItsLog, InSync, Connected
    <3>. QED
      BY <1>9, <2>2, <3>1 DEF OpenLog, DisconnectIsFinal, Connected
  <2>. QED
    BY <2>1, <2>2
<1>10. ASSUME NEW r \in Runners, Pull(r)
       PROVE  RunOwnsItsLog' /\ DisconnectIsFinal'
  <2>1. After[pc[r]] \in Resources \cup {"store"}
    BY <1>10 DEF Pull, After, Resources
  <2>. QED
    BY <1>10, <2>1 DEF Pull, RunsOK, RunOwnsItsLog, DisconnectIsFinal, InSync, Connected,
       database
<1>11. ASSUME NEW r \in Runners, PullFails(r)
       PROVE  RunOwnsItsLog' /\ DisconnectIsFinal'
  <2>1. RunOwnsItsLog'
    BY <1>11, GoOnRows DEF PullFails, InSync, database
  <2>. QED
    BY <1>11, <2>1 DEF PullFails, DisconnectIsFinal, Connected, database
<1>12. ASSUME NEW r \in Runners, StoreRows(r)
       PROVE  RunOwnsItsLog' /\ DisconnectIsFinal'
  <2>1. RunOwnsItsLog'
    BY <1>12, GoOnRows DEF StoreRows, InSync
  <2>2. CASE Refused(r)
    BY <1>12, <2>1, <2>2 DEF StoreRows, DisconnectIsFinal, Connected
  <2>3. CASE ~Refused(r)
    <3>1. target[r] \in Conns
      BY <1>12 DEF StoreRows, RunsOK, Idle
    <3>2. mirror' = [mirror EXCEPT ![target[r]] = Stored(r, target[r])]
      BY <1>12, <2>3 DEF StoreRows
    <3>3. ~Connected(target[r]) => Stored(r, target[r]) = NoMirror
      BY <2>3, <3>1, GoneStoresNothing DEF DisconnectIsFinal
    <3>4. \A c \in Conns : ~Connected(c) => mirror'[c] = NoMirror
      BY <3>1, <3>2, <3>3 DEF DisconnectIsFinal, DatabaseOK
    <3>. QED
      BY <1>12, <2>1, <3>4 DEF StoreRows, DisconnectIsFinal, Connected
  <2>. QED
    BY <2>2, <2>3
<1>13. ASSUME NEW r \in Runners, Finish(r)
       PROVE  RunOwnsItsLog' /\ DisconnectIsFinal'
  <2>1. CASE Connected(target[r])
    <3>1. InSync(r) /\ Report(r, "success") /\ EndRun(r)
          /\ UNCHANGED <<mirror, logConn>>
      BY <1>13, <2>1 DEF Finish, InSync
    <3>. QED
      BY <2>1, <3>1, ReportKeeps
  <2>2. CASE ~Connected(target[r])
    <3>1. RunOwnsItsLog'
      BY <1>13, <2>2, GoOnRows DEF Finish, InSync
    <3>. QED
      BY <1>13, <2>2, <3>1 DEF Finish, DisconnectIsFinal, Connected
  <2>. QED
    BY <2>1, <2>2
<1>14. ASSUME NEW r \in Runners, RecordFailure(r)
       PROVE  RunOwnsItsLog' /\ DisconnectIsFinal'
  <2>1. CASE Connected(target[r])
    <3>1. InSync(r) /\ Report(r, "failed") /\ EndRun(r)
          /\ UNCHANGED <<mirror, logConn>>
      BY <1>14, <2>1 DEF RecordFailure, InSync
    <3>. QED
      BY <2>1, <3>1, ReportKeeps
  <2>2. CASE ~Connected(target[r])
    <3>1. UNCHANGED <<logStatus, status, lastSync, mirror, logConn>> /\ EndRun(r)
      BY <1>14, <2>2 DEF RecordFailure
    <3>2. RunOwnsItsLog'
      BY <3>1, EndRunRows DEF RunOwnsItsLog, InSync, Connected
    <3>. QED
      BY <3>1, <3>2 DEF DisconnectIsFinal, Connected
  <2>. QED
    BY <2>1, <2>2
<1>15. ASSUME NEW p \in Processes, Crash(p)
       PROVE  RunOwnsItsLog' /\ DisconnectIsFinal'
  BY <1>15 DEF Crash, RunOwnsItsLog, DisconnectIsFinal, InSync, Connected, Resources, database
<1>16. CASE UNCHANGED vars
  BY <1>16 DEF RunOwnsItsLog, DisconnectIsFinal, InSync, Connected, vars, database, session
<1>17. ASSUME NEW c \in DemoConns, SeedDemo(c)
       PROVE  RunOwnsItsLog' /\ DisconnectIsFinal'
  <2>1. DisconnectIsFinal'
    BY <1>17 DEF SeedDemo, DisconnectIsFinal, Connected, DatabaseOK
  <2>2. \A r \in Runners : InSync(r) => target[r] # c
    BY <1>17 DEF SeedDemo, RunOwnsItsLog
  <2>. QED
    BY <1>17, <2>1, <2>2
    DEF SeedDemo, RunOwnsItsLog, InSync, Connected, DatabaseOK, RunsOK, Idle, Resources, session
<1>18. ASSUME NEW r \in Runners, CommitFails(r)
       PROVE  RunOwnsItsLog' /\ DisconnectIsFinal'
  <2>1. UNCHANGED database
    BY <1>18 DEF CommitFails
  <2>2. EndRun(r) => RunOwnsItsLog'
    BY <2>1, EndRunRows DEF RunOwnsItsLog, InSync, Connected, database
  <2>3. InSync(r) /\ GoOn(r, "fail") => RunOwnsItsLog'
    BY <2>1, GoOnRows DEF database
  <2>4. EndRun(r) \/ (InSync(r) /\ GoOn(r, "fail"))
    BY <1>18 DEF CommitFails, InSync
  <2>. QED
    BY <2>1, <2>2, <2>3, <2>4 DEF DisconnectIsFinal, Connected, database
<1>. QED
  BY <1>1, <1>2, <1>3, <1>4, <1>5, <1>6, <1>7, <1>8, <1>9, <1>10, <1>11, <1>12,
     <1>13, <1>14, <1>15, <1>16, <1>17, <1>18 DEF Next, RunStep

\* Nothing of a connection outlives it, and every run owns the row it reports in:
\* in every deployment, whoever shares a process with whom.
THEOREM DisconnectIsFinalAlways == Spec => [](DisconnectIsFinal /\ RunOwnsItsLog)
<1>1. Init => LogInv
  BY ConstantsAssumption
  DEF Init, LogInv, RunOwnsItsLog, DisconnectIsFinal, InSync, Connected, Resources
<1>2. TypeOK /\ LogInv /\ [Next]_vars => LogInv'
  BY LogStep
<1>3. LogInv => DisconnectIsFinal /\ RunOwnsItsLog
  BY DEF LogInv
<1>. QED
  BY <1>1, <1>2, <1>3, TypeCorrect, PTL DEF Spec

-----------------------------------------------------------------------------
(* The audit trail.  A finished row stays as it is until its connection     *)
(* goes: a run reports only in the running row it owns, and a new run takes *)
(* an unused one.                                                           *)

HasTrail(c) ==
    /\ lastSync[c] # None => LoggedAs(c, {lastSync[c]}) # {} \/ ShowsSeed(c)
    /\ status[c] = "error" => LoggedAs(c, {"failed"}) # {}

\* A connection whose outcome and finished rows stay keeps its trail.
LEMMA TrailKept ==
    ASSUME TypeOK, NEW c \in Conns, HasTrail(c), lastSync'[c] = lastSync[c],
           status'[c] = "error" => status[c] = "error",
           \A l \in LogIds, o \in {"success", "failed"} :
             (logConn'[l] = c /\ logStatus'[l] = o) <=> (logConn[l] = c /\ logStatus[l] = o)
    PROVE  HasTrail(c)'
<1>1. lastSync[c] # None => lastSync[c] \in {"success", "failed"}
  BY DEF TypeOK, DatabaseOK
<1>2. lastSync[c] # None => LoggedAs(c, {lastSync[c]})' = LoggedAs(c, {lastSync[c]})
  BY <1>1 DEF LoggedAs
<1>3. /\ LoggedAs(c, {"failed"})' = LoggedAs(c, {"failed"})
      /\ LoggedAs(c, {"success", "failed"})' = LoggedAs(c, {"success", "failed"})
  BY DEF LoggedAs
<1>. QED  BY <1>2, <1>3 DEF HasTrail, ShowsSeed

\* A row taken from the unused ones is nobody's trail.
LEMMA InsertKeepsTrail ==
    ASSUME TypeOK, StateHasTrail, NEW l \in LogIds, NEW c, InsertLog(l, c),
           UNCHANGED <<lastSync, status>>
    PROVE  StateHasTrail'
<1>1. ASSUME NEW k \in LogIds, NEW d, NEW o \in {"success", "failed"}
      PROVE  (logConn'[k] = d /\ logStatus'[k] = o) <=> (logConn[k] = d /\ logStatus[k] = o)
  BY <1>1 DEF InsertLog, FreeLogIds, TypeOK, DatabaseOK
<1>2. \A d \in Conns : HasTrail(d)
  BY DEF StateHasTrail, HasTrail
<1>3. \A d \in Conns : HasTrail(d)'
  BY <1>1, <1>2, TrailKept
<1>. QED  BY <1>3 DEF StateHasTrail, HasTrail

LEMMA ReportKeepsTrail ==
    ASSUME TypeOK, LogInv, StateHasTrail, NEW r \in Runners, InSync(r),
           Connected(target[r]), NEW outcome \in {"success", "failed"}, Report(r, outcome),
           UNCHANGED logConn
    PROVE  StateHasTrail'
<1>. USE DEF TypeOK, DatabaseOK
<1>1. PICK t \in Conns, l \in LogIds :
        t = target[r] /\ l = row[r] /\ logConn[l] = t /\ logStatus[l] = "running"
  BY DEF InSync, RunsOK, Idle, Resources, LogInv, RunOwnsItsLog
<1>2. /\ logStatus' = [logStatus EXCEPT ![l] = outcome]
      /\ lastSync' = [lastSync EXCEPT ![t] = outcome]
      /\ \A c \in Conns \ {t} : status'[c] = status[c]
      /\ status'[t] = "error" => outcome = "failed"
  BY <1>1 DEF Report
<1>3. HasTrail(t)'
  <2>1. logConn'[l] = t /\ logStatus'[l] = outcome /\ lastSync'[t] = outcome
    BY <1>1, <1>2
  <2>. QED  BY <1>2, <2>1 DEF HasTrail, LoggedAs
<1>4. ASSUME NEW c \in Conns \ {t} PROVE HasTrail(c)'
  <2>1. HasTrail(c)
    BY DEF StateHasTrail, HasTrail
  <2>2. \A k \in LogIds : logConn'[k] = logConn[k]
                         /\ (logConn[k] = c => logStatus'[k] = logStatus[k])
    BY <1>1, <1>2
  <2>3. lastSync'[c] = lastSync[c]
    BY <1>2
  <2>. QED  BY <1>2, <2>1, <2>2, <2>3, TrailKept
<1>. QED  BY <1>3, <1>4 DEF StateHasTrail, HasTrail

LEMMA TrailStep ==
    ASSUME TypeOK, LogInv, StateHasTrail, [Next]_vars
    PROVE  StateHasTrail'
<1>. USE DEF TypeOK, DatabaseOK
<1>0. UNCHANGED <<logConn, logStatus>> =>
        \A c \in Conns : \A outcomes : LoggedAs(c, outcomes)' = LoggedAs(c, outcomes)
  BY DEF LoggedAs
<1>1. UNCHANGED <<lastSync, status, logConn, logStatus>> => StateHasTrail'
  BY DEF StateHasTrail, LoggedAs, ShowsSeed
<1>2. ASSUME NEW r \in ApiRunners, NEW c \in Conns, Connect(r, c) PROVE StateHasTrail'
  <2>1. \A d \in Conns : status'[d] = "error" => status[d] = "error"
    BY <1>2 DEF Connect
  <2>2. ASSUME NEW d \in Conns PROVE HasTrail(d)'
    BY <1>2, <2>1, TrailKept DEF Connect, StateHasTrail, HasTrail
  <2>. QED  BY <2>2 DEF StateHasTrail, HasTrail
<1>3. ASSUME NEW r \in ApiRunners, NEW c \in Conns, Disconnect(r, c) PROVE StateHasTrail'
  <2>1. lastSync'[c] = None /\ status'[c] = "deleted"
    BY <1>3 DEF Disconnect
  <2>2. ASSUME NEW d \in Conns \ {c} PROVE HasTrail(d)'
    <3>1. lastSync'[d] = lastSync[d] /\ status'[d] = status[d] /\ HasTrail(d)
      BY <1>3 DEF Disconnect, StateHasTrail, HasTrail
    <3>2. \A l \in LogIds : logConn'[l] = logConn[l]
                           /\ (logConn[l] = d => logStatus'[l] = logStatus[l])
      BY <1>3 DEF Disconnect
    <3>. QED  BY <3>1, <3>2, TrailKept
  <2>. QED  BY <2>1, <2>2 DEF StateHasTrail, HasTrail
<1>4. ASSUME NEW r \in Runners, WritePendingLog(r) \/ OpenLog(r) PROVE StateHasTrail'
  <2>1. UNCHANGED <<lastSync, status>>
    BY <1>4 DEF WritePendingLog, OpenLog
  <2>2. \/ UNCHANGED <<logConn, logStatus>>
        \/ \E l \in LogIds : InsertLog(l, target[r])
    BY <1>4 DEF WritePendingLog, OpenLog
  <2>. QED  BY <1>1, <2>1, <2>2, InsertKeepsTrail
<1>5. ASSUME NEW r \in Runners, Finish(r) \/ RecordFailure(r) PROVE StateHasTrail'
  <2>1. /\ InSync(r) /\ UNCHANGED logConn
        /\ \/ UNCHANGED <<lastSync, status, logStatus>>
           \/ Connected(target[r]) /\ \E outcome \in {"success", "failed"} : Report(r, outcome)
    BY <1>5 DEF Finish, RecordFailure, InSync
  <2>. QED  BY <1>1, <2>1, ReportKeepsTrail
<1>6. ASSUME NEW r \in Runners,
             ConfigureAuth(r) \/ Pull(r) \/ PullFails(r) \/ StoreRows(r) \/ CommitFails(r)
      PROVE  StateHasTrail'
  BY <1>1, <1>6 DEF ConfigureAuth, Pull, PullFails, StoreRows, CommitFails, database
<1>7. ASSUME \/ UNCHANGED vars
             \/ \E a \in Accounts : Edit(a)
             \/ \E r \in ApiRunners, c \in Conns : TriggerSync(r, c)
             \/ \E w \in Workers : CronFanOut(w) \/ \E c \in Conns : StartJob(w, c)
             \/ \E p \in Processes : Crash(p)
      PROVE  StateHasTrail'
  BY <1>1, <1>7 DEF vars, Edit, TriggerSync, CronFanOut, StartJob, Crash, database
<1>8. ASSUME NEW c \in DemoConns, SeedDemo(c) PROVE StateHasTrail'
  <2>0. c \in Conns
    BY ConstantsAssumption
  <2>1. \A l \in LogIds : logConn[l] = c => logStatus[l] = "deleted"
    BY <1>8, <2>0 DEF SeedDemo, LogInv, DisconnectIsFinal, Connected
  <2>2. lastSync'[c] = "success" /\ status'[c] = "active" /\ UNCHANGED <<logConn, logStatus>>
    BY <1>8, <2>0 DEF SeedDemo
  <2>3. HasTrail(c)'
    BY <2>1, <2>2 DEF HasTrail, ShowsSeed, LoggedAs
  <2>4. ASSUME NEW d \in Conns \ {c} PROVE HasTrail(d)'
    <3>1. lastSync'[d] = lastSync[d] /\ status'[d] = status[d] /\ HasTrail(d)
      BY <1>8 DEF SeedDemo, StateHasTrail, HasTrail
    <3>. QED  BY <2>2, <3>1, TrailKept
  <2>. QED  BY <2>3, <2>4 DEF StateHasTrail, HasTrail
<1>. QED  BY <1>2, <1>3, <1>4, <1>5, <1>6, <1>7, <1>8 DEF Next, RunStep

\* The outcome a connection shows is that of one of its logged runs, whatever runs, fails
\* or crashes at the same time; only a seeded connection shows one before its first run.
THEOREM StateHasTrailAlways == Spec => []StateHasTrail
<1>1. Init => LogInv /\ StateHasTrail
  BY ConstantsAssumption
  DEF Init, LogInv, RunOwnsItsLog, DisconnectIsFinal, InSync, Connected, Resources,
      StateHasTrail
<1>2. TypeOK /\ LogInv /\ StateHasTrail /\ [Next]_vars => LogInv' /\ StateHasTrail'
  BY LogStep, TrailStep
<1>. QED  BY <1>1, <1>2, TypeCorrect, PTL DEF Spec

-----------------------------------------------------------------------------
(* The mirror as a reader sees it, when one sync runs at a time.            *)

\* Requests only enqueue, and one worker runs what is queued.
OneSyncAtATime ==
    /\ EnqueueOutcomes \subseteq {"queued"}
    /\ \A v, w \in Workers : v = w

OnlyWorkersSync == \A r \in Runners \ Workers : pc[r] \in {"idle", "pending"}

MirrorIsPast ==
    \A c \in Conns, res \in Resources :
      mirror[c][res][AccountOf[c]] <= version[AccountOf[c]]

Own(r) == AccountOf[target[r]]

\* The rows of res are in the session of run r.
InSession(r, res) ==
    \/ pc[r] = "store"
    \/ pc[r] = "charges" /\ res \in {"customers", "subscriptions"}
    \/ pc[r] = "subscriptions" /\ res = "customers"

\* What a run holds is of its own account and no older than the run, and it found in the
\* table what is still there, unless the connection is gone; once stored, it is there.
SessionFits(r) ==
    /\ pc[r] \in Resources \cup {"store", "finish"} => since[r] <= version[Own(r)]
    /\ \A res \in Resources : InSession(r, res) =>
         LET p == pulled[r][res] IN
         /\ p.acct = Own(r)
         /\ p.base <= p.ver /\ since[r] <= p.ver /\ p.ver <= version[Own(r)]
         /\ Connected(target[r]) => p.base = mirror[target[r]][res][Own(r)]
    /\ pc[r] = "finish" /\ Connected(target[r]) =>
         \A res \in Resources : since[r] <= mirror[target[r]][res][Own(r)]

MirrorInv == OnlyWorkersSync /\ MirrorIsPast /\ \A r \in Runners : SessionFits(r)

\* What the steps may rely on.
Grounds == TypeOK /\ OwnershipInv /\ LogInv /\ MirrorInv

MirrorStep == [Mirror!Next]_(Mirror!vars)

LEMMA SingleSync ==
    ASSUME OneSyncAtATime, OnlyWorkersSync, NEW q \in Runners, NEW r \in Runners,
           pc[q] \notin {"idle", "pending"}, pc[r] \notin {"idle", "pending"}
    PROVE  q = r
  BY DEF OneSyncAtATime, OnlyWorkersSync

\* A run that goes on as it was, over a table that for its connection is as it was.
LEMMA SessionKept ==
    ASSUME TypeOK, TypeOK', NEW r \in Runners, SessionFits(r),
           pc'[r] = pc[r], target'[r] = target[r], pulled'[r] = pulled[r], since'[r] = since[r],
           \A a \in Accounts : version[a] <= version'[a],
           pc[r] \in Resources \cup {"store", "finish"} /\ Connected(target[r])' =>
             Connected(target[r]) /\ mirror'[target[r]] = mirror[target[r]]
    PROVE  SessionFits(r)'
<1>. USE DEF TypeOK, RunsOK, OutsideOK, DatabaseOK, PulledRow
<1>1. CASE pc[r] \notin Resources \cup {"store", "finish"}
  BY <1>1 DEF SessionFits, InSession, Resources
<1>2. CASE pc[r] \in Resources \cup {"store", "finish"}
  <2>1. target[r] \in Conns /\ Own(r) \in Accounts /\ Own(r)' = Own(r)
    BY <1>2, ConstantsAssumption DEF Idle, Own, Resources
  <2>2. /\ version[Own(r)] \in Nat /\ version'[Own(r)] \in Nat /\ since[r] \in Nat
        /\ version[Own(r)] <= version'[Own(r)]
    BY <2>1, ConstantsAssumption
  <2>3. \A res \in Resources : pulled[r][res].base \in Nat /\ pulled[r][res].ver \in Nat
    BY ConstantsAssumption
  <2>4. \A res \in Resources : InSession(r, res)' = InSession(r, res)
    BY DEF InSession
  <2>5. Connected(target[r])' =>
          \A res \in Resources : mirror'[target[r]][res][Own(r)] = mirror[target[r]][res][Own(r)]
    BY <1>2
  <2>. QED  BY <1>2, <2>1, <2>2, <2>3, <2>4, <2>5 DEF SessionFits
<1>. QED  BY <1>1, <1>2

\* A run that has pulled nothing, or failed.
LEMMA NoSession ==
    ASSUME NEW r \in Runners, pc'[r] \notin Resources \cup {"store", "finish"}
    PROVE  SessionFits(r)'
  BY DEF SessionFits, InSession, Resources

\* A step of one runner over tables and versions that stay.
LEMMA QuietStep ==
    ASSUME Grounds, TypeOK', NEW r \in Runners, UNCHANGED <<mirror, version>>,
           \A q \in Runners \ {r} : pc'[q] = pc[q] /\ target'[q] = target[q]
                                    /\ pulled'[q] = pulled[q] /\ since'[q] = since[q],
           \A c \in Conns : Connected(c)' /\ status[c] # "new" => Connected(c),
           pc'[r] \in {"idle", "pending"} \/ (r \in Workers /\ pc[r] # "idle"),
           SessionFits(r)'
    PROVE  MirrorInv'
<1>1. ASSUME NEW q \in Runners \ {r} PROVE SessionFits(q)'
  <2>1. \A a \in Accounts : version[a] \in Nat
    BY ConstantsAssumption DEF Grounds, TypeOK, OutsideOK
  <2>2. \A a \in Accounts : version[a] <= version'[a]
    BY <2>1
  <2>3. pc[q] \in Resources \cup {"store", "finish"} => target[q] \in Conns /\ status[target[q]] # "new"
    BY DEF Grounds, LogInv, RunOwnsItsLog, InSync, TypeOK, RunsOK, Idle, Resources
  <2>. QED  BY <2>2, <2>3, SessionKept DEF Grounds, MirrorInv
<1>. QED  BY <1>1 DEF Grounds, MirrorInv, OnlyWorkersSync, MirrorIsPast

Live == {c \in Conns : Connected(c)}

\* The connections that are there, the rows and the versions stay: a stutter.
LEMMA Stutters ==
    ASSUME UNCHANGED <<mirror, version>>, \A c \in Conns : Connected(c)' = Connected(c)
    PROVE  MirrorStep
  BY DEF MirrorStep, Mirror!vars

\* A runner that is busy past the enqueue is a worker, and no other runner is.
LEMMA AloneInSync ==
    ASSUME OneSyncAtATime, MirrorInv, NEW r \in Runners, pc[r] \notin {"idle", "pending"}
    PROVE  r \in Workers /\ \A q \in Runners \ {r} : pc[q] \in {"idle", "pending"}
  BY SingleSync DEF MirrorInv, OnlyWorkersSync

LEMMA EditMirrors ==
    ASSUME Grounds, TypeOK', NEW a \in Accounts, Edit(a)
    PROVE  MirrorInv' /\ MirrorStep
<1>. USE DEF Grounds
<1>1. \A b \in Accounts : version[b] \in Nat /\ version'[b] \in Nat /\ version[b] <= version'[b]
  BY ConstantsAssumption DEF Edit, TypeOK, OutsideOK
<1>2. UNCHANGED <<mirror, status, pc, target, pulled, since>>
  BY DEF Edit, database, session
<1>3. ASSUME NEW r \in Runners PROVE SessionFits(r)'
  BY <1>1, <1>2, SessionKept DEF MirrorInv, Connected
<1>4. MirrorIsPast'
  <2>1. \A c \in Conns, res \in Resources : mirror[c][res][AccountOf[c]] \in Nat
                                            /\ AccountOf[c] \in Accounts
    BY ConstantsAssumption DEF TypeOK, DatabaseOK
  <2>. QED  BY <1>1, <1>2, <2>1 DEF MirrorInv, MirrorIsPast
<1>5. Mirror!Edit(a)
  BY <1>2 DEF Mirror!Edit, Edit, Connected
<1>. QED  BY <1>2, <1>3, <1>4, <1>5 DEF MirrorInv, OnlyWorkersSync, MirrorStep, Mirror!Next

LEMMA ConnectMirrors ==
    ASSUME Grounds, TypeOK', NEW r \in ApiRunners, NEW c \in Conns, Connect(r, c)
    PROVE  MirrorInv' /\ MirrorStep
<1>. r \in Runners
  BY DEF Runners
<1>1. /\ UNCHANGED <<mirror, version, pc, target, pulled, since>>
      /\ pc[r] = "idle" /\ status[c] # "deleted"
      /\ status' = [status EXCEPT ![c] = "active"]
  BY DEF Connect, session, Idle
<1>2. status \in [Conns -> Statuses]
  BY DEF Grounds, TypeOK, DatabaseOK
<1>3. \A d \in Conns : Connected(d)' <=> (Connected(d) \/ d = c)
  BY <1>1, <1>2 DEF Connected
<1>4. MirrorInv'
  <2>1. \A d \in Conns : Connected(d)' /\ status[d] # "new" => Connected(d)
    BY <1>1, <1>2, <1>3 DEF Connected, Statuses
  <2>. QED  BY <1>1, <2>1, NoSession, QuietStep DEF Resources
<1>5. MirrorStep
  <2>1. CASE Connected(c)
    <3>1. \A d \in Conns : Connected(d)' = Connected(d)
      BY <1>3, <2>1 DEF Connected
    <3>. QED  BY <1>1, <3>1, Stutters
  <2>2. CASE ~Connected(c)
    <3>1. Mirror!Connect(c)
      BY <1>1, <1>3, <2>2 DEF Mirror!Connect
    <3>. QED  BY <3>1 DEF MirrorStep, Mirror!Next
  <2>. QED  BY <2>1, <2>2
<1>. QED  BY <1>4, <1>5

LEMMA SeedMirrors ==
    ASSUME Grounds, TypeOK', NEW c \in DemoConns, SeedDemo(c)
    PROVE  MirrorInv' /\ MirrorStep
<1>. c \in Conns
  BY ConstantsAssumption
<1>1. /\ UNCHANGED <<mirror, version, pc, target, pulled, since>>
      /\ status[c] = "new" /\ status' = [status EXCEPT ![c] = "active"]
  BY DEF SeedDemo, session
<1>2. ~Connected(c) /\ \A d \in Conns : Connected(d)' <=> (Connected(d) \/ d = c)
  BY <1>1 DEF Connected, Grounds, TypeOK, DatabaseOK
<1>3. ASSUME NEW q \in Runners PROVE SessionFits(q)'
  <2>1. pc[q] \in Resources \cup {"store", "finish"} => target[q] \in Conns \ {c}
    BY <1>1 DEF Grounds, LogInv, RunOwnsItsLog, InSync, TypeOK, RunsOK, Idle, Resources
  <2>2. \A a \in Accounts : version[a] <= version'[a]
    BY <1>1, ConstantsAssumption DEF Grounds, TypeOK, OutsideOK
  <2>. QED  BY <1>1, <1>2, <2>1, <2>2, SessionKept DEF Grounds, MirrorInv
<1>4. MirrorInv'
  BY <1>1, <1>3 DEF Grounds, MirrorInv, OnlyWorkersSync, MirrorIsPast
<1>5. Mirror!Connect(c)
  BY <1>1, <1>2 DEF Mirror!Connect
<1>. QED  BY <1>4, <1>5 DEF MirrorStep, Mirror!Next

LEMMA DisconnectMirrors ==
    ASSUME Grounds, TypeOK', NEW r \in ApiRunners, NEW c \in Conns, Disconnect(r, c)
    PROVE  MirrorInv' /\ MirrorStep
<1>1. /\ UNCHANGED <<version, pc, target, pulled, since>>
      /\ Connected(c)
      /\ status' = [status EXCEPT ![c] = "deleted"]
      /\ mirror' = [mirror EXCEPT ![c] = NoMirror]
  BY DEF Disconnect, session
<1>2. /\ \A d \in Conns : Connected(d)' <=> (Connected(d) /\ d # c)
      /\ \A d \in Conns : d # c => mirror'[d] = mirror[d]
      /\ mirror'[c] = NoMirror
  BY <1>1 DEF Grounds, TypeOK, DatabaseOK, Connected
<1>3. \A a \in Accounts : version[a] \in Nat
  BY ConstantsAssumption DEF Grounds, TypeOK, OutsideOK
<1>4. ASSUME NEW q \in Runners PROVE SessionFits(q)'
  <2>1. pc[q] \in Resources \cup {"store", "finish"} => target[q] \in Conns
    BY DEF Grounds, TypeOK, RunsOK, Idle, Resources
  <2>2. \A a \in Accounts : version[a] <= version'[a]
    BY <1>1, <1>3
  <2>. QED  BY <1>1, <1>2, <2>1, <2>2, SessionKept DEF Grounds, MirrorInv
<1>5. MirrorIsPast'
  BY <1>1, <1>2, <1>3, ConstantsAssumption DEF Grounds, MirrorInv, MirrorIsPast, NoMirror
<1>6. Mirror!NoRows = NoMirror
  BY DEF Mirror!NoRows, NoMirror
<1>7. Mirror!Drop(c)
  BY <1>1, <1>2, <1>6 DEF Mirror!Drop
<1>. QED  BY <1>1, <1>4, <1>5, <1>7
          DEF Grounds, MirrorInv, OnlyWorkersSync, MirrorStep, Mirror!Next

\* Accepting work, and the moves of a run that touch neither table nor version.
LEMMA AcceptMirrors ==
    ASSUME OneSyncAtATime, Grounds, TypeOK',
           \/ \E r \in ApiRunners, c \in Conns : TriggerSync(r, c)
           \/ \E w \in Workers : CronFanOut(w) \/ \E c \in Conns : StartJob(w, c)
    PROVE  MirrorInv' /\ MirrorStep
<1>. USE DEF Runners, Idle, Begin, database, session
<1>1. UNCHANGED <<mirror, version, status>>
  BY DEF TriggerSync, CronFanOut, StartJob
<1>2. MirrorStep
  BY <1>1, Stutters DEF Connected
<1>3. ASSUME NEW r \in ApiRunners, NEW c \in Conns, TriggerSync(r, c) PROVE MirrorInv'
  <2>1. pc' = [pc EXCEPT ![r] = "pending"] /\ target' = [target EXCEPT ![r] = c]
        /\ UNCHANGED <<pulled, since>>
    BY <1>3 DEF TriggerSync, OneSyncAtATime
  <2>2. pc'[r] = "pending" /\ SessionFits(r)'
    BY <2>1, NoSession DEF Grounds, TypeOK, RunsOK, Resources
  <2>. QED  BY <1>1, <2>1, <2>2, QuietStep DEF Grounds, TypeOK, RunsOK, Connected
<1>4. ASSUME NEW w \in Workers, CronFanOut(w) PROVE MirrorInv'
  <2>1. pc[w] = "idle" /\ UNCHANGED <<pc, target, pulled, since>>
    BY <1>4 DEF CronFanOut
  <2>. QED  BY <1>1, <2>1, NoSession, QuietStep DEF Resources, Connected
<1>5. ASSUME NEW w \in Workers, NEW c \in Conns, StartJob(w, c) PROVE MirrorInv'
  <2>1. \A q \in Runners \ {w} : pc'[q] = pc[q] /\ target'[q] = target[q]
                                 /\ pulled'[q] = pulled[q] /\ since'[q] = since[q]
    BY <1>5 DEF StartJob, Grounds, TypeOK, RunsOK
  <2>2. pc'[w] \in {"idle", "configure"}
    BY <1>5 DEF StartJob, Grounds, TypeOK, RunsOK
  <2>3. SessionFits(w)'
    BY <2>2, NoSession DEF Resources
  <2>4. ASSUME NEW q \in Runners \ {w} PROVE SessionFits(q)'
    BY <1>1, <2>1, <2>4, SessionKept, ConstantsAssumption
    DEF Grounds, MirrorInv, Connected, TypeOK, OutsideOK
  <2>. QED  BY <1>1, <2>1, <2>2, <2>3, <2>4
            DEF Grounds, MirrorInv, OnlyWorkersSync, MirrorIsPast
<1>. QED  BY <1>2, <1>3, <1>4, <1>5

LEMMA MoveMirrors ==
    ASSUME OneSyncAtATime, Grounds, TypeOK', NEW r \in Runners,
           WritePendingLog(r) \/ ConfigureAuth(r) \/ PullFails(r) \/ CommitFails(r)
    PROVE  MirrorInv' /\ MirrorStep
<1>. USE DEF Grounds, TypeOK, RunsOK, EndRun, GoOn, session, database
<1>1. UNCHANGED <<mirror, version, status>>
  BY DEF WritePendingLog, ConfigureAuth, PullFails, CommitFails
<1>2. /\ pc'[r] \in {"idle", "open", "fail"}
      /\ pc'[r] # "idle" => pc[r] \notin {"idle", "pending"}
      /\ \A q \in Runners \ {r} : pc'[q] = pc[q] /\ target'[q] = target[q]
                                  /\ pulled'[q] = pulled[q] /\ since'[q] = since[q]
  BY DEF WritePendingLog, ConfigureAuth, PullFails, CommitFails, Resources
<1>3. SessionFits(r)'
  BY <1>2, NoSession DEF Resources
<1>4. pc'[r] \in {"idle", "pending"} \/ (r \in Workers /\ pc[r] # "idle")
  BY <1>2, AloneInSync
<1>5. \A c \in Conns : Connected(c)' = Connected(c)
  BY <1>1 DEF Connected
<1>6. MirrorInv'
  BY <1>1, <1>2, <1>3, <1>4, <1>5, QuietStep
<1>. QED  BY <1>1, <1>5, <1>6, Stutters

LEMMA OpenMirrors ==
    ASSUME OneSyncAtATime, Grounds, TypeOK', NEW r \in Runners, OpenLog(r)
    PROVE  MirrorInv' /\ MirrorStep
<1>. USE DEF Grounds, TypeOK, RunsOK, EndRun
<1>1. UNCHANGED <<mirror, version, status>> /\ pc[r] = "open"
  BY DEF OpenLog
<1>2. target[r] \in Conns /\ Own(r) \in Accounts
  BY <1>1, ConstantsAssumption DEF Idle, Own
<1>3. \A c \in Conns : Connected(c)' = Connected(c)
  BY <1>1 DEF Connected
<1>4. \A q \in Runners \ {r} : pc'[q] = pc[q] /\ target'[q] = target[q]
                               /\ pulled'[q] = pulled[q] /\ since'[q] = since[q]
  BY DEF OpenLog
<1>5. SessionFits(r)'
  <2>1. CASE Connected(target[r])
    <3>1. pc'[r] = "customers" /\ target'[r] = target[r] /\ since'[r] = version[Own(r)]
      BY <2>1, <1>1 DEF OpenLog, Own
    <3>2. version'[Own(r)'] = version[Own(r)] /\ version[Own(r)] \in Nat
      BY <1>1, <1>2, <3>1, ConstantsAssumption DEF Own, OutsideOK
    <3>. QED  BY <3>1, <3>2 DEF SessionFits, InSession, Resources
  <2>2. CASE ~Connected(target[r])
    <3>1. pc'[r] = "idle"
      BY <2>2 DEF OpenLog
    <3>. QED  BY <3>1, NoSession DEF Resources
  <2>. QED  BY <2>1, <2>2
<1>6. r \in Workers
  BY <1>1, AloneInSync
<1>7. MirrorInv'
  BY <1>1, <1>3, <1>4, <1>5, <1>6, QuietStep
<1>. QED  BY <1>1, <1>3, <1>7, Stutters

LEMMA PullMirrors ==
    ASSUME OneSyncAtATime, Grounds, TypeOK', NEW r \in Runners, Pull(r)
    PROVE  MirrorInv' /\ MirrorStep
<1>. USE DEF Grounds, TypeOK, RunsOK
<1>. DEFINE res == pc[r]
<1>1. UNCHANGED <<mirror, version, status, target, since>> /\ res \in Resources
  BY DEF Pull, database
<1>2. target[r] \in Conns /\ Own(r) \in Accounts
  BY <1>1, ConstantsAssumption DEF Idle, Own, Resources
<1>3. Answers(apiKey[ProcessOf[r]], HeaderFor(target[r])) = Own(r)
  <2>1. apiKey[ProcessOf[r]] = KeyFor(target[r])
    BY <1>1 DEF OwnershipInv, KeyIsForTarget
  <2>. QED  BY <1>2, <2>1, RightKeyRightAccount DEF Own, Pull
<1>4. \A c \in Conns : Connected(c)' = Connected(c)
  BY <1>1 DEF Connected
<1>5. \A q \in Runners \ {r} : pc'[q] = pc[q] /\ target'[q] = target[q]
                               /\ pulled'[q] = pulled[q] /\ since'[q] = since[q]
  BY <1>1 DEF Pull
<1>6. r \in Workers /\ pc[r] # "idle"
  BY <1>1, AloneInSync DEF Resources
<1>7. pc'[r] = After[res] /\ pc'[r] \in {"subscriptions", "charges", "store"}
  BY <1>1 DEF Pull, After, Resources
<1>8. /\ pulled'[r][res] = [acct |-> Own(r), base |-> mirror[target[r]][res][Own(r)],
                            ver |-> version[Own(r)]]
      /\ \A other \in Resources \ {res} : pulled'[r][other] = pulled[r][other]
  BY <1>1, <1>3 DEF Pull
<1>9. SessionFits(r)'
  <2>1. since[r] <= version[Own(r)] /\ mirror[target[r]][res][Own(r)] <= version[Own(r)]
    BY <1>1, <1>2 DEF MirrorInv, MirrorIsPast, SessionFits, Own
  <2>2. \A other \in Resources : InSession(r, other)' => other = res \/ InSession(r, other)
    BY <1>1, <1>7 DEF InSession, After, Resources
  <2>3. Own(r)' = Own(r) /\ version'[Own(r)] = version[Own(r)] /\ version[Own(r)] \in Nat
    BY <1>1, <1>2, ConstantsAssumption DEF Own, OutsideOK
  <2>4. ASSUME NEW other \in Resources, InSession(r, other)'
        PROVE  LET p == pulled'[r][other] IN
               /\ p.acct = Own(r)
               /\ p.base <= p.ver /\ since[r] <= p.ver /\ p.ver <= version[Own(r)]
               /\ Connected(target[r]) => p.base = mirror[target[r]][other][Own(r)]
    <3>1. CASE other = res
      BY <3>1, <1>8, <2>1, <2>3
    <3>2. CASE other # res
      BY <3>2, <1>8, <2>2, <2>4 DEF MirrorInv, SessionFits
    <3>. QED  BY <3>1, <3>2
  <2>. QED  BY <1>1, <1>2, <1>4, <1>7, <2>1, <2>3, <2>4 DEF SessionFits
<1>10. MirrorInv'
  BY <1>1, <1>4, <1>5, <1>6, <1>9, QuietStep
<1>. QED  BY <1>1, <1>4, <1>10, Stutters

\* What a lone run is about to store fits over what is stored: nothing is refused, and
\* the rows of its account become the ones it pulled.
LEMMA StoresPulled ==
    ASSUME Grounds, NEW r \in Runners, pc[r] = "store", Connected(target[r])
    PROVE  /\ ~Refused(r)
           /\ \A res \in Resources :
                Stored(r, target[r])[res] =
                  [mirror[target[r]][res] EXCEPT ![Own(r)] = pulled[r][res].ver]
<1>. USE DEF Grounds, TypeOK
<1>1. target[r] \in Conns /\ Own(r) \in Accounts
  BY ConstantsAssumption DEF RunsOK, Idle, Own
<1>2. ASSUME NEW res \in Resources
      PROVE  /\ pulled[r][res].acct = Own(r)
             /\ pulled[r][res].base = mirror[target[r]][res][Own(r)]
             /\ pulled[r][res].base \in Nat
  <2>1. pulled[r][res] \in PulledRow
    BY DEF RunsOK
  <2>2. pulled[r][res].base \in Nat
    BY <2>1, ConstantsAssumption DEF PulledRow
  <2>. QED  BY <1>1, <2>2 DEF MirrorInv, SessionFits, InSession
<1>3. ~Refused(r)
  BY <1>2 DEF Refused
<1>4. ASSUME NEW res \in Resources
      PROVE  Stored(r, target[r])[res] =
               [mirror[target[r]][res] EXCEPT ![Own(r)] = pulled[r][res].ver]
  <2>1. mirror[target[r]][res] \in [Accounts -> 0 .. MaxVersion]
    BY <1>1 DEF DatabaseOK
  <2>2. Written(pulled[r][res], mirror[target[r]][res][Own(r)]) = pulled[r][res].ver
    BY <1>2 DEF Written
  <2>. QED  BY <1>1, <1>2, <2>1, <2>2 DEF Stored
<1>. QED  BY <1>3, <1>4

LEMMA StoreMirrors ==
    ASSUME OneSyncAtATime, Grounds, TypeOK', NEW r \in Runners, StoreRows(r)
    PROVE  MirrorInv' /\ MirrorStep
<1>. USE DEF Grounds, TypeOK
<1>1. UNCHANGED <<version, status, target, since>> /\ pc[r] = "store"
  BY DEF StoreRows, GoOn
<1>2. target[r] \in Conns /\ Own(r) \in Accounts
  BY <1>1, ConstantsAssumption DEF RunsOK, Idle, Own
<1>3. \A c \in Conns : Connected(c)' = Connected(c)
  BY <1>1 DEF Connected
<1>4. \A q \in Runners \ {r} : pc'[q] = pc[q] /\ target'[q] = target[q]
                               /\ pulled'[q] = pulled[q] /\ since'[q] = since[q]
  BY <1>1 DEF StoreRows, GoOn, RunsOK
<1>5. r \in Workers /\ \A q \in Runners \ {r} : pc[q] \in {"idle", "pending"}
  BY <1>1, AloneInSync
<1>6. CASE ~Connected(target[r])
  <2>1. UNCHANGED mirror
    <3>1. CASE Refused(r)
      BY <3>1 DEF StoreRows
    <3>2. CASE ~Refused(r)
      <4>1. mirror[target[r]] = NoMirror
        BY <1>2, <1>6 DEF LogInv, DisconnectIsFinal
      <4>2. mirror' = [mirror EXCEPT ![target[r]] = NoMirror]
        BY <1>2, <1>6, <3>2, <4>1, GoneStoresNothing DEF StoreRows
      <4>. QED  BY <4>1, <4>2 DEF DatabaseOK
    <3>. QED  BY <3>1, <3>2
  <2>2. pc'[r] \in {"fail", "finish"}
    BY DEF StoreRows, GoOn, RunsOK
  <2>3. SessionFits(r)'
    <3>1. since[r] <= version[Own(r)]
      BY <1>1 DEF MirrorInv, SessionFits
    <3>. QED  BY <1>1, <1>2, <1>3, <1>6, <2>2, <3>1 DEF SessionFits, InSession, Resources, Own
  <2>4. MirrorInv'
    BY <1>1, <1>3, <1>4, <1>5, <2>1, <2>3, QuietStep
  <2>. QED  BY <1>1, <1>3, <2>1, <2>4, Stutters
<1>7. CASE Connected(target[r])
  <2>. DEFINE c == target[r]
              snapshot == [res \in Resources |-> pulled[r][res].ver]
  <2>1. /\ pc' = [pc EXCEPT ![r] = "finish"]
        /\ mirror' = [mirror EXCEPT ![c] = Stored(r, c)]
    BY <1>1, <1>7, StoresPulled DEF StoreRows, GoOn
  <2>2. \A res \in Resources :
          Stored(r, c)[res] = [mirror[c][res] EXCEPT ![AccountOf[c]] = pulled[r][res].ver]
    BY <1>1, <1>7, StoresPulled DEF Own
  <2>3. Stored(r, c) = [res \in Resources |->
                          [mirror[c][res] EXCEPT ![AccountOf[c]] = snapshot[res]]]
    BY <2>2 DEF Stored
  <2>4. ASSUME NEW res \in Resources
        PROVE  /\ snapshot[res] \in Nat /\ version[AccountOf[c]] \in Nat
               /\ mirror[c][res][AccountOf[c]] <= snapshot[res]
               /\ since[r] <= snapshot[res] /\ snapshot[res] <= version[AccountOf[c]]
               /\ mirror'[c][res][AccountOf[c]] = snapshot[res]
    <3>1. pulled[r][res] \in PulledRow
      BY DEF RunsOK
    <3>2. snapshot[res] \in Nat /\ version[AccountOf[c]] \in Nat
      BY <1>2, <3>1, ConstantsAssumption DEF PulledRow, OutsideOK, Own
    <3>3. mirror'[c][res][AccountOf[c]] = snapshot[res]
      BY <1>2, <2>1, <2>3 DEF DatabaseOK, Own
    <3>. QED  BY <1>1, <1>2, <1>7, <3>2, <3>3 DEF MirrorInv, SessionFits, InSession, Own
  <2>5. Mirror!Refresh(c)
    <3>1. snapshot \in [Resources -> 0 .. version[AccountOf[c]]]
      BY <2>4
    <3>2. \A res \in Resources : snapshot[res] >= mirror[c][res][AccountOf[c]]
      <4>1. \A res \in Resources : mirror[c][res][AccountOf[c]] \in Nat
        BY <1>2, ConstantsAssumption DEF DatabaseOK, Own
      <4>. QED  BY <2>4, <4>1
    <3>3. mirror' = [mirror EXCEPT ![c] =
            [res \in Resources |-> [@[res] EXCEPT ![AccountOf[c]] = snapshot[res]]]]
      BY <2>1, <2>3
    <3>4. c \in Live /\ UNCHANGED <<version, Live>>
      BY <1>1, <1>2, <1>3, <1>7 DEF Live
    <3>. HIDE DEF snapshot
    <3>. QED  BY <3>1, <3>2, <3>3, <3>4 DEF Mirror!Refresh, Live
  <2>6. SessionFits(r)'
    <3>1. pc'[r] = "finish" /\ Own(r)' = Own(r)
      BY <1>1, <2>1 DEF RunsOK, Own
    <3>2. since[r] <= version[Own(r)]
      BY <1>1 DEF MirrorInv, SessionFits
    <3>. QED  BY <1>1, <2>4, <3>1, <3>2 DEF SessionFits, InSession, Own, Resources
  <2>7. ASSUME NEW q \in Runners \ {r} PROVE SessionFits(q)'
    BY <1>4, <1>5, NoSession DEF Resources
  <2>8. MirrorIsPast'
    <3>1. \A d \in Conns : d # c => mirror'[d] = mirror[d]
      BY <2>1 DEF DatabaseOK
    <3>. QED  BY <1>1, <2>4, <3>1 DEF MirrorInv, MirrorIsPast
  <2>9. OnlyWorkersSync'
    BY <1>4, <1>5 DEF MirrorInv, OnlyWorkersSync
  <2>. QED  BY <1>2, <2>5, <2>6, <2>7, <2>8, <2>9 DEF MirrorInv, MirrorStep, Mirror!Next
<1>. QED  BY <1>6, <1>7

LEMMA ReportMirrors ==
    ASSUME OneSyncAtATime, Grounds, TypeOK', NEW r \in Runners, Finish(r) \/ RecordFailure(r)
    PROVE  MirrorInv' /\ MirrorStep
<1>. USE DEF Grounds, TypeOK, RunsOK
<1>1. UNCHANGED <<version, mirror>> /\ pc[r] \in {"finish", "fail"}
  BY DEF Finish, RecordFailure
<1>2. target[r] \in Conns
  BY <1>1 DEF Idle
<1>3. \A c \in Conns : Connected(c)' = Connected(c)
  BY <1>2 DEF Finish, RecordFailure, Report, Connected, DatabaseOK
<1>4. \A q \in Runners \ {r} : pc'[q] = pc[q] /\ target'[q] = target[q]
                               /\ pulled'[q] = pulled[q] /\ since'[q] = since[q]
  BY DEF Finish, RecordFailure, EndRun, GoOn, RunsOK
<1>5. pc'[r] \in {"idle", "fail"}
  BY DEF Finish, RecordFailure, EndRun, GoOn
<1>6. r \in Workers
  BY <1>1, AloneInSync
<1>7. MirrorInv'
  BY <1>1, <1>3, <1>4, <1>5, <1>6, NoSession, QuietStep DEF Resources
<1>. QED  BY <1>1, <1>3, <1>7, Stutters

LEMMA CrashMirrors ==
    ASSUME Grounds, TypeOK', NEW p \in Processes, Crash(p)
    PROVE  MirrorInv' /\ MirrorStep
<1>1. UNCHANGED <<version, mirror, status>>
  BY DEF Crash, database
<1>2. \A c \in Conns : Connected(c)' = Connected(c)
  BY <1>1 DEF Connected
<1>3. ASSUME NEW q \in Runners
      PROVE  \/ pc'[q] = "idle"
             \/ pc'[q] = pc[q] /\ target'[q] = target[q]
                /\ pulled'[q] = pulled[q] /\ since'[q] = since[q]
  BY DEF Crash
<1>4. ASSUME NEW q \in Runners PROVE SessionFits(q)'
  <2>1. CASE pc'[q] = "idle"
    BY <2>1, NoSession DEF Resources
  <2>2. CASE pc'[q] # "idle"
    <3>1. \A a \in Accounts : version[a] <= version'[a]
      BY <1>1, ConstantsAssumption DEF Grounds, TypeOK, OutsideOK
    <3>2. pc[q] \in Resources \cup {"store", "finish"} => target[q] \in Conns
      BY DEF Grounds, TypeOK, RunsOK, Idle, Resources
    <3>. QED  BY <1>1, <1>2, <1>3, <2>2, <3>1, <3>2, SessionKept DEF Grounds, MirrorInv
  <2>. QED  BY <2>1, <2>2
<1>5. MirrorInv'
  BY <1>1, <1>3, <1>4 DEF Grounds, MirrorInv, OnlyWorkersSync, MirrorIsPast
<1>. QED  BY <1>1, <1>2, <1>5, Stutters

LEMMA MirrorsStep ==
    ASSUME OneSyncAtATime, Grounds, TypeOK', [Next]_vars
    PROVE  MirrorInv' /\ MirrorStep
<1>1. ASSUME NEW r \in Runners, RunStep(r) \/ CommitFails(r) PROVE MirrorInv' /\ MirrorStep
  BY <1>1, MoveMirrors, OpenMirrors, PullMirrors, StoreMirrors, ReportMirrors DEF RunStep
<1>2. CASE UNCHANGED vars
  <2>1. UNCHANGED <<mirror, version, status, pc, target, pulled, since>>
    BY <1>2 DEF vars, database, session
  <2>2. \A c \in Conns : Connected(c)' = Connected(c)
    BY <2>1 DEF Connected
  <2>3. MirrorInv'
    BY <2>1, <2>2 DEF Grounds, MirrorInv, OnlyWorkersSync, MirrorIsPast, SessionFits,
       InSession, Own, Connected
  <2>. QED  BY <2>1, <2>2, <2>3, Stutters
<1>. QED  BY <1>1, <1>2, EditMirrors, ConnectMirrors, SeedMirrors, DisconnectMirrors, AcceptMirrors,
             CrashMirrors DEF Next

\* Only the run that reports success on its row makes the row a success.
LEMMA FreshStep ==
    ASSUME OneSyncAtATime, Grounds, [Next]_vars, NEW r \in Runners, Succeeds(r)
    PROVE  \A res \in Resources :
             mirror[target[r]][res][AccountOf[target[r]]] >= since[r]
<1>. USE DEF Grounds, TypeOK
<1>1. PICK q \in Runners : Finish(q) /\ Connected(target[q])
  <2>. USE DEF Succeeds, DatabaseOK
  <2>1. logStatus' # logStatus
    OBVIOUS
  <2>2. ASSUME NEW c \in Conns, NEW x \in ApiRunners, Disconnect(x, c) PROVE FALSE
    BY <2>2 DEF Disconnect
  <2>3. ASSUME NEW x \in Runners, WritePendingLog(x) \/ OpenLog(x) PROVE FALSE
    <3>1. PICK l \in LogIds : logStatus' = [logStatus EXCEPT ![l] = "running"]
      BY <2>1, <2>3 DEF WritePendingLog, OpenLog, InsertLog
    <3>. QED  BY <3>1
  <2>4. ASSUME NEW x \in Runners, RecordFailure(x) PROVE FALSE
    <3>1. logStatus' = [logStatus EXCEPT ![row[x]] = "failed"]
      BY <2>1, <2>4 DEF RecordFailure, Report
    <3>. QED  BY <3>1
  <2>5. ASSUME NEW x \in Runners, Finish(x) PROVE Connected(target[x])
    BY <2>1, <2>5 DEF Finish
  <2>6. ~UNCHANGED vars /\ (\A a \in Accounts : ~Edit(a)) /\ (\A p \in Processes : ~Crash(p))
    BY <2>1 DEF vars, database, Edit, Crash
  <2>7. \A x \in ApiRunners, c \in Conns : ~Connect(x, c) /\ ~TriggerSync(x, c)
    BY <2>1 DEF Connect, TriggerSync, database
  <2>8. \A w \in Workers, c \in Conns : ~CronFanOut(w) /\ ~StartJob(w, c)
    BY <2>1 DEF CronFanOut, StartJob, database
  <2>9. \A x \in Runners : /\ ~ConfigureAuth(x) /\ ~Pull(x) /\ ~PullFails(x) /\ ~StoreRows(x)
                           /\ ~CommitFails(x)
    BY <2>1 DEF ConfigureAuth, Pull, PullFails, StoreRows, CommitFails, database
  <2>10. (\A w \in Workers : ~CronFanOut(w)) /\ (\A c \in DemoConns : ~SeedDemo(c))
    BY <2>1 DEF CronFanOut, SeedDemo, database
  <2>. HIDE DEF Succeeds, DatabaseOK, Grounds, TypeOK
  <2>. QED  BY <2>2, <2>3, <2>4, <2>5, <2>6, <2>7, <2>8, <2>9, <2>10 DEF Next, RunStep
<1>2. q = r
  <2>1. logStatus' = [logStatus EXCEPT ![row[q]] = "success"]
    BY <1>1 DEF Finish, Report
  <2>2. row[r] = row[q]
    BY <2>1 DEF Succeeds, DatabaseOK
  <2>. QED  BY <2>2, ConstantsAssumption DEF Succeeds, LogInv, RunOwnsItsLog, InSync
<1>3. pc[r] = "finish" /\ target[r] \in Conns
  BY <1>1, <1>2 DEF Finish, RunsOK, Idle
<1>4. \A res \in Resources : since[r] <= mirror[target[r]][res][Own(r)]
  BY <1>1, <1>2, <1>3 DEF MirrorInv, SessionFits
<1>5. since[r] \in Nat /\ \A res \in Resources : mirror[target[r]][res][Own(r)] \in Nat
  BY <1>3, ConstantsAssumption DEF RunsOK, DatabaseOK, Own
<1>. QED  BY <1>4, <1>5 DEF Own

\* A lone run whose answers are all in goes on to its report, or the database fails.
LEMMA RerunStep ==
    ASSUME OneSyncAtATime, Grounds, [Next]_vars, NEW r \in Runners,
           pc[r] = "store", Connected(target[r]), ~(faults' > faults)
    PROVE  pc'[r] # "fail"
<1>1. ~Refused(r)
  BY StoresPulled
<1>2. pc \in [Runners -> Locations]
  BY DEF Grounds, TypeOK, RunsOK
<1>3. ASSUME NEW x \in ApiRunners, NEW c \in Conns,
             Connect(x, c) \/ Disconnect(x, c) \/ TriggerSync(x, c)
      PROVE  pc'[r] # "fail"
  <2>1. UNCHANGED pc \/ \E at \in {"pending", "configure"} : pc' = [pc EXCEPT ![x] = at]
    BY <1>3 DEF Connect, Disconnect, TriggerSync, Begin, OneSyncAtATime
  <2>. QED  BY <2>1, <1>2
<1>4. ASSUME NEW w \in Workers, CronFanOut(w) \/ \E c \in Conns : StartJob(w, c)
      PROVE  pc'[r] # "fail"
  <2>1. UNCHANGED pc \/ pc' = [pc EXCEPT ![w] = "configure"]
    BY <1>4 DEF CronFanOut, StartJob, Begin
  <2>. QED  BY <2>1, <1>2
<1>5. ASSUME NEW q \in Runners, RunStep(q) PROVE pc'[r] # "fail"
  <2>1. CASE q = r
    BY <2>1, <1>1, <1>2, <1>5 DEF RunStep, WritePendingLog, ConfigureAuth, OpenLog, Pull,
       PullFails, StoreRows, GoOn, Finish, RecordFailure, Resources
  <2>2. CASE q # r
    <3>1. \E at : pc' = [pc EXCEPT ![q] = at]
      BY <1>5 DEF RunStep, WritePendingLog, ConfigureAuth, OpenLog, Pull, PullFails,
         StoreRows, GoOn, Finish, RecordFailure, EndRun
    <3>. QED  BY <3>1, <2>2, <1>2
  <2>. QED  BY <2>1, <2>2
<1>6. ASSUME NEW p \in Processes, Crash(p) PROVE pc'[r] # "fail"
  BY <1>6 DEF Crash
<1>7. \/ UNCHANGED vars
      \/ \E a \in Accounts : Edit(a)
      \/ \E c \in DemoConns : SeedDemo(c)
      => pc'[r] # "fail"
  BY DEF vars, Edit, SeedDemo
<1>8. ASSUME NEW q \in Runners, CommitFails(q) PROVE FALSE
  <2>1. faults \in Nat /\ faults' = faults + 1
    BY <1>8, ConstantsAssumption DEF CommitFails, Grounds, TypeOK, OutsideOK
  <2>. QED  BY <2>1
<1>. QED  BY <1>3, <1>4, <1>5, <1>6, <1>7, <1>8 DEF Next

LEMMA GroundsInit ==
    ASSUME Init
    PROVE  Grounds /\ Mirror!Init
<1>1. TypeOK
  BY TypeInit
<1>2. OwnershipInv
  BY ConstantsAssumption
  DEF Init, OwnershipInv, KeyIsForTarget, PulledIsOwn, OwnAccountRows,
      OnlySyncersSync, NoMirror, Resources
<1>3. LogInv
  BY ConstantsAssumption
  DEF Init, LogInv, RunOwnsItsLog, DisconnectIsFinal, InSync, Connected, Resources
<1>4. MirrorInv
  BY ConstantsAssumption DEF Init, MirrorInv, OnlyWorkersSync, MirrorIsPast, SessionFits,
     InSession, NoMirror, Resources
<1>5. Mirror!Init
  <2>1. Mirror!NoRows = NoMirror
    BY DEF Mirror!NoRows, NoMirror
  <2>. QED  BY <2>1 DEF Mirror!Init, Init, Connected
<1>. QED  BY <1>1, <1>2, <1>3, <1>4, <1>5 DEF Grounds

\* All that is known of a lone run holds all the time.
LEMMA GroundsAlways ==
    ASSUME SyncsApart, OneSyncAtATime
    PROVE  Spec => []Grounds
<1>1. TypeOK' /\ Grounds /\ [Next]_vars => Grounds'
  BY OwnershipStep, LogStep, MirrorsStep DEF Grounds
<1>2. Init => Grounds
  BY GroundsInit
<1>. QED  BY <1>1, <1>2, TypeCorrect, PTL DEF Spec

\* One sync at a time, in a process of its own: the tables are at every moment what
\* the abstract mirror promises a reader, and change only as it allows.
THEOREM ImplementsMirrorAlways ==
    ASSUME SyncsApart, OneSyncAtATime
    PROVE  Spec => ImplementsMirror
<1>1. TypeOK' /\ Grounds /\ [Next]_vars => MirrorStep
  BY MirrorsStep
<1>2. Init => Mirror!Init
  BY GroundsInit
<1>. QED  BY <1>1, <1>2, GroundsAlways, TypeCorrect, PTL
          DEF Spec, ImplementsMirror, Mirror!Spec, MirrorStep

\* What is reported as a success is at least as new, in every table, as the account was
\* when the run began.
THEOREM SuccessIsFreshAlways ==
    ASSUME SyncsApart, OneSyncAtATime
    PROVE  Spec => SuccessIsFresh
<1>. DEFINE Fresh == \A r \in Runners : Succeeds(r) =>
              \A res \in Resources :
                mirror[target[r]][res][AccountOf[target[r]]] >= since[r]
<1>1. Grounds /\ [Next]_vars => [Fresh]_vars
  BY FreshStep
<1>. QED  BY <1>1, GroundsAlways, PTL DEF Spec, SuccessIsFresh

\* A run that has every answer, for a connection that is still there, fails only with the
\* database.
THEOREM RerunIsSafeAlways ==
    ASSUME SyncsApart, OneSyncAtATime
    PROVE  Spec => RerunIsSafe
<1>. DEFINE Safe == \A r \in Runners :
              pc[r] = "store" /\ Connected(target[r]) => pc'[r] # "fail" \/ faults' > faults
<1>1. Grounds /\ [Next]_vars => [Safe]_vars
  BY RerunStep
<1>. QED  BY <1>1, GroundsAlways, PTL DEF Spec, RerunIsSafe
=============================================================================
