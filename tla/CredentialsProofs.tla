------------------------- MODULE CredentialsProofs -------------------------
(***************************************************************************)
(* Theorems about the credentials of Stripe connections: how they are      *)
(* obtained (StripeConnect) and how they are kept (TokenCrypto).           *)
(*                                                                         *)
(* StripeConnect: for all organizations, accounts, keys, states and        *)
(* threads, any number of threads in a process, and any number of requests *)
(* and of syncs beside them.  They need nothing but the assumptions on the *)
(* constants.                                                              *)
(*                                                                         *)
(* TokenCrypto: for any numbers of rows, processes, keys, restarts and     *)
(* attempts of the migration.                                              *)
(***************************************************************************)
EXTENDS StripeConnect, TokenCrypto, TLAPS

-----------------------------------------------------------------------------
(* Shapes.  TypeOK alone does not last: what a request writes must be      *)
(* there by the time it writes.                                            *)

\* A state that was issued belongs to an organization.
StatesHaveOrgs == \A s \in States : stateIs[s] # "unused" => stateOrg[s] \in Orgs

\* What a request needs at the step it is at, it has.
Complete(r) ==
    /\ r.at \in {"state", "consume", "exchange"} =>
         r.method = "oauth" /\ r.state \in States /\ r.code \in States \X Accounts
    /\ r.at \in {"consume", "exchange"} => r.org \in Orgs
    /\ r.at = "identify" =>
         r.method = "restricted_key" /\ r.org \in Orgs /\ r.access \in Keys
    /\ r.at \in {"find", "write"} =>
         /\ r.method \in Methods
         /\ r.org \in Orgs
         /\ r.account \in AccountIds
         /\ r.access \in Credentials
    /\ r.at \in {"state", "consume", "exchange", "identify", "find"} => r.found = None
    /\ r.at = "write" /\ r.found # None => r.seen \in RowType
    /\ r.at \in {"deauthorize", "delete"} => r.found \in ConnIds

RequestsComplete == \A t \in Threads : Complete(req[t])

\* What it relies on outside itself is still there: the state it has found was issued
\* for an organization, and a key was put into stripe.api_key.
Grounded(t, r) ==
    /\ r.at = "consume" => stateOrg[r.state] \in Orgs
    /\ r.at = "identify" => KeyNow(t) # None

\* The same of a request that the step at hand leaves behind.
GroundedNext(t, r) ==
    /\ r.at = "consume" => stateOrg'[r.state] \in Orgs
    /\ r.at = "identify" => apiKey'[ProcessOf[t]] # None

RequestsGrounded == \A t \in Threads : Grounded(t, req[t])

ShapeInv == TypeOK /\ StatesHaveOrgs /\ RequestsComplete /\ RequestsGrounded

\* Organizations of states and keys are replaced, but not taken away.
Kept ==
    /\ \A s \in States : stateOrg[s] \in Orgs => stateOrg'[s] \in Orgs
    /\ \A p \in Processes : apiKey[p] # None => apiKey'[p] # None


LEMMA NoRequestType == NoRequest \in RequestType
  BY DEF NoRequest, RequestType

LEMMA ShapeInit == Init => ShapeInv
<1>. SUFFICES ASSUME Init PROVE ShapeInv
  OBVIOUS
<1>1. TypeOK
  BY NoRequestType, ConnectAssumption DEF Init, TypeOK, NoRequest
<1>2. StatesHaveOrgs /\ RequestsComplete /\ RequestsGrounded
  BY DEF Init, StatesHaveOrgs, RequestsComplete, Complete, RequestsGrounded, Grounded,
         NoRequest
<1>. QED
  BY <1>1, <1>2 DEF ShapeInv

\* A row that is there has the columns of one.
LEMMA PresentRows ==
    ASSUME TypeOK, NEW c \in ConnIds, Present(c)
    PROVE  conns[c] \in RowType
  BY DEF TypeOK, Present, Unused, Deleted

LEMMA RowKeys ==
    ASSUME TypeOK, NEW c \in ConnIds, Present(c)
    PROVE  conns[c].access \in Credentials
  BY PresentRows DEF RowType

LEMMA KeptStep ==
    ASSUME ShapeInv, [Next]_vars
    PROVE  Kept
<1>1. \/ UNCHANGED stateOrg
      \/ \E s \in States, o \in Orgs : stateOrg' = [stateOrg EXCEPT ![s] = o]
  BY DEF Next, RequestStep, Expire, InitFlow, Approve, ReceiveCallback, ReceiveKey,
         ReceiveDisconnect, FindState, ConsumeState, Exchange, Identify, FindConnection,
         WriteConnection, Deauthorize, DeleteConnection, SyncSetsKey, Fail, vars, flow
<1>2. \/ UNCHANGED apiKey
      \/ \E p \in Processes, k \in Credentials : SetKey(p, k)
  BY ConnectAssumption, RowKeys
  DEF Next, RequestStep, Expire, InitFlow, Approve, ReceiveCallback, ReceiveKey,
      ReceiveDisconnect, FindState, ConsumeState, Exchange, Identify, FindConnection,
      WriteConnection, Deauthorize, DeleteConnection, SyncSetsKey, Fail, vars, keyVars,
      Credentials, Processes, ShapeInv
<1>3. \A s \in States : stateOrg[s] \in Orgs => stateOrg'[s] \in Orgs
  BY <1>1 DEF ShapeInv, TypeOK
<1>4. \A p \in Processes : apiKey[p] # None => apiKey'[p] # None
  BY <1>2, ConnectAssumption DEF ShapeInv, TypeOK, SetKey, Credentials
<1>. QED
  BY <1>3, <1>4 DEF Kept

\* What the steps below show of req', and of what its requests rely on.
RequestsOK ==
    /\ req \in [Threads -> RequestType]
    /\ \A t \in Threads :
         req[t].at = "write" /\ req[t].found # None => req[t].seen \in RowType
    /\ RequestsComplete
    /\ RequestsGrounded

\* A request that is replaced by a complete one.
LEMMA MoveShape ==
    ASSUME ShapeInv, Kept, NEW t \in Threads, NEW r \in RequestType,
           Complete(r), GroundedNext(t, r), req' = [req EXCEPT ![t] = r]
    PROVE  RequestsOK'
<1>1. /\ req' \in [Threads -> RequestType]
      /\ \A u \in Threads : req'[u] = IF u = t THEN r ELSE req[u]
  BY DEF ShapeInv, TypeOK
<1>2. \A u \in Threads : Complete(req'[u])
  BY <1>1 DEF ShapeInv, RequestsComplete
<1>3. ASSUME NEW u \in Threads, u # t PROVE Grounded(u, req[u])'
  <2>1. Complete(req[u]) /\ Grounded(u, req[u]) /\ req'[u] = req[u]
    BY <1>1, <1>3 DEF ShapeInv, RequestsComplete, RequestsGrounded
  <2>. QED
    BY <2>1 DEF Grounded, Kept, Complete, KeyNow, Processes
<1>4. Grounded(t, req[t])'
  BY <1>1 DEF GroundedNext, Grounded, KeyNow
<1>5. RequestsGrounded'
  BY <1>3, <1>4 DEF RequestsGrounded
<1>. QED
  BY <1>1, <1>2, <1>5 DEF RequestsOK, RequestsComplete, Complete

LEMMA EndShape ==
    ASSUME ShapeInv, Kept, NEW t \in Threads, End(t)
    PROVE  RequestsOK'
<1>1. Complete(NoRequest) /\ GroundedNext(t, NoRequest)
  BY DEF Complete, GroundedNext, NoRequest
<1>. QED
  BY <1>1, NoRequestType, MoveShape DEF End

LEMMA ReceiveShape ==
    ASSUME ShapeInv, Kept, NEW t \in Threads, NEW r \in RequestType,
           Complete(r), GroundedNext(t, r), Receive(t, r)
    PROVE  RequestsOK' /\ received' \in 0 .. MaxRequests
<1>1. received' \in 0 .. MaxRequests
  BY ConnectAssumption DEF Receive, ShapeInv, TypeOK
<1>. QED
  BY <1>1, MoveShape DEF Receive

\* What is written is a row, and a row or an unused id is all that is written to.
LEMMA WriteShape ==
    ASSUME ShapeInv, NEW t \in Threads, WriteConnection(t)
    PROVE  conns' \in [ConnIds -> RowType \cup {Unused, Deleted}]
<1>1. Complete(req[t]) /\ req[t].at = "write"
  BY DEF ShapeInv, RequestsComplete, WriteConnection
<1>2. ASSUME NEW c \in ConnIds, Present(c) PROVE Refreshed(t, conns[c]) \in RowType
  <2>1. NewAccess(t, conns[c].access) \in Credentials
    BY <1>1, <1>2, PresentRows DEF NewAccess, Complete, RowType, ShapeInv
  <2>2. NewMethod(t, conns[c].method) \in Methods
    BY <1>1, <1>2, PresentRows DEF NewMethod, Complete, RowType, Methods, ShapeInv
  <2>. QED
    BY <1>2, <2>1, <2>2, PresentRows DEF Refreshed, RowType, ShapeInv
<1>3. CASE req[t].found # None
  <2>1. CASE ~Present(req[t].found)
    BY <1>3, <2>1 DEF WriteConnection, UpdateRow, ShapeInv, TypeOK
  <2>2. CASE Present(req[t].found)
    <3>1. req[t].found \in ConnIds
      BY <1>3 DEF ShapeInv, TypeOK, RequestType
    <3>2. conns' = [conns EXCEPT ![req[t].found] = Refreshed(t, conns[req[t].found])]
      BY <1>3, <2>2, <3>1 DEF WriteConnection, UpdateRow, ShapeInv, TypeOK
    <3>. QED
      BY <1>2, <2>2, <3>1, <3>2 DEF ShapeInv, TypeOK
  <2>. QED
    BY <2>1, <2>2
<1>4. CASE req[t].found = None
  <2>. DEFINE new == [is |-> "row", org |-> req[t].org, account |-> req[t].account,
                      method |-> req[t].method, access |-> req[t].access]
  <2>1. new \in RowType
    BY <1>1 DEF RowType, Complete
  <2>2. UNCHANGED conns \/ \E c \in ConnIds : conns' = [conns EXCEPT ![c] = new]
    BY <1>4 DEF WriteConnection, InsertRow
  <2>. HIDE DEF new
  <2>. QED
    BY <2>1, <2>2 DEF ShapeInv, TypeOK
<1>. QED
  BY <1>3, <1>4

LEMMA ShapeStep == ShapeInv /\ [Next]_vars => ShapeInv'
<1>. SUFFICES ASSUME ShapeInv, [Next]_vars PROVE ShapeInv'
  OBVIOUS
<1>0. Kept
  BY KeptStep
<1>. USE ConnectAssumption DEF ShapeInv
<1>1. ASSUME NEW s \in States, Expire(s) PROVE ShapeInv'
  BY <1>0, <1>1
  DEF Expire, keyVars, intent, TypeOK, StatesHaveOrgs, RequestsComplete,
      RequestsGrounded, Grounded, KeyNow, Kept, Complete, stripe
<1>2. ASSUME NEW s \in States, NEW o \in Orgs, InitFlow(s, o) PROVE ShapeInv'
  BY <1>0, <1>2
  DEF InitFlow, keyVars, intent, TypeOK, StatesHaveOrgs, RequestsComplete,
      RequestsGrounded, Grounded, KeyNow, Kept, Complete, stripe
<1>3. ASSUME NEW s \in States, NEW a \in Accounts, Approve(s, a) PROVE ShapeInv'
  BY <1>0, <1>3
  DEF Approve, keyVars, TypeOK, StatesHaveOrgs, RequestsComplete, RequestsGrounded, Grounded,
      KeyNow, Kept, Complete, flow
<1>4. ASSUME NEW t \in Threads, NEW s \in States, NEW code \in approved,
             ReceiveCallback(t, s, code)
      PROVE  ShapeInv'
  <2>. DEFINE r == [NoRequest EXCEPT !.at = "state", !.method = "oauth", !.state = s,
                                    !.code = code]
  <2>0. code \in States \X Accounts
    BY DEF TypeOK
  <2>1. r \in RequestType /\ Complete(r) /\ GroundedNext(t, r)
    BY <2>0 DEF NoRequest, RequestType, Methods, Credentials, Complete, GroundedNext
  <2>2. Receive(t, r) /\ UNCHANGED <<flow, stripe, conns, keyVars, tainted, intent>>
    BY <1>4 DEF ReceiveCallback
  <2>. HIDE DEF r
  <2>. QED
    BY <1>0, <2>1, <2>2, ReceiveShape
    DEF RequestsOK, flow, stripe, keyVars, intent, TypeOK, StatesHaveOrgs
<1>5. ASSUME NEW t \in Threads, NEW o \in Orgs, NEW k \in Keys, ReceiveKey(t, o, k)
      PROVE  ShapeInv'
  <2>. DEFINE r == [NoRequest EXCEPT !.at = "identify", !.method = "restricted_key",
                                    !.org = o, !.access = k]
  <2>1. r \in RequestType /\ Complete(r)
    BY DEF NoRequest, RequestType, Methods, Credentials, Complete
  <2>6. GroundedNext(t, r)
    BY <1>5
    DEF ReceiveKey, SetKey, TypeOK, Processes, GroundedNext, NoRequest, Credentials
  <2>2. Receive(t, r) /\ UNCHANGED <<flow, stripe, conns, tainted, swapped>>
    BY <1>5 DEF ReceiveKey
  <2>3. apiKey' \in [Processes -> Credentials \cup {None}] /\ overtaken' \subseteq Threads
    BY <1>5 DEF ReceiveKey, SetKey, TypeOK, Credentials
  <2>4. KeyAccount[k] \in Accounts
    OBVIOUS
  <2>5. consented' \subseteq Orgs \X Accounts
    BY <1>5, <2>4 DEF ReceiveKey, TypeOK
  <2>. HIDE DEF r
  <2>. QED
    BY <1>0, <2>1, <2>2, <2>3, <2>5, <2>6, ReceiveShape
    DEF RequestsOK, flow, stripe, TypeOK, StatesHaveOrgs
<1>6. ASSUME NEW t \in Threads, NEW c \in ConnIds, ReceiveDisconnect(t, c)
      PROVE  ShapeInv'
  <2>. DEFINE r == [NoRequest EXCEPT
                      !.at = IF conns[c].method = "oauth" /\ Keyed(t)
                             THEN "deauthorize" ELSE "delete",
                      !.found = c, !.account = conns[c].account]
  <2>1. conns[c].account \in AccountIds
    BY <1>6, PresentRows DEF ReceiveDisconnect, RowType
  <2>2. r \in RequestType /\ Complete(r) /\ GroundedNext(t, r)
    BY <2>1 DEF NoRequest, RequestType, Complete, GroundedNext
  <2>3. Receive(t, r) /\ UNCHANGED <<flow, stripe, conns, tainted, intent>>
    BY <1>6 DEF ReceiveDisconnect
  <2>4. apiKey' \in [Processes -> Credentials \cup {None}] /\ overtaken' \subseteq Threads
    BY <1>6 DEF ReceiveDisconnect, SetKey, keyVars, TypeOK, Credentials
  <2>. HIDE DEF r
  <2>. QED
    BY <1>0, <2>2, <2>3, <2>4, ReceiveShape
    DEF RequestsOK, flow, stripe, intent, TypeOK, StatesHaveOrgs
<1>7. ASSUME NEW t \in Threads, FindState(t) PROVE ShapeInv'
  <2>1. CASE End(t)
    BY <1>0, <2>1, <1>7, EndShape
    DEF RequestsOK, FindState, flow, stripe, keyVars, intent, TypeOK, StatesHaveOrgs
  <2>2. CASE stateIs[req[t].state] = "live"
    <3>. DEFINE r == [req[t] EXCEPT !.at = "consume", !.org = stateOrg[req[t].state]]
    <3>1. Complete(req[t]) /\ req[t] \in RequestType
      BY DEF RequestsComplete, TypeOK
    <3>2. stateOrg[req[t].state] \in Orgs
      BY <3>1, <2>2, <1>7 DEF FindState, StatesHaveOrgs, Complete
    <3>3. r \in RequestType
      BY <3>1, <3>2 DEF RequestType
    <3>4. Complete(r) /\ GroundedNext(t, r)
      BY <3>1, <3>2, <1>7 DEF FindState, flow, RequestType, Complete, GroundedNext
    <3>5. req' = [req EXCEPT ![t] = r]
      BY <1>7, <2>2 DEF FindState, TypeOK
    <3>. HIDE DEF r
    <3>. QED
      BY <1>0, <3>3, <3>4, <3>5, <1>7, MoveShape
      DEF RequestsOK, FindState, flow, stripe, keyVars, intent, TypeOK, StatesHaveOrgs
  <2>. QED
    BY <1>7, <2>1, <2>2 DEF FindState
<1>8. ASSUME NEW t \in Threads, ConsumeState(t) PROVE ShapeInv'
  <2>1. Complete(req[t]) /\ req[t] \in RequestType /\ req[t].at = "consume"
    BY <1>8 DEF RequestsComplete, TypeOK, ConsumeState
  <2>2. RequestsOK'
    <3>1. CASE req' = [req EXCEPT ![t].at = "exchange"]
      <4>. DEFINE r == [req[t] EXCEPT !.at = "exchange"]
      <4>1. r \in RequestType /\ Complete(r) /\ GroundedNext(t, r)
        BY <2>1 DEF RequestType, Complete, GroundedNext
      <4>2. req' = [req EXCEPT ![t] = r]
        BY <3>1
      <4>. HIDE DEF r
      <4>. QED
        BY <1>0, <4>1, <4>2, MoveShape
    <3>2. CASE End(t)
      BY <1>0, <3>2, EndShape
    <3>. QED
      BY <1>8, <3>1, <3>2 DEF ConsumeState
  <2>3. apiKey' \in [Processes -> Credentials \cup {None}] /\ overtaken' \subseteq Threads
    BY <1>8 DEF ConsumeState, SetKey, keyVars, TypeOK, Credentials
  <2>4. /\ stateIs' \in [States -> {"unused", "live", "expired", "used"}]
        /\ StatesHaveOrgs'
    BY <1>8, <2>1
    DEF ConsumeState, TypeOK, StatesHaveOrgs, Complete, RequestsGrounded, Grounded
  <2>. QED
    BY <2>2, <2>3, <2>4, <1>8 DEF RequestsOK, ConsumeState, stripe, intent, TypeOK
<1>9. ASSUME NEW t \in Threads, Exchange(t) PROVE ShapeInv'
  <2>. DEFINE code == req[t].code
  <2>1. /\ Complete(req[t]) /\ req[t] \in RequestType
        /\ code \in States \X Accounts /\ code[2] \in Accounts /\ req[t].org \in Orgs
    BY <1>9 DEF RequestsComplete, TypeOK, Exchange, Complete
  <2>2. RequestsOK'
    <3>. DEFINE r == [NoRequest EXCEPT
                        !.at = "find", !.method = "oauth", !.org = req[t].org,
                        !.access = code[2], !.account = code[2]]
    <3>1. r \in RequestType /\ Complete(r) /\ GroundedNext(t, r)
      BY <2>1
      DEF NoRequest, RequestType, Complete, AccountIds, Credentials, Methods, GroundedNext
    <3>2. End(t) \/ req' = [req EXCEPT ![t] = r]
      BY <1>9 DEF Exchange
    <3>. HIDE DEF r
    <3>. QED
      BY <1>0, <3>1, <3>2, EndShape, MoveShape
  <2>3. /\ codes' \subseteq approved' /\ grants' \subseteq Accounts
        /\ swapped' \subseteq Orgs \X Accounts
    BY <1>9, <2>1 DEF Exchange, TypeOK
  <2>. QED
    BY <2>2, <2>3, <1>9 DEF RequestsOK, Exchange, flow, keyVars, TypeOK, StatesHaveOrgs
<1>10. ASSUME NEW t \in Threads, Identify(t) PROVE ShapeInv'
  <2>1. CASE End(t)
    BY <1>0, <2>1, <1>10, EndShape
    DEF RequestsOK, Identify, Forget, flow, stripe, intent, TypeOK, StatesHaveOrgs
  <2>2. CASE ~End(t)
    <3>. DEFINE r == [req[t] EXCEPT !.at = "find",
                        !.account = IdentifiedAs(KeyNow(t), req[t].access)]
    <3>1. Complete(req[t]) /\ req[t] \in RequestType
      BY DEF RequestsComplete, TypeOK
    <3>2. KeyNow(t) \in Credentials
      BY <1>10 DEF TypeOK, KeyNow, Processes, Identify, RequestsGrounded, Grounded
    <3>3. IdentifiedAs(KeyNow(t), req[t].access) \in AccountIds
      BY <3>1, <3>2, <1>10
      DEF IdentifiedAs, Owner, AccountIds, Credentials, Complete, Identify
    <3>4. r \in RequestType /\ Complete(r) /\ GroundedNext(t, r)
      BY <3>1, <3>3, <1>10
      DEF Identify, RequestType, Complete, Credentials, Methods, GroundedNext
    <3>5. req' = [req EXCEPT ![t] = r]
      BY <1>10, <2>2 DEF Identify, TypeOK
    <3>. HIDE DEF r
    <3>6. overtaken' \subseteq Threads
      BY <1>10, <2>2 DEF Identify, TypeOK
    <3>. QED
      BY <1>0, <3>4, <3>5, <3>6, <1>10, MoveShape
      DEF RequestsOK, Identify, flow, stripe, intent, TypeOK, StatesHaveOrgs
  <2>. QED
    BY <2>1, <2>2
<1>11. ASSUME NEW t \in Threads, FindConnection(t) PROVE ShapeInv'
  <2>1. Complete(req[t]) /\ req[t] \in RequestType
    BY DEF RequestsComplete, TypeOK
  <2>2. CASE req' = [req EXCEPT ![t].at = "write"]
    <3>. DEFINE q == [req[t] EXCEPT !.at = "write"]
    <3>1. q \in RequestType /\ Complete(q) /\ GroundedNext(t, q)
      BY <2>1, <2>2, <1>11 DEF FindConnection, RequestType, Complete, GroundedNext
    <3>2. req' = [req EXCEPT ![t] = q]
      BY <2>2 DEF TypeOK
    <3>. HIDE DEF q
    <3>. QED
      BY <1>0, <3>1, <3>2, <1>11, MoveShape
      DEF RequestsOK, FindConnection, flow, stripe, keyVars, intent, TypeOK, StatesHaveOrgs
  <2>3. ASSUME NEW c \in Rows, Remember(t, c) PROVE ShapeInv'
    <3>. DEFINE q == [req[t] EXCEPT !.at = "write", !.found = c, !.seen = conns[c]]
    <3>1. c \in ConnIds /\ conns[c] \in RowType
      BY PresentRows DEF Rows
    <3>2. q \in RequestType /\ Complete(q) /\ GroundedNext(t, q)
      BY <2>1, <3>1, <1>11 DEF FindConnection, RequestType, Complete, GroundedNext
    <3>3. req' = [req EXCEPT ![t] = q]
      BY <2>3 DEF Remember, TypeOK
    <3>. HIDE DEF q
    <3>. QED
      BY <1>0, <3>2, <3>3, <1>11, MoveShape
      DEF RequestsOK, FindConnection, flow, stripe, keyVars, intent, TypeOK, StatesHaveOrgs
  <2>. QED
    BY <1>11, <2>2, <2>3 DEF FindConnection
<1>12. ASSUME NEW t \in Threads, WriteConnection(t) PROVE ShapeInv'
  <2>1. conns' \in [ConnIds -> RowType \cup {Unused, Deleted}]
    BY <1>12, WriteShape
  <2>. QED
    BY <1>0, <2>1, <1>12, EndShape
    DEF RequestsOK, WriteConnection, TaintedBy, Forget, flow, stripe, intent, TypeOK,
        StatesHaveOrgs
<1>13. ASSUME NEW t \in Threads, Deauthorize(t) PROVE ShapeInv'
  <2>. DEFINE r == [req[t] EXCEPT !.at = "delete"]
  <2>1. Complete(req[t]) /\ req[t] \in RequestType
    BY DEF RequestsComplete, TypeOK
  <2>2. r \in RequestType /\ Complete(r) /\ GroundedNext(t, r)
    BY <2>1, <1>13 DEF Deauthorize, RequestType, Complete, GroundedNext
  <2>3. req' = [req EXCEPT ![t] = r] /\ grants' \subseteq Accounts
    BY <1>13 DEF Deauthorize, TypeOK
  <2>. HIDE DEF r
  <2>. QED
    BY <1>0, <2>2, <2>3, <1>13, MoveShape
    DEF RequestsOK, Deauthorize, flow, keyVars, intent, TypeOK, StatesHaveOrgs
<1>14. ASSUME NEW t \in Threads, DeleteConnection(t) PROVE ShapeInv'
  <2>1. conns' \in [ConnIds -> RowType \cup {Unused, Deleted}]
    BY <1>14 DEF DeleteConnection, TypeOK
  <2>. QED
    BY <1>0, <2>1, <1>14, EndShape
    DEF RequestsOK, DeleteConnection, flow, stripe, keyVars, intent, TypeOK, StatesHaveOrgs
<1>15. ASSUME NEW p \in Processes, NEW c \in ConnIds, SyncSetsKey(p, c) PROVE ShapeInv'
  <2>1. PICK k \in Credentials : SetKey(p, k)
    BY <1>15, RowKeys DEF SyncSetsKey, Credentials
  <2>2. apiKey' \in [Processes -> Credentials \cup {None}] /\ overtaken' \subseteq Threads
    BY <2>1 DEF SetKey, TypeOK
  <2>3. RequestsGrounded'
    BY <1>0, <1>15 DEF SyncSetsKey, flow, RequestsGrounded, Grounded, KeyNow, Kept, Processes
  <2>. QED
    BY <1>15, <2>2, <2>3
    DEF SyncSetsKey, flow, stripe, intent, TypeOK, StatesHaveOrgs, RequestsComplete, Complete
<1>16. ASSUME NEW t \in Threads, Fail(t) PROVE ShapeInv'
  BY <1>0, <1>16, EndShape
  DEF RequestsOK, Fail, Forget, flow, stripe, intent, TypeOK, StatesHaveOrgs
<1>17. CASE UNCHANGED vars
  BY <1>17 DEF vars, flow, stripe, keyVars, intent, TypeOK, StatesHaveOrgs, RequestsComplete,
                RequestsGrounded, Grounded, KeyNow, Complete
<1>. QED
  BY <1>1, <1>2, <1>3, <1>4, <1>5, <1>6, <1>7, <1>8, <1>9, <1>10, <1>11, <1>12, <1>13,
     <1>14, <1>15, <1>16, <1>17 DEF Next, RequestStep

\* Every variable keeps its shape, for any number of overlapping requests.
THEOREM TypeCorrect == Spec => []TypeOK
<1>1. ShapeInv => TypeOK
  BY DEF ShapeInv
<1>. QED
  BY <1>1, ShapeInit, ShapeStep, PTL DEF Spec
-----------------------------------------------------------------------------
(* Rows.  Each step writes at most one, and a row keeps its organization    *)
(* and its account until it is deleted.                                     *)

RowsKept ==
    \A c \in ConnIds :
       conns[c].is # "unused" =>
         /\ conns'[c].is # "unused"
         /\ conns'[c].is = "row" =>
              /\ conns[c].is = "row"
              /\ conns'[c].org = conns[c].org
              /\ conns'[c].account = conns[c].account

\* What a request inserts.
NewRow(t) ==
    [is |-> "row", org |-> req[t].org, account |-> req[t].account,
     method |-> req[t].method, access |-> req[t].access]

LEMMA WhoWritesRows ==
    ASSUME [Next]_vars
    PROVE  UNCHANGED conns \/ \E t \in Threads : WriteConnection(t) \/ DeleteConnection(t)
  BY DEF Next, RequestStep, Expire, InitFlow, Approve, ReceiveCallback, ReceiveKey,
         ReceiveDisconnect, FindState, ConsumeState, Exchange, Identify, FindConnection,
         Deauthorize, SyncSetsKey, Fail, vars

\* The three things a write can come to.
LEMMA WriteCases ==
    ASSUME ShapeInv, NEW t \in Threads, WriteConnection(t)
    PROVE  \/ UNCHANGED conns
           \/ /\ req[t].found \in ConnIds
              /\ Present(req[t].found)
              /\ conns' = [conns EXCEPT ![req[t].found] = Refreshed(t, conns[req[t].found])]
           \/ /\ ~Refused(t)
              /\ \E c \in ConnIds :
                   conns[c].is = "unused" /\ conns' = [conns EXCEPT ![c] = NewRow(t)]
<1>1. CASE req[t].found # None
  <2>1. req[t].found \in ConnIds
    BY <1>1 DEF ShapeInv, TypeOK, RequestType
  <2>. QED
    BY <1>1, <2>1 DEF WriteConnection, UpdateRow, ShapeInv, TypeOK
<1>2. CASE req[t].found = None
  BY <1>2 DEF WriteConnection, InsertRow, NewRow, Unused
<1>. QED
  BY <1>1, <1>2

LEMMA DeleteCase ==
    ASSUME ShapeInv, NEW t \in Threads, DeleteConnection(t)
    PROVE  req[t].found \in ConnIds /\ conns' = [conns EXCEPT ![req[t].found] = Deleted]
  BY DEF ShapeInv, RequestsComplete, Complete, DeleteConnection

LEMMA RowsKeptStep ==
    ASSUME ShapeInv, [Next]_vars
    PROVE  RowsKept
<1>1. ASSUME NEW t \in Threads, WriteConnection(t) PROVE RowsKept
  <2>1. CASE UNCHANGED conns
    BY <2>1 DEF RowsKept
  <2>2. CASE /\ req[t].found \in ConnIds
             /\ Present(req[t].found)
             /\ conns' = [conns EXCEPT ![req[t].found] = Refreshed(t, conns[req[t].found])]
    <3>1. conns[req[t].found] \in RowType
      BY <2>2, PresentRows DEF ShapeInv
    <3>. QED
      BY <2>2, <3>1 DEF RowsKept, Refreshed, RowType, Present, ShapeInv, TypeOK
  <2>3. ASSUME NEW c \in ConnIds, conns[c].is = "unused",
               conns' = [conns EXCEPT ![c] = NewRow(t)]
        PROVE  RowsKept
    BY <2>3 DEF RowsKept, ShapeInv, TypeOK
  <2>. QED
    BY <1>1, <2>1, <2>2, <2>3, WriteCases
<1>2. ASSUME NEW t \in Threads, DeleteConnection(t) PROVE RowsKept
  BY <1>2, DeleteCase DEF RowsKept, Deleted, Unused, ShapeInv, TypeOK
<1>. QED
  BY <1>1, <1>2, WhoWritesRows DEF RowsKept

\* A connection that was deleted does not come back through a request that had found
\* it before: an UPDATE is of a row that is there, an INSERT takes an id never used.
THEOREM DeletedIsFinalAlways == Spec => DeletedIsFinal
<1>1. ASSUME ShapeInv, [Next]_vars
      PROVE  [\A c \in ConnIds : conns[c] = Deleted => conns'[c] = Deleted]_vars
  <2>1. ShapeInv'
    BY <1>1, ShapeStep
  <2>2. RowsKept
    BY <1>1, RowsKeptStep
  <2>3. ASSUME NEW c \in ConnIds, conns[c] = Deleted PROVE conns'[c] = Deleted
    <3>1. conns'[c].is # "unused" /\ conns'[c].is # "row"
      BY <2>2, <2>3 DEF RowsKept, Deleted, Unused
    <3>. QED
      BY <2>1, <3>1 DEF ShapeInv, TypeOK, RowType, Unused
  <2>. QED
    BY <2>3
<1>. QED
  BY <1>1, ShapeInit, ShapeStep, PTL DEF Spec, DeletedIsFinal

LEMMA OneRowStep == ShapeInv /\ OneRowPerAccount /\ [Next]_vars => OneRowPerAccount'
<1>. SUFFICES ASSUME ShapeInv, OneRowPerAccount, [Next]_vars,
                     NEW c \in ConnIds, NEW d \in ConnIds,
                     conns'[c].is = "row", conns'[d].is = "row",
                     conns'[d].org = conns'[c].org, conns'[d].account = conns'[c].account
              PROVE  c = d
  BY DEF OneRowPerAccount, Rows, Present, Matches
<1>1. RowsKept
  BY RowsKeptStep
<1>2. CASE conns[c].is # "unused" /\ conns[d].is # "unused"
  BY <1>1, <1>2 DEF RowsKept, OneRowPerAccount, Rows, Present, Matches
<1>3. CASE conns[c].is = "unused" \/ conns[d].is = "unused"
  <2>1. PICK t \in Threads : WriteConnection(t)
    BY <1>3, WhoWritesRows, DeleteCase DEF Deleted, Unused, ShapeInv, TypeOK
  <2>2. /\ ~Refused(t)
        /\ \E e \in ConnIds :
             conns[e].is = "unused" /\ conns' = [conns EXCEPT ![e] = NewRow(t)]
    BY <1>3, <2>1, WriteCases DEF Present, ShapeInv, TypeOK
  <2>3. PICK e \in ConnIds :
             conns[e].is = "unused" /\ conns' = [conns EXCEPT ![e] = NewRow(t)]
    BY <2>2
  <2>4. \A x \in ConnIds \ {e} : conns'[x] = conns[x]
    BY <2>3 DEF ShapeInv, TypeOK
  <2>5. conns'[e].org = req[t].org /\ conns'[e].account = req[t].account
    BY <2>3 DEF NewRow, ShapeInv, TypeOK
  <2>6. \A x \in ConnIds \ {e} :
          ~(conns'[x].is = "row" /\ conns'[x].org = req[t].org
              /\ conns'[x].account = req[t].account)
    BY <2>2, <2>4 DEF Refused, Rows, Present, Matches
  <2>. QED
    BY <1>3, <2>3, <2>4, <2>5, <2>6
<1>. QED
  BY <1>2, <1>3

\* One row per organization and account, for any number of requests that look for it
\* before any of them inserts: uq_org_platform_account alone is enough.
THEOREM OneRowPerAccountAlways == Spec => []OneRowPerAccount
<1>1. Init => OneRowPerAccount
  BY DEF Init, OneRowPerAccount, Rows, Present, Unused
<1>. QED
  BY <1>1, ShapeInit, ShapeStep, OneRowStep, PTL DEF Spec
-----------------------------------------------------------------------------
(* What a connection holds.  It follows what a request carries, and this    *)
(* what stripe.api_key is when the account is asked for, unless something   *)
(* else in its process has replaced the key before.                         *)

\* What a request carries, given the key of its process and the rows; clean says that it
\* has not been overtaken.
Fits(r, clean, k, rows) ==
    /\ r.at = "identify" /\ clean => k = r.access
    /\ r.at \in {"find", "write"} /\ clean => Owner(r.account) = Owner(r.access)
    /\ r.at = "write" /\ r.found # None =>
         /\ rows[r.found].is # "unused"
         /\ rows[r.found].is = "row" => /\ rows[r.found].org = r.org
                                        /\ rows[r.found].account = r.account

RequestsFit ==
    \A t \in Threads : Fits(req[t], t \notin overtaken, apiKey[ProcessOf[t]], conns)

CredentialInv == RequestsFit /\ CredentialFitsRow

ThreadStep(t) ==
    \/ \E s \in States, code \in approved : ReceiveCallback(t, s, code)
    \/ \E o \in Orgs, k \in Keys : ReceiveKey(t, o, k)
    \/ \E c \in ConnIds : ReceiveDisconnect(t, c)
    \/ RequestStep(t)

OutsideStep ==
    \/ \E s \in States : Expire(s) \/ \E o \in Orgs : InitFlow(s, o)
    \/ \E s \in States, a \in Accounts : Approve(s, a)
    \/ \E p \in Processes, c \in ConnIds : SyncSetsKey(p, c)

LEMMA NextIs == Next <=> OutsideStep \/ \E t \in Threads : ThreadStep(t)
  BY DEF Next, OutsideStep, ThreadStep

\* A step of one thread leaves the requests of the others.
LEMMA ThreadsApart ==
    ASSUME ShapeInv, NEW t \in Threads, ThreadStep(t)
    PROVE  \A u \in Threads \ {t} : req'[u] = req[u]
  BY DEF ThreadStep, RequestStep, Receive, End, Remember, ReceiveCallback, ReceiveKey,
         ReceiveDisconnect, FindState, ConsumeState, Exchange, Identify, FindConnection,
         WriteConnection, Deauthorize, DeleteConnection, Fail, ShapeInv, TypeOK

\* What happens to the keys, and to the marks of those that were overtaken.
LEMMA KeySteps ==
    ASSUME [Next]_vars
    PROVE  \/ UNCHANGED keyVars
           \/ \E p, k : SetKey(p, k)
           \/ \E t \in Threads :
                req[t].at # "idle" /\ End(t) /\ Forget(t) /\ UNCHANGED apiKey
  BY DEF Next, RequestStep, Expire, InitFlow, Approve, ReceiveCallback, ReceiveKey,
         ReceiveDisconnect, FindState, ConsumeState, Exchange, Identify, FindConnection,
         WriteConnection, Deauthorize, DeleteConnection, SyncSetsKey, Fail, vars, keyVars

\* A request that goes on keeps its key, or is marked; and it keeps its mark.
Held(u) ==
    /\ u \in overtaken => u \in overtaken'
    /\ req[u].at = "identify" /\ u \notin overtaken'
         => apiKey'[ProcessOf[u]] = apiKey[ProcessOf[u]]

LEMMA HeldStep ==
    ASSUME ShapeInv, [Next]_vars, NEW u \in Threads, req'[u] = req[u]
    PROVE  Held(u)
<1>1. CASE UNCHANGED keyVars
  BY <1>1 DEF keyVars, Held
<1>2. ASSUME NEW p, NEW k, SetKey(p, k) PROVE Held(u)
  BY <1>2 DEF SetKey, Held, ShapeInv, TypeOK, Processes
<1>3. ASSUME NEW t \in Threads, req[t].at # "idle", End(t), Forget(t), UNCHANGED apiKey
      PROVE  Held(u)
  <2>1. req'[t].at = "idle"
    BY <1>3 DEF End, NoRequest, ShapeInv, TypeOK
  <2>. QED
    BY <1>3, <2>1 DEF Forget, Held
<1>. QED
  BY <1>1, <1>2, <1>3, KeySteps

\* So a step is to be checked for its own request only.
LEMMA OthersFit ==
    ASSUME ShapeInv, RowsKept, RequestsFit, NEW u \in Threads, req'[u] = req[u], Held(u)
    PROVE  Fits(req'[u], u \notin overtaken', apiKey'[ProcessOf[u]], conns')
<1>1. /\ Fits(req[u], u \notin overtaken, apiKey[ProcessOf[u]], conns)
      /\ req[u].found \in ConnIds \cup {None}
  BY DEF RequestsFit, ShapeInv, TypeOK, RequestType
<1>2. req[u].at = "identify" /\ u \notin overtaken' => apiKey'[ProcessOf[u]] = req[u].access
  BY <1>1 DEF Fits, Held
<1>3. req[u].at \in {"find", "write"} /\ u \notin overtaken'
        => Owner(req[u].account) = Owner(req[u].access)
  BY <1>1 DEF Fits, Held
<1>. QED
  BY <1>1, <1>2, <1>3 DEF Fits, RowsKept

\* A request of a thread goes on carrying what fits.
LEMMA OwnFits ==
    ASSUME ShapeInv, RowsKept, RequestsFit, NEW t \in Threads, ThreadStep(t)
    PROVE  Fits(req'[t], t \notin overtaken', apiKey'[ProcessOf[t]], conns')
<1>. DEFINE Goal == Fits(req'[t], t \notin overtaken', apiKey'[ProcessOf[t]], conns')
<1>0. /\ Fits(req[t], t \notin overtaken, apiKey[ProcessOf[t]], conns)
      /\ Complete(req[t])
      /\ req[t] \in RequestType
      /\ ProcessOf[t] \in Processes
  BY DEF RequestsFit, ShapeInv, TypeOK, RequestsComplete, Processes
<1>. USE DEF ShapeInv, TypeOK
<1>1. ASSUME NEW s \in States, NEW code \in approved, ReceiveCallback(t, s, code) PROVE Goal
  BY <1>0, <1>1 DEF ReceiveCallback, Receive, NoRequest, Fits
<1>2. ASSUME NEW o \in Orgs, NEW k \in Keys, ReceiveKey(t, o, k) PROVE Goal
  BY <1>0, <1>2 DEF ReceiveKey, Receive, SetKey, NoRequest, Fits
<1>3. ASSUME NEW c \in ConnIds, ReceiveDisconnect(t, c) PROVE Goal
  BY <1>0, <1>3 DEF ReceiveDisconnect, Receive, NoRequest, Fits
<1>4. CASE FindState(t)
  BY <1>0, <1>4 DEF FindState, End, NoRequest, Fits, RequestType
<1>5. CASE ConsumeState(t)
  BY <1>0, <1>5 DEF ConsumeState, End, NoRequest, Fits, RequestType
<1>6. CASE Exchange(t)
  <2>. DEFINE a == req[t].code[2]
              r == [NoRequest EXCEPT !.at = "find", !.method = "oauth", !.org = req[t].org,
                                     !.access = a, !.account = a]
  <2>1. r.at = "find" /\ r.account = r.access
    BY DEF NoRequest
  <2>2. End(t) \/ req' = [req EXCEPT ![t] = r]
    BY <1>6 DEF Exchange
  <2>3. CASE End(t)
    BY <2>3 DEF End, NoRequest, Fits
  <2>. HIDE DEF r
  <2>4. CASE req' = [req EXCEPT ![t] = r]
    BY <2>1, <2>4 DEF Fits
  <2>. QED
    BY <2>2, <2>3, <2>4
<1>7. CASE Identify(t)
  <2>1. CASE End(t)
    BY <2>1 DEF End, NoRequest, Fits
  <2>2. CASE /\ req' = [req EXCEPT ![t].at = "find",
                                  ![t].account = IdentifiedAs(KeyNow(t), req[t].access)]
             /\ UNCHANGED overtaken
    <3>1. /\ req'[t].at = "find" /\ req'[t].access = req[t].access
          /\ req'[t].account = IdentifiedAs(KeyNow(t), req[t].access)
      BY <1>0, <2>2 DEF RequestType
    <3>2. ASSUME t \notin overtaken
          PROVE  Owner(IdentifiedAs(KeyNow(t), req[t].access)) = Owner(req[t].access)
      <4>1. KeyNow(t) = req[t].access /\ req[t].access \in Keys
        BY <1>0, <1>7, <3>2 DEF Identify, Fits, Complete, KeyNow
      <4>. QED
        BY <4>1, ConnectAssumption DEF IdentifiedAs, Owner
    <3>. QED
      BY <2>2, <3>1, <3>2 DEF Fits
  <2>. QED
    BY <1>7, <2>1, <2>2 DEF Identify
<1>8. CASE FindConnection(t)
  <2>1. CASE req' = [req EXCEPT ![t].at = "write"]
    BY <1>0, <1>8, <2>1 DEF Fits, RequestType, Complete, FindConnection, keyVars
  <2>2. ASSUME NEW c \in Rows, Matches(c, req[t].org, req[t].account), Remember(t, c)
        PROVE  Goal
    <3>1. conns[c].is = "row" /\ conns' = conns
      BY <1>8 DEF FindConnection, Rows, Present
    <3>. QED
      BY <1>0, <1>8, <2>2, <3>1 DEF Fits, RequestType, Remember, Matches, FindConnection, keyVars
  <2>. QED
    BY <1>8, <2>1, <2>2 DEF FindConnection
<1>9. CASE WriteConnection(t) \/ DeleteConnection(t) \/ Fail(t)
  BY <1>0, <1>9 DEF WriteConnection, DeleteConnection, Fail, End, NoRequest, Fits
<1>10. CASE Deauthorize(t)
  BY <1>0, <1>10 DEF Deauthorize, Fits, RequestType
<1>. QED
  BY <1>1, <1>2, <1>3, <1>4, <1>5, <1>6, <1>7, <1>8, <1>9, <1>10
  DEF ThreadStep, RequestStep

\* A row that keeps its credential does not lose a taint.
LEMMA TaintKept ==
    ASSUME ShapeInv, [Next]_vars, NEW c \in ConnIds, conns'[c].is = "row",
           conns'[c].access = conns[c].access, c \notin tainted'
    PROVE  c \notin tainted
<1>1. ASSUME NEW t \in Threads, WriteConnection(t) PROVE c \notin tainted
  BY <1>1 DEF WriteConnection, TaintedBy
<1>2. ASSUME NEW t \in Threads, DeleteConnection(t) PROVE c \notin tainted
  BY <1>2, DeleteCase DEF DeleteConnection, Deleted, Unused, ShapeInv, TypeOK
<1>3. \/ UNCHANGED tainted
      \/ \E t \in Threads : WriteConnection(t) \/ DeleteConnection(t)
  BY DEF Next, RequestStep, Expire, InitFlow, Approve, ReceiveCallback, ReceiveKey,
         ReceiveDisconnect, FindState, ConsumeState, Exchange, Identify, FindConnection,
         Deauthorize, SyncSetsKey, Fail, vars
<1>. QED
  BY <1>1, <1>2, <1>3

\* What a row gets to hold is what the request carries that writes it.
LEMMA WrittenIs ==
    ASSUME ShapeInv, RequestsFit, NEW t \in Threads, WriteConnection(t),
           NEW c \in ConnIds, conns'[c].is = "row", conns'[c].access # conns[c].access
    PROVE  /\ conns'[c].access = req[t].access
           /\ conns'[c].org = req[t].org
           /\ conns'[c].account = req[t].account
<1>1. CASE /\ req[t].found \in ConnIds
           /\ Present(req[t].found)
           /\ conns' = [conns EXCEPT ![req[t].found] = Refreshed(t, conns[req[t].found])]
  <2>1. c = req[t].found /\ conns[c] \in RowType /\ c # None
    BY <1>1, PresentRows, ConnectAssumption DEF ShapeInv, TypeOK
  <2>2. conns'[c] = Refreshed(t, conns[c])
    BY <1>1, <2>1 DEF ShapeInv, TypeOK
  <2>3. /\ conns'[c].org = conns[c].org /\ conns'[c].account = conns[c].account
        /\ conns'[c].access = req[t].access
    BY <2>1, <2>2 DEF Refreshed, RowType, NewAccess
  <2>4. conns[c].org = req[t].org /\ conns[c].account = req[t].account
    BY <1>1, <2>1 DEF WriteConnection, RequestsFit, Fits, Present
  <2>. QED
    BY <2>3, <2>4
<1>2. ASSUME NEW d \in ConnIds, conns' = [conns EXCEPT ![d] = NewRow(t)]
      PROVE  conns'[c] = NewRow(t)
  BY <1>2 DEF ShapeInv, TypeOK
<1>. QED
  BY <1>1, <1>2, WriteCases DEF NewRow

\* Rows are written by requests that fit them, or tainted.
LEMMA RowsFit ==
    ASSUME ShapeInv, CredentialInv, [Next]_vars
    PROVE  CredentialFitsRow'
<1>. SUFFICES ASSUME NEW c \in ConnIds, conns'[c].is = "row", c \notin tainted'
              PROVE  Owner(conns'[c].access) = Owner(conns'[c].account)
  BY DEF CredentialFitsRow, Rows, Present
<1>1. CASE conns'[c].access = conns[c].access
  <2>1. c \notin tainted /\ RowsKept
    BY <1>1, TaintKept, RowsKeptStep
  <2>2. conns'[c].access # None
    BY ShapeStep, ConnectAssumption DEF ShapeInv, TypeOK, RowType, Unused, Deleted, Credentials
  <2>3. conns[c].is = "row"
    BY <1>1, <2>2 DEF ShapeInv, TypeOK, RowType, Unused, Deleted
  <2>4. conns'[c].account = conns[c].account
    BY <2>1, <2>3 DEF RowsKept
  <2>. QED
    BY <1>1, <2>1, <2>3, <2>4 DEF CredentialInv, CredentialFitsRow, Rows, Present
<1>2. CASE conns'[c].access # conns[c].access
  <2>1. PICK t \in Threads : WriteConnection(t)
    BY <1>2, WhoWritesRows, DeleteCase DEF Deleted, Unused, ShapeInv, TypeOK
  <2>2. t \notin overtaken
    BY <1>2, <2>1 DEF WriteConnection, TaintedBy
  <2>3. Owner(req[t].account) = Owner(req[t].access)
    BY <2>1, <2>2 DEF WriteConnection, CredentialInv, RequestsFit, Fits
  <2>. QED
    BY <1>2, <2>1, <2>3, WrittenIs DEF CredentialInv
<1>. QED
  BY <1>1, <1>2

LEMMA CredentialStep ==
    ASSUME ShapeInv, CredentialInv, [Next]_vars
    PROVE  CredentialInv'
<1>1. RowsKept /\ CredentialFitsRow'
  BY RowsKeptStep, RowsFit
<1>2. CASE OutsideStep \/ UNCHANGED vars
  <2>1. UNCHANGED req
    BY <1>2 DEF OutsideStep, Expire, InitFlow, Approve, SyncSetsKey, vars
  <2>. QED
    BY <1>1, <2>1, HeldStep, OthersFit DEF CredentialInv, RequestsFit
<1>3. ASSUME NEW t \in Threads, ThreadStep(t) PROVE CredentialInv'
  BY <1>1, <1>3, ThreadsApart, OwnFits, HeldStep, OthersFit DEF CredentialInv, RequestsFit
<1>. QED
  BY <1>2, <1>3, NextIs

\* The credential of a connection opens the account that the connection names, however the
\* requests of a process overlap and replace each other's stripe.api_key: a row that an
\* overtaken request has written is the only exception, and that until it gets another.
THEOREM CredentialFitsRowAlways == Spec => []CredentialFitsRow
<1>1. Init => CredentialInv
  BY DEF Init, CredentialInv, RequestsFit, Fits, CredentialFitsRow, Rows, Present,
         Unused, NoRequest
<1>2. ShapeInv /\ CredentialInv /\ [Next]_vars => CredentialInv'
  BY CredentialStep
<1>3. CredentialInv => CredentialFitsRow
  BY DEF CredentialInv
<1>. QED
  BY <1>1, <1>2, <1>3, ShapeInit, ShapeStep, PTL DEF Spec
-----------------------------------------------------------------------------
(* Whose a connection is.  An approval is for the organization of its       *)
(* state, and a state keeps its organization from the day it is issued.     *)

Agreed == consented \cup swapped

\* What was done before a request could get where it is.
Backed(t) ==
    /\ req[t].at \in {"state", "consume", "exchange"} =>
         req[t].code \in approved /\ stateIs[req[t].state] # "unused"
    /\ req[t].at \in {"consume", "exchange"} => req[t].org = stateOrg[req[t].state]
    /\ req[t].at \in {"identify", "find", "write"} =>
         <<req[t].org, Owner(req[t].access)>> \in Agreed

RequestsBacked == \A t \in Threads : Backed(t)

ApprovalsAreConsents ==
    \A s \in States, a \in Accounts :
       <<s, a>> \in approved => stateIs[s] # "unused" /\ <<stateOrg[s], a>> \in consented

ConsentInv == RequestsBacked /\ ApprovalsAreConsents /\ RowIsConsented

\* Nothing is taken back.
Remembered ==
    /\ approved \subseteq approved'
    /\ consented \subseteq consented'
    /\ swapped \subseteq swapped'
    /\ \A s \in States : stateIs[s] # "unused" =>
         stateIs'[s] # "unused" /\ stateOrg'[s] = stateOrg[s]

LEMMA RememberedStep ==
    ASSUME ShapeInv, [Next]_vars
    PROVE  Remembered
<1>. USE DEF ShapeInv, TypeOK
<1>1. ASSUME NEW s \in States, Expire(s) PROVE Remembered
  BY <1>1 DEF Expire, stripe, intent, Remembered
<1>2. ASSUME NEW s \in States, NEW o \in Orgs, InitFlow(s, o) PROVE Remembered
  BY <1>2 DEF InitFlow, stripe, intent, Remembered
<1>3. ASSUME NEW s \in States, NEW a \in Accounts, Approve(s, a) PROVE Remembered
  BY <1>3 DEF Approve, flow, Remembered
<1>4. ASSUME NEW t \in Threads, NEW o \in Orgs, NEW k \in Keys, ReceiveKey(t, o, k)
      PROVE  Remembered
  BY <1>4 DEF ReceiveKey, flow, stripe, Remembered
<1>5. ASSUME NEW t \in Threads, ConsumeState(t) PROVE Remembered
  BY <1>5 DEF ConsumeState, stripe, intent, Remembered
<1>6. ASSUME NEW t \in Threads, Exchange(t) PROVE Remembered
  BY <1>6 DEF Exchange, flow, Remembered
<1>7. \/ UNCHANGED <<flow, approved, intent>>
      \/ \E s \in States : Expire(s) \/ \E o \in Orgs : InitFlow(s, o)
      \/ \E s \in States, a \in Accounts : Approve(s, a)
      \/ \E t \in Threads, o \in Orgs, k \in Keys : ReceiveKey(t, o, k)
      \/ \E t \in Threads : ConsumeState(t) \/ Exchange(t)
  BY DEF Next, RequestStep, ReceiveCallback, ReceiveDisconnect, FindState,
         Identify, FindConnection, WriteConnection, Deauthorize, DeleteConnection,
         SyncSetsKey, Fail, vars, stripe
<1>. QED
  BY <1>1, <1>2, <1>3, <1>4, <1>5, <1>6, <1>7 DEF Remembered, flow, intent

LEMMA ApprovalsStep ==
    ASSUME ShapeInv, ApprovalsAreConsents, [Next]_vars
    PROVE  ApprovalsAreConsents'
<1>1. Remembered
  BY RememberedStep
<1>2. CASE UNCHANGED approved
  BY <1>1, <1>2 DEF ApprovalsAreConsents, Remembered
<1>3. ASSUME NEW s \in States, NEW a \in Accounts, Approve(s, a)
      PROVE  ApprovalsAreConsents'
  BY <1>1, <1>3 DEF Approve, flow, ApprovalsAreConsents
<1>4. \/ UNCHANGED approved
      \/ \E s \in States, a \in Accounts : Approve(s, a)
  BY DEF Next, RequestStep, Expire, InitFlow, ReceiveCallback, ReceiveKey,
         ReceiveDisconnect, FindState, ConsumeState, Exchange, Identify, FindConnection,
         WriteConnection, Deauthorize, DeleteConnection, SyncSetsKey, Fail, vars, stripe
<1>. QED
  BY <1>2, <1>3, <1>4

LEMMA OthersBacked ==
    ASSUME ShapeInv, RequestsBacked, Remembered, NEW u \in Threads, req'[u] = req[u]
    PROVE  Backed(u)'
<1>1. Backed(u) /\ Complete(req[u])
  BY DEF RequestsBacked, ShapeInv, RequestsComplete
<1>. QED
  BY <1>1 DEF Backed, Complete, Remembered, Agreed

\* A request of a thread goes on having what it goes by.
LEMMA OwnBacked ==
    ASSUME ShapeInv, ConsentInv, Remembered, NEW t \in Threads, ThreadStep(t)
    PROVE  Backed(t)'
<1>0. Backed(t) /\ Complete(req[t]) /\ req[t] \in RequestType
  BY DEF RequestsBacked, ConsentInv, ShapeInv, TypeOK, RequestsComplete
<1>. USE DEF ShapeInv, TypeOK
<1>1. ASSUME NEW s \in States, NEW code \in approved, ReceiveCallback(t, s, code)
      PROVE  Backed(t)'
  BY <1>1 DEF ReceiveCallback, Receive, NoRequest, Backed, stripe, flow
<1>2. ASSUME NEW o \in Orgs, NEW k \in Keys, ReceiveKey(t, o, k) PROVE Backed(t)'
  <2>1. /\ req'[t].at = "identify" /\ req'[t].org = o /\ req'[t].access = k
        /\ Owner(k) = KeyAccount[k] /\ <<o, KeyAccount[k]>> \in consented'
    BY <1>2 DEF ReceiveKey, Receive, NoRequest, Owner
  <2>. QED
    BY <2>1 DEF Backed, Agreed
<1>3. ASSUME NEW c \in ConnIds, ReceiveDisconnect(t, c) PROVE Backed(t)'
  BY <1>3 DEF ReceiveDisconnect, Receive, NoRequest, Backed
<1>4. CASE FindState(t)
  <2>1. CASE End(t)
    BY <2>1 DEF End, NoRequest, Backed
  <2>2. CASE req' = [req EXCEPT ![t].at = "consume", ![t].org = stateOrg[req[t].state]]
    <3>1. /\ req'[t].at = "consume" /\ req'[t].org = stateOrg[req[t].state]
          /\ req'[t].state = req[t].state /\ req'[t].code = req[t].code
      BY <1>0, <2>2 DEF RequestType
    <3>2. UNCHANGED <<approved, stateOrg, stateIs>> /\ req[t].at = "state"
      BY <1>4 DEF FindState, stripe, flow
    <3>. QED
      BY <1>0, <3>1, <3>2 DEF Backed
  <2>. QED
    BY <1>4, <2>1, <2>2 DEF FindState
<1>5. CASE ConsumeState(t)
  <2>1. CASE End(t)
    BY <2>1 DEF End, NoRequest, Backed
  <2>2. CASE req' = [req EXCEPT ![t].at = "exchange"]
    <3>1. /\ req'[t].at = "exchange" /\ req'[t].org = req[t].org
          /\ req'[t].state = req[t].state /\ req'[t].code = req[t].code
      BY <1>0, <2>2 DEF RequestType
    <3>2. /\ UNCHANGED <<approved, stateOrg>> /\ req[t].at = "consume"
          /\ stateIs'[req[t].state] # "unused"
      BY <1>0, <1>5 DEF ConsumeState, stripe, Complete
    <3>. QED
      BY <1>0, <3>1, <3>2 DEF Backed
  <2>. QED
    BY <1>5, <2>1, <2>2 DEF ConsumeState
<1>6. CASE Exchange(t)
  <2>. DEFINE code == req[t].code
  <2>1. CASE End(t)
    BY <2>1 DEF End, NoRequest, Backed
  <2>2. CASE ~End(t)
    <3>1. /\ req'[t].at = "find" /\ req'[t].org = req[t].org /\ req'[t].access = code[2]
      BY <1>6, <2>2 DEF Exchange, NoRequest
    <3>2. /\ code \in approved /\ code = <<code[1], code[2]>>
          /\ code[1] \in States /\ code[2] \in Accounts
          /\ req[t].org = stateOrg[req[t].state]
      BY <1>0, <1>6 DEF Exchange, Complete, Backed
    <3>3. Owner(code[2]) = code[2]
      BY <3>2, ConnectAssumption DEF Owner
    <3>4. <<req[t].org, code[2]>> \in consented' \cup swapped'
      <4>1. CASE code[1] = req[t].state
        BY <3>2, <4>1 DEF ConsentInv, ApprovalsAreConsents, Remembered
      <4>2. CASE code[1] # req[t].state
        BY <1>6, <2>2, <4>2 DEF Exchange
      <4>. QED
        BY <4>1, <4>2
    <3>. QED
      BY <3>1, <3>3, <3>4 DEF Backed, Agreed
  <2>. QED
    BY <2>1, <2>2
<1>7. CASE Identify(t) \/ FindConnection(t)
  <2>1. CASE End(t)
    BY <2>1 DEF End, NoRequest, Backed
  <2>2. CASE ~End(t)
    <3>1. /\ req'[t].at \in {"find", "write"}
          /\ req'[t].org = req[t].org /\ req'[t].access = req[t].access
      <4>1. CASE Identify(t)
        BY <1>0, <2>2, <4>1 DEF Identify, RequestType
      <4>2. CASE req' = [req EXCEPT ![t].at = "write"]
        BY <1>0, <4>2 DEF RequestType
      <4>3. ASSUME NEW c \in Rows, Remember(t, c)
            PROVE  /\ req'[t].at = "write"
                   /\ req'[t].org = req[t].org /\ req'[t].access = req[t].access
        BY <1>0, <4>3 DEF Remember, RequestType
      <4>. QED
        BY <1>7, <4>1, <4>2, <4>3 DEF FindConnection
    <3>2. <<req[t].org, Owner(req[t].access)>> \in Agreed
      BY <1>0, <1>7 DEF Identify, FindConnection, Backed
    <3>. QED
      BY <3>1, <3>2 DEF Backed, Agreed, Remembered
  <2>. QED
    BY <2>1, <2>2
<1>8. CASE WriteConnection(t) \/ DeleteConnection(t) \/ Fail(t)
  BY <1>8 DEF WriteConnection, DeleteConnection, Fail, End, NoRequest, Backed
<1>9. CASE Deauthorize(t)
  BY <1>0, <1>9 DEF Deauthorize, Backed, RequestType
<1>. QED
  BY <1>1, <1>2, <1>3, <1>4, <1>5, <1>6, <1>7, <1>8, <1>9 DEF ThreadStep, RequestStep

LEMMA RowsConsented ==
    ASSUME ShapeInv, RequestsFit, ConsentInv, [Next]_vars
    PROVE  RowIsConsented'
<1>. SUFFICES ASSUME NEW c \in ConnIds, conns'[c].is = "row"
              PROVE  <<conns'[c].org, Owner(conns'[c].access)>> \in (consented \cup swapped)'
  BY DEF RowIsConsented, Rows, Present
<1>1. RowsKept /\ Remembered
  BY RowsKeptStep, RememberedStep
<1>2. CASE conns'[c].access = conns[c].access
  <2>1. conns'[c].access # None
    BY ShapeStep, ConnectAssumption DEF ShapeInv, TypeOK, RowType, Unused, Deleted, Credentials
  <2>2. conns[c].is = "row"
    BY <1>2, <2>1 DEF ShapeInv, TypeOK, RowType, Unused, Deleted
  <2>3. conns'[c].org = conns[c].org
    BY <1>1, <2>2 DEF RowsKept
  <2>. QED
    BY <1>1, <1>2, <2>2, <2>3 DEF ConsentInv, RowIsConsented, Rows, Present, Remembered
<1>3. CASE conns'[c].access # conns[c].access
  <2>1. PICK t \in Threads : WriteConnection(t)
    BY <1>3, WhoWritesRows, DeleteCase DEF Deleted, Unused, ShapeInv, TypeOK
  <2>2. conns'[c].access = req[t].access /\ conns'[c].org = req[t].org
    BY <1>3, <2>1, WrittenIs
  <2>3. <<req[t].org, Owner(req[t].access)>> \in consented \cup swapped
    BY <2>1 DEF WriteConnection, ConsentInv, RequestsBacked, Backed, Agreed
  <2>. QED
    BY <1>1, <2>2, <2>3 DEF Remembered
<1>. QED
  BY <1>2, <1>3

LEMMA ConsentStep ==
    ASSUME ShapeInv, RequestsFit, ConsentInv, [Next]_vars
    PROVE  ConsentInv'
<1>1. Remembered /\ ApprovalsAreConsents' /\ RowIsConsented'
  BY RememberedStep, ApprovalsStep, RowsConsented DEF ConsentInv
<1>2. RequestsBacked'
  <2>1. CASE OutsideStep \/ UNCHANGED vars
    <3>1. UNCHANGED req
      BY <2>1 DEF OutsideStep, Expire, InitFlow, Approve, SyncSetsKey, vars
    <3>. QED
      BY <1>1, <3>1, OthersBacked DEF RequestsBacked, ConsentInv
  <2>2. ASSUME NEW t \in Threads, ThreadStep(t) PROVE RequestsBacked'
    BY <1>1, <2>2, ThreadsApart, OwnBacked, OthersBacked DEF RequestsBacked, ConsentInv
  <2>. QED
    BY <2>1, <2>2, NextIs
<1>. QED
  BY <1>1, <1>2 DEF ConsentInv

\* An organization holds the credential of an account only if somebody connected that
\* account for it, or took the code of one page of Stripe's to the state of another:
\* however often the redirect comes, and whatever overlaps in a process.
THEOREM RowIsConsentedAlways == Spec => []RowIsConsented
<1>1. Init => CredentialInv /\ ConsentInv
  BY DEF Init, CredentialInv, RequestsFit, Fits, CredentialFitsRow, ConsentInv,
         RequestsBacked, Backed, ApprovalsAreConsents, RowIsConsented, Rows, Present,
         Unused, NoRequest
<1>2. /\ ShapeInv /\ CredentialInv /\ ConsentInv /\ [Next]_vars
        => CredentialInv' /\ ConsentInv'
  BY CredentialStep, ConsentStep DEF CredentialInv
<1>3. ConsentInv => RowIsConsented
  BY DEF ConsentInv
<1>. QED
  BY <1>1, <1>2, <1>3, ShapeInit, ShapeStep, PTL DEF Spec

-----------------------------------------------------------------------------
(* TokenCrypto: the credentials at rest.                                   *)

Values == [token : Nat, seals : Seq(FernetKeys)]

CryptoTypeOK ==
    /\ stored \in [TokenRows -> Values]
    /\ configured \in FernetKeys
    /\ key \in [Procs -> FernetKeys \cup {Old}]
    /\ migration \in [at : {"pending", "running", "done"}, key : FernetKeys \cup {Old},
                      rows : [TokenRows -> Values], updated : SUBSET TokenRows]
    /\ token \in [TokenRows -> Nat]
    /\ sealers \in [TokenRows -> SUBSET FernetKeys]
    /\ raced \in SUBSET TokenRows /\ late \in SUBSET TokenRows

\* A row holds its credential under no key, under the one key used on it, or was sealed
\* by two keys, and then no process reads it back.
Sound(r) ==
    /\ stored[r].token = token[r]
    /\ \/ stored[r].seals = <<>> /\ sealers[r] = {}
       \/ \E k \in FernetKeys : stored[r].seals = <<k>> /\ sealers[r] = {k}
       \/ \E k, l \in sealers[r] : k # l

RowsSound == \A r \in TokenRows : (migration.at = "done" /\ r \in raced) \/ Sound(r)

\* What a running migration holds: the rows as they still are, but for those written
\* since, and in plaintext each row that is so now.
MigrationGrounded ==
    /\ migration.at = "running" =>
         /\ migration.key \in FernetKeys
         /\ \A r \in TokenRows :
              /\ r \in migration.updated => Rewrites(r)
              /\ Rewrites(r) /\ r \notin raced => migration.rows[r] = stored[r]
              /\ stored[r].seals = <<>> => r \in late \/ migration.rows[r].seals = <<>>
    /\ SealedAfterMigration

CryptoInv == CryptoTypeOK /\ RowsSound /\ MigrationGrounded

\* Reading through a row's one seal, or through none, gives the credential.
LEMMA SoundReads ==
    ASSUME CryptoTypeOK, NEW r \in TokenRows, NEW p \in Procs,
           Sound(r), sealers[r] \subseteq {key[p]}
    PROVE  Decrypt(key[p], stored[r]) = Plain(token[r])
<1>1. stored[r] \in Values
  BY DEF CryptoTypeOK
<1>2. stored[r] = [token |-> token[r], seals |-> stored[r].seals]
  BY <1>1 DEF Sound, Values
<1>3. CASE stored[r].seals = <<>>
  BY <1>2, <1>3 DEF Decrypt, IsEncrypted, Plain
<1>4. CASE \E k \in FernetKeys : stored[r].seals = <<k>> /\ sealers[r] = {k}
  <2>1. stored[r].seals = <<key[p]>>
    BY <1>4
  <2>2. Len(<<key[p]>>) = 1 /\ <<key[p]>>[1] = key[p]
    OBVIOUS
  <2>3. SubSeq(<<key[p]>>, 1, 0) = <<>>
    OBVIOUS
  <2>4. IsEncrypted(key[p], stored[r])
    BY <2>1, <2>2 DEF IsEncrypted
  <2> QED
    BY <1>2, <2>1, <2>2, <2>3, <2>4 DEF Decrypt, Plain
<1> QED
  BY <1>3, <1>4 DEF Sound

LEMMA InvReads == CryptoInv => ReadsBack
<1> SUFFICES ASSUME CryptoInv, NEW p \in Procs, NEW r \in TokenRows,
                    r \notin raced, sealers[r] \subseteq {key[p]}
             PROVE  Decrypt(key[p], stored[r]) = Plain(token[r])
  BY DEF ReadsBack
<1>1. Sound(r)
  BY DEF CryptoInv, RowsSound
<1> QED
  BY <1>1, SoundReads DEF CryptoInv

LEMMA ValuesAre ==
    ASSUME NEW n \in Nat, NEW s \in Seq(FernetKeys)
    PROVE  [token |-> n, seals |-> s] \in Values
  BY DEF Values

\* What sealing does to a value.
LEMMA Seals ==
    ASSUME NEW k \in FernetKeys, NEW v \in Values
    PROVE  /\ Encrypt(k, v) = [token |-> v.token, seals |-> Append(v.seals, k)]
           /\ Encrypt(k, v) \in Values
           /\ Append(v.seals, k) # <<>>
           /\ v.seals = <<>> => Append(v.seals, k) = <<k>>
<1>1. v = [token |-> v.token, seals |-> v.seals] /\ v.seals \in Seq(FernetKeys) /\ k # Old
  BY CryptoAssumption DEF Values
<1>2. Encrypt(k, v) = [token |-> v.token, seals |-> Append(v.seals, k)]
  BY <1>1 DEF Encrypt
<1>3. Append(v.seals, k) \in Seq(FernetKeys) /\ Len(Append(v.seals, k)) = Len(v.seals) + 1
  BY <1>1
<1>4. Len(v.seals) \in Nat /\ Len(<<>>) = 0
  BY <1>1
<1>5. Append(v.seals, k) # <<>>
  BY <1>3, <1>4
<1>6. v.seals = <<>> => Append(v.seals, k) = <<k>>
  OBVIOUS
<1>7. Encrypt(k, v) \in Values
  <2>1. v.token \in Nat
    BY DEF Values
  <2> QED
    BY <1>2, <1>3, <2>1, ValuesAre
<1> QED
  BY <1>2, <1>5, <1>6, <1>7

\* What the provers need to know of no seal and of one.
LEMMA FewSeals ==
    /\ <<>> \in Seq(FernetKeys)
    /\ \A k \in FernetKeys :
         <<k>> \in Seq(FernetKeys) /\ <<k>> # <<>> /\ Len(<<k>>) = 1 /\ <<k>>[1] = k
<1>1. <<>> \in Seq(FernetKeys)
  OBVIOUS
<1>2. ASSUME NEW k \in FernetKeys PROVE <<k>> \in Seq(FernetKeys)
  OBVIOUS
<1>3. ASSUME NEW k \in FernetKeys PROVE Len(<<k>>) = 1 /\ <<k>>[1] = k
  OBVIOUS
<1>4. Len(<<>>) = 0
  OBVIOUS
<1> QED
  BY <1>1, <1>2, <1>3, <1>4

LEMMA SealsPlain ==
    ASSUME NEW k \in FernetKeys \cup {Old}, NEW n \in Nat
    PROVE  /\ k = Old => Encrypt(k, Plain(n)) = [token |-> n, seals |-> <<>>]
           /\ k # Old => Encrypt(k, Plain(n)) = [token |-> n, seals |-> <<k>>]
  BY DEF Encrypt, Plain

-----------------------------------------------------------------------------

LEMMA InitSound == CryptoInit => CryptoInv
<1> SUFFICES ASSUME CryptoInit PROVE CryptoInv
  OBVIOUS
<1>1. \A r \in TokenRows : stored[r] = [token |-> 0, seals |-> <<>>]
  BY DEF CryptoInit, Plain
<1>2. CryptoTypeOK
  BY DEF CryptoInit, CryptoTypeOK, NoMigration, Plain, Values
<1>3. RowsSound
  BY <1>1 DEF CryptoInit, RowsSound, Sound
<1>4. MigrationGrounded
  BY DEF CryptoInit, NoMigration, MigrationGrounded, SealedAfterMigration
<1> QED
  BY <1>2, <1>3, <1>4 DEF CryptoInv

\* A credential stored by a process of this release is under its key; one stored by the
\* release before is late, once a migration has begun.
LEMMA WriteStep ==
    ASSUME CryptoInv, NEW p \in Procs, NEW r \in TokenRows, Write(p, r)
    PROVE  CryptoInv'
<1> USE DEF CryptoInv
<1> DEFINE v == Encrypt(key[p], Plain(token[r] + 1))
<1>1. key[p] \in FernetKeys \cup {Old} /\ token[r] + 1 \in Nat
  BY DEF CryptoTypeOK
<1>2. /\ key[p] = Old => v = [token |-> token[r] + 1, seals |-> <<>>]
      /\ key[p] # Old => v = [token |-> token[r] + 1, seals |-> <<key[p]>>]
  BY <1>1, SealsPlain
<1>3. v \in Values
  <2>1. CASE key[p] = Old
    BY <1>1, <1>2, <2>1, FewSeals, ValuesAre
  <2>2. CASE key[p] # Old
    <3>1. <<key[p]>> \in Seq(FernetKeys)
      BY <1>1, <2>2, FewSeals
    <3> QED
      BY <1>1, <1>2, <2>2, <3>1, ValuesAre
  <2> QED
    BY <2>1, <2>2
<1>4. stored' = [stored EXCEPT ![r] = v] /\ migration' = migration
  BY DEF Write
<1> HIDE DEF v
<1>5. CryptoTypeOK'
  BY <1>1, <1>3, <1>4 DEF Write, CryptoTypeOK
<1>6. RowsSound'
  <2> SUFFICES ASSUME NEW s \in TokenRows, ~(migration.at = "done" /\ s \in raced')
               PROVE  Sound(s)'
    BY <1>4 DEF RowsSound
  <2>1. CASE s = r
    <3>1. stored'[s] = v /\ token'[s] = token[r] + 1 /\ sealers'[s] = {key[p]} \ {Old}
      BY <1>4, <2>1 DEF Write, CryptoTypeOK
    <3> QED
      BY <1>1, <1>2, <3>1 DEF Sound
  <2>2. CASE s # r
    <3>1. stored'[s] = stored[s] /\ token'[s] = token[s] /\ sealers'[s] = sealers[s]
      BY <1>4, <2>2 DEF Write, CryptoTypeOK
    <3>2. s \in raced' <=> s \in raced
      BY <2>2 DEF Write
    <3>3. Sound(s)
      BY <3>2 DEF RowsSound
    <3> QED
      BY <3>1, <3>3 DEF Sound
  <2> QED
    BY <2>1, <2>2
<1>7. ASSUME NEW s \in TokenRows, s # r
      PROVE  /\ stored'[s] = stored[s]
             /\ s \in raced' <=> s \in raced
             /\ s \in late' <=> s \in late
  BY <1>4, <1>7 DEF Write, CryptoTypeOK
<1>8. stored'[r] = v
  BY <1>4 DEF CryptoTypeOK
<1>9. ASSUME stored'[r].seals = <<>>, migration.at # "pending" PROVE r \in late'
  <2>1. key[p] = Old
    <3> SUFFICES ASSUME key[p] # Old PROVE FALSE
      OBVIOUS
    <3>1. stored'[r].seals = <<key[p]>>
      BY <1>2, <1>8
    <3> QED
      BY <1>1, <1>9, <3>1, FewSeals
  <2> QED
    BY <2>1, <1>9 DEF Write
<1>10. MigrationGrounded'
  <2>1. ASSUME migration.at = "running", NEW s \in TokenRows
        PROVE  /\ s \in migration.updated => Rewrites(s)'
               /\ Rewrites(s)' /\ s \notin raced' => migration.rows[s] = stored'[s]
               /\ stored'[s].seals = <<>> => s \in late' \/ migration.rows[s].seals = <<>>
    <3>1. Rewrites(s)' <=> Rewrites(s)
      BY <1>4 DEF Rewrites
    <3>2. CASE s = r
      <4>1. Rewrites(r) => r \in raced'
        BY DEF Write
      <4> QED
        BY <2>1, <3>1, <3>2, <4>1, <1>9 DEF MigrationGrounded
    <3>3. CASE s # r
      BY <2>1, <3>1, <3>3, <1>7 DEF MigrationGrounded
    <3> QED
      BY <3>2, <3>3
  <2>2. SealedAfterMigration'
    BY <1>4, <1>7, <1>9 DEF MigrationGrounded, SealedAfterMigration
  <2> QED
    BY <1>4, <2>1, <2>2 DEF MigrationGrounded
<1> QED
  BY <1>5, <1>6, <1>10

\* The rows keep their values; the migration reads them, or a process comes back.
LEMMA QuietStep ==
    ASSUME CryptoInv,
           \/ \E p \in Procs : Restart(p)
           \/ \E k \in FernetKeys : Reconfigure(k)
           \/ MigrationReads
           \/ \E r \in TokenRows : MigrationUpdates(r)
           \/ MigrationDies
           \/ UNCHANGED cryptoVars
    PROVE  CryptoInv'
<1> USE DEF CryptoInv
<1>1. ASSUME NEW p \in Procs, Restart(p) PROVE CryptoInv'
  <2>1. CryptoTypeOK'
    BY <1>1 DEF Restart, history, CryptoTypeOK
  <2> QED
    BY <1>1, <2>1 DEF Restart, history, RowsSound, Sound, MigrationGrounded,
                      SealedAfterMigration, Rewrites, NeedsSealing, IsEncrypted
<1>2. ASSUME NEW k \in FernetKeys, Reconfigure(k) PROVE CryptoInv'
  <2>1. CryptoTypeOK'
    BY <1>2 DEF Reconfigure, history, CryptoTypeOK
  <2> QED
    BY <1>2, <2>1 DEF Reconfigure, history, RowsSound, Sound, MigrationGrounded,
                      SealedAfterMigration, Rewrites, NeedsSealing, IsEncrypted
<1>3. ASSUME MigrationReads PROVE CryptoInv'
  <2>1. CryptoTypeOK'
    BY <1>3 DEF MigrationReads, history, CryptoTypeOK
  <2>2. migration' = [at |-> "running", key |-> configured, rows |-> stored, updated |-> {}]
    BY <1>3 DEF MigrationReads
  <2>3. RowsSound'
    BY <1>3 DEF MigrationReads, history, RowsSound, Sound
  <2>4. MigrationGrounded'
    BY <1>3, <2>2 DEF MigrationReads, history, MigrationGrounded, SealedAfterMigration, CryptoTypeOK
  <2> QED
    BY <2>1, <2>3, <2>4
<1>4. ASSUME NEW r \in TokenRows, MigrationUpdates(r) PROVE CryptoInv'
  <2>1. CryptoTypeOK'
    BY <1>4 DEF MigrationUpdates, history, CryptoTypeOK
  <2>2. /\ migration.at = "running" /\ migration'.at = "running"
        /\ migration'.key = migration.key /\ migration'.rows = migration.rows
        /\ migration'.updated = migration.updated \cup {r}
    BY <1>4 DEF MigrationUpdates, Rewrites, CryptoTypeOK
  <2>3. RowsSound'
    BY <1>4, <2>2 DEF MigrationUpdates, history, RowsSound, Sound
  <2>4. \A s \in TokenRows : Rewrites(s)' <=> Rewrites(s)
    BY <2>2 DEF Rewrites
  <2>5. Rewrites(r) /\ UNCHANGED <<stored, raced, late>>
    BY <1>4 DEF MigrationUpdates, history
  <2>6. MigrationGrounded'
    BY <2>2, <2>4, <2>5 DEF MigrationGrounded, SealedAfterMigration
  <2> QED
    BY <2>1, <2>3, <2>6
<1>5. ASSUME MigrationDies PROVE CryptoInv'
  <2>1. CryptoTypeOK'
    BY <1>5 DEF MigrationDies, CryptoTypeOK
  <2>2. migration.at = "running" /\ migration'.at = "pending"
    BY <1>5 DEF MigrationDies, CryptoTypeOK
  <2>3. RowsSound'
    BY <1>5, <2>2 DEF MigrationDies, RowsSound, Sound
  <2>4. MigrationGrounded'
    BY <2>2 DEF MigrationGrounded, SealedAfterMigration
  <2> QED
    BY <2>1, <2>3, <2>4
<1>6. CASE UNCHANGED cryptoVars
  <2>1. CryptoTypeOK'
    BY <1>6 DEF cryptoVars, history, CryptoTypeOK
  <2> QED
    BY <1>6, <2>1 DEF cryptoVars, history, RowsSound, Sound, MigrationGrounded,
                      SealedAfterMigration, Rewrites, NeedsSealing, IsEncrypted
<1> QED
  BY <1>1, <1>2, <1>3, <1>4, <1>5, <1>6

\* A row the migration writes back is the row as it is, with one more seal, unless it
\* raced; a row it passes over is sealed, or was written late.
LEMMA CommitStep ==
    ASSUME CryptoInv, MigrationCommits
    PROVE  CryptoInv'
<1> USE DEF CryptoInv
<1> DEFINE k == migration.key
<1>1. /\ migration.at = "running" /\ k \in FernetKeys /\ migration'.at = "done"
      /\ UNCHANGED <<configured, key, events, token, raced, late>>
      /\ \A r \in TokenRows : Rewrites(r) <=> r \in migration.updated
  BY DEF MigrationCommits, MigrationGrounded, CryptoTypeOK
<1>2. \A r \in migration.updated :
        r \in TokenRows /\ migration.rows[r] \in Values
  BY DEF CryptoTypeOK
<1>3. ASSUME NEW r \in migration.updated
      PROVE  /\ stored'[r] = [token |-> migration.rows[r].token,
                              seals |-> Append(migration.rows[r].seals, k)]
             /\ stored'[r] \in Values /\ stored'[r].seals # <<>>
             /\ sealers'[r] = sealers[r] \cup {k}
  <2>1. stored'[r] = Encrypt(k, migration.rows[r]) /\ sealers'[r] = sealers[r] \cup {k}
    BY <1>2 DEF MigrationCommits
  <2> QED
    <3> DEFINE w == migration.rows[r]
    <3>1. k \in FernetKeys /\ w \in Values
      BY <1>1, <1>2
    <3>2. stored'[r] = Encrypt(k, w) /\ sealers'[r] = sealers[r] \cup {k}
      BY <2>1
    <3> HIDE DEF w, k
    <3>3. /\ Encrypt(k, w) = [token |-> w.token, seals |-> Append(w.seals, k)]
          /\ Encrypt(k, w) \in Values /\ Append(w.seals, k) # <<>>
      BY <3>1, Seals
    <3>4. /\ stored'[r] = [token |-> w.token, seals |-> Append(w.seals, k)]
          /\ stored'[r] \in Values /\ stored'[r].seals # <<>>
      BY <3>2, <3>3
    <3> QED
      BY <3>2, <3>4 DEF w
<1>4. ASSUME NEW r \in TokenRows \ migration.updated
      PROVE  stored'[r] = stored[r] /\ sealers'[r] = sealers[r]
  <2>1. stored'[r] = stored[r] /\ sealers'[r] = sealers[r] \cup {}
    BY <1>4 DEF MigrationCommits
  <2> QED
    BY <2>1
<1>5. CryptoTypeOK'
  <2>1. /\ DOMAIN stored' = TokenRows /\ stored' = [r \in DOMAIN stored' |-> stored'[r]]
        /\ DOMAIN sealers' = TokenRows /\ sealers' = [r \in DOMAIN sealers' |-> sealers'[r]]
    BY DEF MigrationCommits
  <2>2. \A r \in TokenRows : stored'[r] \in Values
    BY <1>3, <1>4 DEF CryptoTypeOK
  <2>3. ASSUME NEW r \in TokenRows PROVE sealers'[r] \in SUBSET FernetKeys
    <3>1. sealers[r] \in SUBSET FernetKeys
      BY DEF CryptoTypeOK
    <3> HIDE DEF k
    <3>2. CASE r \in migration.updated
      <4>1. sealers'[r] = sealers[r] \cup {k}
        BY <1>3, <3>2
      <4> QED
        BY <1>1, <3>1, <4>1
    <3>3. CASE r \notin migration.updated
      BY <1>4, <3>1, <3>3
    <3> QED
      BY <3>2, <3>3
  <2>4. stored' \in [TokenRows -> Values] /\ sealers' \in [TokenRows -> SUBSET FernetKeys]
    BY <2>1, <2>2, <2>3
  <2>5. migration' = [migration EXCEPT !.at = "done", !.updated = {}]
    BY DEF MigrationCommits
  <2> QED
    BY <1>1, <2>4, <2>5 DEF CryptoTypeOK
<1>6. RowsSound'
  <2> SUFFICES ASSUME NEW r \in TokenRows, r \notin raced PROVE Sound(r)'
    BY <1>1 DEF RowsSound
  <2>1. Sound(r)
    BY DEF RowsSound
  <2>2. CASE r \in migration.updated
    <3>1. migration.rows[r] = stored[r] /\ NeedsSealing(k, stored[r])
      BY <1>1, <2>2 DEF MigrationGrounded, Rewrites
    <3> HIDE DEF k
    <3>2. stored[r] \in Values
      BY DEF CryptoTypeOK
    <3>3. stored'[r].token = token'[r]
      <4>1. stored'[r] = [token |-> stored[r].token, seals |-> Append(stored[r].seals, k)]
        BY <1>3, <2>2, <3>1
      <4> QED
        BY <1>1, <2>1, <4>1 DEF Sound
    <3>4. CASE stored[r].seals = <<>> /\ sealers[r] = {}
      <4>1. stored'[r].seals = <<k>> /\ sealers'[r] = {k}
        <5>1. Append(stored[r].seals, k) = <<k>>
          BY <1>1, <3>2, <3>4, Seals
        <5>2. /\ stored'[r] = [token |-> stored[r].token, seals |-> Append(stored[r].seals, k)]
              /\ sealers'[r] = sealers[r] \cup {k}
          BY <1>3, <2>2, <3>1
        <5> QED
          BY <3>4, <5>1, <5>2
      <4> QED
        BY <1>1, <3>3, <4>1 DEF Sound
    <3>5. ASSUME NEW l \in FernetKeys, stored[r].seals = <<l>>, sealers[r] = {l} PROVE Sound(r)'
      <4>1. Len(<<l>>) = 1 /\ <<l>>[1] = l /\ <<l>> # <<>>
        BY FewSeals
      <4>2. l # k
        BY <3>1, <3>5, <4>1 DEF NeedsSealing, IsEncrypted
      <4>3. sealers'[r] = {l, k}
        BY <1>3, <2>2, <3>5
      <4> QED
        BY <3>3, <4>2, <4>3 DEF Sound
    <3>6. CASE \E l, m \in sealers[r] : l # m
      BY <1>3, <2>2, <3>3, <3>6 DEF Sound
    <3> QED
      BY <2>1, <3>4, <3>5, <3>6 DEF Sound
  <2>3. CASE r \notin migration.updated
    BY <1>1, <1>4, <2>1, <2>3 DEF Sound
  <2> QED
    BY <2>2, <2>3
<1>7. MigrationGrounded'
  <2> SUFFICES ASSUME NEW r \in TokenRows, stored'[r].seals = <<>> PROVE r \in late
    BY <1>1 DEF MigrationGrounded, SealedAfterMigration
  <2>1. r \notin migration.updated
    BY <1>3
  <2>2. ~Rewrites(r) /\ stored[r].seals = <<>>
    BY <1>1, <1>4, <2>1
  <2>3. migration.rows[r].seals # <<>>
    BY <1>1, <2>2 DEF Rewrites, NeedsSealing, IsEncrypted
  <2> QED
    BY <1>1, <2>2, <2>3 DEF MigrationGrounded
<1> QED
  BY <1>5, <1>6, <1>7

LEMMA CryptoInvHolds == CryptoSpec => []CryptoInv
<1>1. CryptoInv /\ [CryptoNext]_cryptoVars => CryptoInv'
  BY WriteStep, QuietStep, CommitStep DEF CryptoNext
<1> QED
  BY <1>1, InitSound, PTL DEF CryptoSpec

\* Credentials survive: through a mixed release, an attempt of the migration that dies
\* and its repetition, what a process reads is what was last stored, unless another key
\* was used on the row or the row was written under the eyes of the migration.
THEOREM ReadsBackAlways == CryptoSpec => []ReadsBack
  BY InvReads, CryptoInvHolds, PTL

\* Once the migration is through, plaintext is only what the release before wrote after
\* the migration had read the table.
THEOREM SealedAfterMigrationAlways == CryptoSpec => []SealedAfterMigration
<1>1. CryptoInv => SealedAfterMigration
  BY DEF CryptoInv, MigrationGrounded
<1> QED
  BY <1>1, CryptoInvHolds, PTL
=============================================================================
