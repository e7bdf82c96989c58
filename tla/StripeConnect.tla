---------------------------- MODULE StripeConnect ----------------------------
(***************************************************************************)
(* Connecting a Stripe account, by OAuth or with a restricted key, and     *)
(* disconnecting it: POST /connections/stripe/connect, the OAuth callback, *)
(* POST /connections/stripe/api-key, DELETE /connections/{id}.             *)
(*                                                                         *)
(* StripeSync takes each of these as one step; here their requests run     *)
(* side by side, between one network call or commit and the next.          *)
(* stripe.api_key is one module global per process: the threads of a       *)
(* process share it, and so do the syncs that run in one of them.          *)
(*                                                                         *)
(* Abstractions.  An access token is the account it was issued for.  An    *)
(* authorization code is the state Stripe's page was opened with and the   *)
(* account that was authorized there.  Names, scopes and metadata of a     *)
(* connection are left out, and so is the lookup of the account's name,    *)
(* which changes nothing when it fails.                                    *)
(***************************************************************************)
EXTENDS Integers, FiniteSets

CONSTANTS
    Orgs,
    Accounts,           \* Stripe accounts, the platform's own among them
    PlatformAccount,
    Keys,               \* restricted keys
    KeyAccount,         \* KeyAccount[k]: the account key k was created in
    AccountRead,        \* the keys that may read their account
    States,             \* OAuth states (bound on the flows ever begun)
    Threads,            \* request threads of the API processes
    ProcessOf,          \* the process a thread lives in
    KeyedProcesses,     \* the processes that have STRIPE_SECRET_KEY, the platform's key
    MaxRequests,        \* bound on the requests ever received, and so on the rows
    None

Processes == {ProcessOf[t] : t \in Threads}
Credentials == Accounts \cup Keys
ConnIds == 1 .. MaxRequests

ASSUME ConnectAssumption ==
    /\ PlatformAccount \in Accounts
    /\ Accounts \cap Keys = {}
    /\ KeyAccount \in [Keys -> Accounts]
    /\ AccountRead \subseteq Keys
    /\ KeyedProcesses \subseteq Processes
    /\ None \notin Orgs \cup Credentials \cup States \cup ConnIds
    /\ MaxRequests \in Nat

VARIABLES
    stateOrg,           \* oauth_states.organization_id
    stateIs,            \* "unused", "live", "expired", or "used": the row is deleted
    approved,           \* codes Stripe has issued
    codes,              \* those of them not exchanged yet
    grants,             \* accounts that grant the platform access
    conns,              \* platform_connections
    apiKey,             \* stripe.api_key of each process
    req,                \* the request a thread works on
    overtaken,          \* history: threads whose key was replaced before they could use it
    tainted,            \* history: rows whose credential such a thread wrote
    consented,          \* history: <<o, a>>: somebody connected account a for org o
    swapped,            \* history: <<o, a>>: a code for a came back with a state of o that
                        \* belongs to another page of Stripe's
    received            \* requests received so far

stripe == <<approved, codes, grants>>
flow == <<stateOrg, stateIs>>
keyVars == <<apiKey, overtaken>>
intent == <<consented, swapped>>
vars == <<flow, stripe, conns, keyVars, req, tainted, intent, received>>

-----------------------------------------------------------------------------
(* Rows and requests.                                                      *)

\* An id without a row: not issued yet, or that of a row that was deleted.
Unused == [is |-> "unused", org |-> None, account |-> None, method |-> None, access |-> None]
Deleted == [Unused EXCEPT !.is = "deleted"]
Present(c) == conns[c].is = "row"
Rows == {c \in ConnIds : Present(c)}

\* account_id: for a key that may not read its account, an id made from the key.
AccountIds == Accounts \cup Keys

\* The account that a credential, or an account_id, stands for.
Owner(x) == IF x \in Keys THEN KeyAccount[x] ELSE x

NoRequest == [at |-> "idle", org |-> None, method |-> None, state |-> None, code |-> None,
              access |-> None, account |-> None, found |-> None, seen |-> None]

End(t) == req' = [req EXCEPT ![t] = NoRequest]

\* Its history ends with the request.
Forget(t) == overtaken' = overtaken \ {t}

Receive(t, r) ==
    /\ req[t].at = "idle"
    /\ received < MaxRequests
    /\ received' = received + 1
    /\ req' = [req EXCEPT ![t] = r]

SetKey(p, k) ==
    /\ apiKey' = [apiKey EXCEPT ![p] = k]
    /\ overtaken' = overtaken \cup
         {u \in Threads : ProcessOf[u] = p /\ req[u].at = "identify" /\ apiKey[p] # k}
KeyNow(t) == apiKey[ProcessOf[t]]
Keyed(t) == ProcessOf[t] \in KeyedProcesses

\* Fault: the account's connection is looked up, whatever its organization.
MatchesAnyOrganization(c, org, account) == conns[c].account = account

\* Fault: the organization's Stripe connection is looked up, whatever its account.
MatchesAnyAccount(c, org, account) == conns[c].org = org

Matches(c, org, account) == conns[c].org = org /\ conns[c].account = account

-----------------------------------------------------------------------------
(* The OAuth flow.                                                         *)

\* POST /connections/stripe/connect: a state for the caller's organization.
InitFlow(s, o) ==
    /\ stateIs[s] = "unused"
    /\ stateIs' = [stateIs EXCEPT ![s] = "live"]
    /\ stateOrg' = [stateOrg EXCEPT ![s] = o]
    /\ UNCHANGED <<stripe, conns, keyVars, req, tainted, intent, received>>

\* The user authorizes an account on Stripe's page, as often as the page is opened.
Approve(s, a) ==
    /\ stateIs[s] # "unused"
    /\ a # PlatformAccount
    /\ <<s, a>> \notin approved
    /\ approved' = approved \cup {<<s, a>>}
    /\ codes' = codes \cup {<<s, a>>}
    /\ consented' = consented \cup {<<stateOrg[s], a>>}
    /\ UNCHANGED <<flow, grants, conns, keyVars, req, tainted, swapped, received>>

\* Ten minutes pass.
Expire(s) ==
    /\ stateIs[s] = "live"
    /\ stateIs' = [stateIs EXCEPT ![s] = "expired"]
    /\ UNCHANGED <<stateOrg, stripe, conns, keyVars, req, tainted, intent, received>>

\* The callback takes a state and a code.  Stripe's redirect brings those of one page,
\* any number of times when it is reloaded; nothing ties the two together.
ReceiveCallback(t, s, code) ==
    /\ stateIs[s] # "unused" /\ code \in approved
    /\ Receive(t, [NoRequest EXCEPT !.at = "state", !.method = "oauth", !.state = s,
                                    !.code = code])
    /\ UNCHANGED <<flow, stripe, conns, keyVars, tainted, intent>>

\* handle_callback looks for an unexpired row of the state.
FindState(t) ==
    /\ req[t].at = "state"
    /\ IF stateIs[req[t].state] = "live"
       THEN req' = [req EXCEPT ![t].at = "consume", ![t].org = stateOrg[req[t].state]]
       ELSE End(t)
    /\ UNCHANGED <<flow, stripe, conns, keyVars, tainted, intent, received>>

\* The row is deleted, by this callback or by one that was faster; only then the
\* platform's key is looked for.
ConsumeState(t) ==
    /\ req[t].at = "consume"
    /\ stateIs' = [stateIs EXCEPT ![req[t].state] = "used"]
    /\ \/ Keyed(t) /\ SetKey(ProcessOf[t], PlatformAccount)
                   /\ req' = [req EXCEPT ![t].at = "exchange"]
       \/ ~Keyed(t) /\ End(t) /\ UNCHANGED keyVars
    /\ UNCHANGED <<stateOrg, stripe, conns, tainted, intent, received>>

\* stripe.OAuth.token gets the code alone: it is good once, for the platform's key.
Exchange(t) ==
    LET code == req[t].code IN
    /\ req[t].at = "exchange"
    /\ \/ /\ KeyNow(t) = PlatformAccount
          /\ code \in codes
          /\ codes' = codes \ {code}
          /\ grants' = grants \cup {code[2]}
          /\ swapped' = swapped \cup
               IF code[1] = req[t].state THEN {} ELSE {<<req[t].org, code[2]>>}
          /\ req' = [req EXCEPT ![t] = [NoRequest EXCEPT
                       !.at = "find", !.method = "oauth", !.org = req[t].org,
                       !.access = code[2], !.account = code[2]]]
       \/ End(t) /\ UNCHANGED <<codes, grants, swapped>>
    /\ UNCHANGED <<flow, approved, conns, keyVars, tainted, consented, received>>

-----------------------------------------------------------------------------
(* The restricted key.                                                     *)

ReceiveKey(t, o, k) ==
    /\ Receive(t, [NoRequest EXCEPT !.at = "identify", !.method = "restricted_key",
                                    !.org = o, !.access = k])
    /\ SetKey(ProcessOf[t], k)
    /\ consented' = consented \cup {<<o, KeyAccount[k]>>}
    /\ UNCHANGED <<flow, stripe, conns, tainted, swapped>>

\* Fault: the account is asked for without the key, that is, with the platform's.
PlatformsAccount(held, k) == PlatformAccount

\* What _identify makes of the answer Stripe gives to the holder of a key: without
\* Account read, an id made from the key k that was pasted.
IdentifiedAs(held, k) ==
    IF held \in Keys \ AccountRead THEN k ELSE Owner(held)

Identify(t) ==
    /\ req[t].at = "identify"
    /\ \/ req' = [req EXCEPT ![t].at = "find",
                             ![t].account = IdentifiedAs(KeyNow(t), req[t].access)]
          /\ UNCHANGED overtaken
       \/ End(t) /\ Forget(t)
    /\ UNCHANGED <<flow, stripe, conns, apiKey, tainted, intent, received>>

-----------------------------------------------------------------------------
(* The upsert, for both.                                                   *)

Remember(t, c) ==
    req' = [req EXCEPT ![t].at = "write", ![t].found = c, ![t].seen = conns[c]]

FindConnection(t) ==
    /\ req[t].at = "find"
    /\ LET matching == {c \in Rows : Matches(c, req[t].org, req[t].account)} IN
         IF matching = {} THEN req' = [req EXCEPT ![t].at = "write"]
         ELSE \E c \in matching : Remember(t, c)
    /\ UNCHANGED <<flow, stripe, conns, keyVars, tainted, intent, received>>

\* A column is written only when it differs from what was read.  Each exchange gives a
\* token of its own; a key may be pasted again.
NewAccess(t, stored) ==
    IF req[t].method = "restricted_key" /\ req[t].seen.access = req[t].access
    THEN stored ELSE req[t].access

\* Only the form for keys sets auth_method on a row it finds.
NewMethod(t, stored) ==
    IF req[t].method = "restricted_key" THEN "restricted_key" ELSE stored

Refreshed(t, row) ==
    [row EXCEPT !.access = NewAccess(t, @), !.method = NewMethod(t, @)]

\* Fault: a row that was found is put back when it has gone meanwhile.
MergeRow(t) ==
    LET c == req[t].found IN
    conns' = [conns EXCEPT ![c] = Refreshed(t, IF Present(c) THEN @ ELSE req[t].seen)]

\* The UPDATE of a row that is gone matches nothing, and the request fails.
UpdateRow(t) ==
    LET c == req[t].found IN
    IF Present(c) THEN conns' = [conns EXCEPT ![c] = Refreshed(t, @)]
    ELSE UNCHANGED conns

\* Fault: no uq_org_platform_account.
NeverRefused(t) == FALSE

\* uq_org_platform_account: the INSERT is refused when a row is there by now.
Refused(t) == \E c \in Rows : Matches(c, req[t].org, req[t].account)

InsertRow(t) ==
    IF Refused(t) THEN UNCHANGED conns
    ELSE \E c \in ConnIds :
           /\ conns[c] = Unused
           /\ \A d \in 1 .. c - 1 : conns[d] # Unused
           /\ conns' = [conns EXCEPT ![c] =
                [is |-> "row", org |-> req[t].org, account |-> req[t].account,
                 method |-> req[t].method, access |-> req[t].access]]

\* History: what an overtaken request stores is tainted, what another stores is not.
TaintedBy(t, written) ==
    IF t \in overtaken THEN tainted \cup written ELSE tainted \ written

WriteConnection(t) ==
    /\ req[t].at = "write"
    /\ IF req[t].found # None THEN UpdateRow(t) ELSE InsertRow(t)
    /\ tainted' = TaintedBy(t, {c \in ConnIds : conns'[c].access # conns[c].access})
    /\ End(t) /\ Forget(t)
    /\ UNCHANGED <<flow, stripe, apiKey, intent, received>>

-----------------------------------------------------------------------------
(* Disconnecting.                                                          *)

\* Restricted keys are revoked by their owner, only grants by the platform, and those
\* only with its key.
ReceiveDisconnect(t, c) ==
    /\ Present(c)
    /\ LET revoked == conns[c].method = "oauth" /\ Keyed(t) IN
         /\ Receive(t, [NoRequest EXCEPT !.at = IF revoked THEN "deauthorize" ELSE "delete",
                                         !.found = c, !.account = conns[c].account])
         /\ IF revoked THEN SetKey(ProcessOf[t], PlatformAccount) ELSE UNCHANGED keyVars
    /\ UNCHANGED <<flow, stripe, conns, tainted, intent>>

\* Best effort: an error is swallowed.
Deauthorize(t) ==
    /\ req[t].at = "deauthorize"
    /\ \/ KeyNow(t) = PlatformAccount /\ grants' = grants \ {req[t].account}
       \/ UNCHANGED grants
    /\ req' = [req EXCEPT ![t].at = "delete"]
    /\ UNCHANGED <<flow, approved, codes, conns, keyVars, tainted, intent, received>>

\* A DELETE that matches no row is no error.
DeleteConnection(t) ==
    /\ req[t].at = "delete"
    /\ conns' = [conns EXCEPT ![req[t].found] = Deleted]
    /\ tainted' = tainted \ {req[t].found}
    /\ End(t)
    /\ UNCHANGED <<flow, stripe, keyVars, intent, received>>

-----------------------------------------------------------------------------
(* What happens around the requests.                                       *)

\* A sync that runs in an API process takes the connection's key, or the platform's.
SyncSetsKey(p, c) ==
    /\ Present(c)
    /\ \/ conns[c].method = "restricted_key" /\ SetKey(p, conns[c].access)
       \/ conns[c].method = "oauth" /\ p \in KeyedProcesses /\ SetKey(p, PlatformAccount)
    /\ UNCHANGED <<flow, stripe, conns, req, tainted, intent, received>>

\* A request ends where it is: its commit fails, or its process dies.
Fail(t) ==
    /\ req[t].at # "idle"
    /\ End(t) /\ Forget(t)
    /\ UNCHANGED <<flow, stripe, conns, apiKey, tainted, intent, received>>

-----------------------------------------------------------------------------
Init ==
    /\ stateOrg = [s \in States |-> None]
    /\ stateIs = [s \in States |-> "unused"]
    /\ approved = {}
    /\ codes = {}
    /\ grants = {}
    /\ conns = [c \in ConnIds |-> Unused]
    /\ apiKey = [p \in Processes |-> None]
    /\ req = [t \in Threads |-> NoRequest]
    /\ overtaken = {}
    /\ tainted = {}
    /\ consented = {}
    /\ swapped = {}
    /\ received = 0

RequestStep(t) ==
    \/ FindState(t)
    \/ ConsumeState(t)
    \/ Exchange(t)
    \/ Identify(t)
    \/ FindConnection(t)
    \/ WriteConnection(t)
    \/ Deauthorize(t)
    \/ DeleteConnection(t)
    \/ Fail(t)

Next ==
    \/ \E s \in States : Expire(s) \/ \E o \in Orgs : InitFlow(s, o)
    \/ \E s \in States, a \in Accounts : Approve(s, a)
    \/ \E t \in Threads, s \in States, code \in approved : ReceiveCallback(t, s, code)
    \/ \E t \in Threads, o \in Orgs, k \in Keys : ReceiveKey(t, o, k)
    \/ \E t \in Threads, c \in ConnIds : ReceiveDisconnect(t, c)
    \/ \E p \in Processes, c \in ConnIds : SyncSetsKey(p, c)
    \/ \E t \in Threads : RequestStep(t)

Spec == Init /\ [][Next]_vars

-----------------------------------------------------------------------------
(* Properties.                                                             *)

Methods == {"oauth", "restricted_key"}

RowType ==
    [is : {"row"}, org : Orgs, account : AccountIds, method : Methods,
     access : Credentials]

RequestType ==
    [at : {"idle", "state", "consume", "exchange", "identify", "find", "write",
           "deauthorize", "delete"},
     org : Orgs \cup {None}, method : Methods \cup {None}, state : States \cup {None},
     code : (States \X Accounts) \cup {None},
     access : Credentials \cup {None}, account : AccountIds \cup {None},
     found : ConnIds \cup {None}, seen : RowType \cup {None}]

\* The shape of every variable; a request that refreshes a row has read one.
TypeOK ==
    /\ stateOrg \in [States -> Orgs \cup {None}]
    /\ stateIs \in [States -> {"unused", "live", "expired", "used"}]
    /\ approved \subseteq States \X Accounts
    /\ codes \subseteq approved
    /\ grants \subseteq Accounts
    /\ conns \in [ConnIds -> RowType \cup {Unused, Deleted}]
    /\ apiKey \in [Processes -> Credentials \cup {None}]
    /\ req \in [Threads -> RequestType]
    /\ \A t \in Threads :
         req[t].at = "write" /\ req[t].found # None => req[t].seen \in RowType
    /\ overtaken \subseteq Threads
    /\ tainted \subseteq ConnIds
    /\ consented \subseteq Orgs \X Accounts
    /\ swapped \subseteq Orgs \X Accounts
    /\ received \in 0 .. MaxRequests

\* The credential of a connection opens the account that the connection names, after
\* requests for several accounts and organizations have overlapped in one process: a
\* request whose key was overtaken may be told of another account than its own, and
\* this mix-up goes no further than the row it stores, until that gets a new credential.
CredentialFitsRow ==
    \A c \in Rows \ tainted : Owner(conns[c].access) = Owner(conns[c].account)

\* An organization holds the credential of an account only if somebody connected that
\* account for it, on Stripe's page or with a key, or took the code of one page to the
\* state of another; no overlap of requests gives it one, whatever key they were asked with.
RowIsConsented ==
    \A c \in Rows : <<conns[c].org, Owner(conns[c].access)>> \in consented \cup swapped

\* "One row per (organization, platform, external_account_id)", although every request
\* looks for the row before it inserts one.
OneRowPerAccount ==
    \A c, d \in Rows : Matches(d, conns[c].org, conns[c].account) => c = d

\* A connection that was deleted does not come back through a request that had found
\* it before.
DeletedIsFinal ==
    [][\A c \in ConnIds : conns[c] = Deleted => conns'[c] = Deleted]_vars

=============================================================================
